------------------------------- MODULE NbdAttach -------------------------------
(***************************************************************************)
(* How tools/install-payload.sh, and in the same way the other scripts of  *)
(* tools/ that write into an image, attach it: look for an nbd device the  *)
(* kernel gives no size, connect the image to it with qemu-nbd, wait for   *)
(* the size, mount the root volume, write, and clean up in the EXIT trap.  *)
(* Scripts for different images may run at the same time, and one that     *)
(* failed may be run again.                                                *)
(*                                                                         *)
(* The cleanup ignores a umount and a disconnection that fail, and ends.   *)
(*                                                                         *)
(* External: qemu-nbd refuses a device that is connected and an image that *)
(* is locked; it disconnects whatever is connected, or fails to, and with  *)
(* the connection goes the lock; the kernel publishes the size of a        *)
(* connected device some time later.                                       *)
(***************************************************************************)
EXTENDS Integers

CONSTANTS
    Scripts,    \* the scripts, each named by the image it is for
    Devices,    \* how many nbd devices there are
    MaxRuns,    \* bound: how often a script is run
    None        \* no device, no image

ASSUME AttachAssumption ==
    /\ Devices \in Nat /\ MaxRuns \in Nat
    /\ None \notin Scripts /\ None \notin 0..(Devices - 1)

VARIABLES
    at,         \* at[s]: where the script for image s is
    nbd,        \* nbd[s]: its variable of that name
    mounted,    \* mounted[s]: the image whose volume is at its mount_root
    device,     \* device[d]: the image connected to device d
    sized,      \* sized[d]: whether the kernel has published its size
    wrote,      \* wrote[s]: the images the script for s has copied the payload into
    runs,       \* runs[s]: how often it was started
    stuck,      \* the scripts whose last umount failed
    refused     \* <<s, d>>: the script for s failed to disconnect d, and nobody did since

outcomeVars == <<stuck, refused>>
vars == <<at, nbd, mounted, device, sized, wrote, runs, outcomeVars>>

NbdDevices == 0..(Devices - 1)

-----------------------------------------------------------------------------
Init ==
    /\ at = [s \in Scripts |-> "ended"]
    /\ nbd = [s \in Scripts |-> None]
    /\ mounted = [s \in Scripts |-> None]
    /\ device = [d \in NbdDevices |-> None]
    /\ sized = [d \in NbdDevices |-> FALSE]
    /\ wrote = [s \in Scripts |-> {}]
    /\ runs = [s \in Scripts |-> 0]
    /\ stuck = {}
    /\ refused = {}

Goto(s, from, to) ==
    /\ at[s] = from
    /\ at' = [at EXCEPT ![s] = to]

(* Its mount_root is a new directory; one that could not be unmounted stays   *)
(* behind under its own name.                                                *)
Start(s) ==
    /\ runs[s] < MaxRuns
    /\ Goto(s, "ended", "choose")
    /\ runs' = [runs EXCEPT ![s] = @ + 1]
    /\ nbd' = [nbd EXCEPT ![s] = None]
    /\ wrote' = [wrote EXCEPT ![s] = {}]
    /\ mounted' = [mounted EXCEPT ![s] = None]
    /\ stuck' = stuck \ {s}
    /\ UNCHANGED <<device, sized, refused>>

(* The first device without a size; without one the script fails. *)
Choose(s) ==
    /\ \/ \E d \in NbdDevices :
            /\ ~sized[d] /\ \A e \in 0..(d - 1) : sized[e]
            /\ Goto(s, "choose", "connect")
            /\ nbd' = [nbd EXCEPT ![s] = d]
       \/ /\ \A d \in NbdDevices : sized[d]
          /\ Goto(s, "choose", "umount")
          /\ nbd' = [nbd EXCEPT ![s] = None]
    /\ UNCHANGED <<mounted, device, sized, wrote, runs, outcomeVars>>

Connect(s) ==
    /\ Goto(s, "connect", "wait")
    /\ \A d \in NbdDevices : device[d] # s
    /\ device[nbd[s]] = None
    /\ device' = [device EXCEPT ![nbd[s]] = s]
    /\ UNCHANGED <<nbd, mounted, sized, wrote, runs, outcomeVars>>

PublishSize(d) ==
    /\ device[d] # None
    /\ ~sized[d]
    /\ sized' = [sized EXCEPT ![d] = TRUE]
    /\ UNCHANGED <<at, nbd, mounted, device, wrote, runs, outcomeVars>>

(* The wait for the size ends, with it or after ten seconds.                 *)
Wait(s) ==
    /\ Goto(s, "wait", "mount")
    /\ UNCHANGED <<nbd, mounted, device, sized, wrote, runs, outcomeVars>>

(* The root volume is looked for on whatever the device now holds.           *)
Mount(s) ==
    /\ Goto(s, "mount", "write")
    /\ sized[nbd[s]]
    /\ mounted' = [mounted EXCEPT ![s] = device[nbd[s]]]
    /\ UNCHANGED <<nbd, device, sized, wrote, runs, outcomeVars>>

(* The copies and the sync succeed while the device is still there.          *)
Write(s) ==
    /\ Goto(s, "write", "umount")
    /\ device[nbd[s]] = mounted[s]
    /\ wrote' = [wrote EXCEPT ![s] = @ \cup {mounted[s]}]
    /\ UNCHANGED <<nbd, mounted, device, sized, runs, outcomeVars>>

(* Any command may fail; the trap runs. *)
Fail(s) ==
    /\ at[s] \in {"choose", "connect", "wait", "mount", "write"}
    /\ at' = [at EXCEPT ![s] = "umount"]
    /\ UNCHANGED <<nbd, mounted, device, sized, wrote, runs, outcomeVars>>

-----------------------------------------------------------------------------
(* cleanup.                                                                *)

AfterUmount(s) == Goto(s, "umount", IF nbd[s] = None THEN "ended" ELSE "disconnect")

Umount(s) ==
    /\ AfterUmount(s)
    /\ mounted' = [mounted EXCEPT ![s] = None]
    /\ UNCHANGED <<nbd, device, sized, wrote, runs, outcomeVars>>

(* What is mounted is in use; the failure is ignored.                        *)
UmountFails(s) ==
    /\ AfterUmount(s)
    /\ mounted[s] # None
    /\ stuck' = stuck \cup {s}
    /\ UNCHANGED <<nbd, mounted, device, sized, wrote, runs, refused>>

(* Mutant: a device without a size is taken not to be connected. *)
DisconnectSized(s) ==
    /\ Goto(s, "disconnect", "ended")
    /\ IF sized[nbd[s]]
       THEN /\ device' = [device EXCEPT ![nbd[s]] = None]
            /\ sized' = [sized EXCEPT ![nbd[s]] = FALSE]
            /\ refused' = {r \in refused : r[2] # nbd[s]}
       ELSE UNCHANGED <<device, sized, refused>>
    /\ UNCHANGED <<nbd, mounted, wrote, runs, stuck>>

(* disconnect_nbd, with its waits for the server and the lock of the image.  *)
Disconnect(s) ==
    /\ Goto(s, "disconnect", "ended")
    /\ device' = [device EXCEPT ![nbd[s]] = None]
    /\ sized' = [sized EXCEPT ![nbd[s]] = FALSE]
    /\ refused' = {r \in refused : r[2] # nbd[s]}
    /\ UNCHANGED <<nbd, mounted, wrote, runs, stuck>>

(* The command fails; the waits run out, disconnect_nbd returns 1, and the   *)
(* script ends all the same.                                                 *)
DisconnectFails(s) ==
    /\ Goto(s, "disconnect", "ended")
    /\ device[nbd[s]] # None
    /\ refused' = refused \cup {<<s, nbd[s]>>}
    /\ UNCHANGED <<nbd, mounted, device, sized, wrote, runs, stuck>>

-----------------------------------------------------------------------------
ScriptStep(s) ==
    \/ Choose(s) \/ Connect(s) \/ Wait(s) \/ Mount(s) \/ Write(s) \/ Fail(s)
    \/ Umount(s) \/ UmountFails(s) \/ Disconnect(s) \/ DisconnectFails(s)

Next ==
    \/ \E s \in Scripts : Start(s) \/ ScriptStep(s)
    \/ \E d \in NbdDevices : PublishSize(d)

Spec == Init /\ [][Next]_vars

-----------------------------------------------------------------------------
(* Properties.                                                             *)

Places == {"ended", "choose", "connect", "wait", "mount", "write", "umount", "disconnect"}

TypeOK ==
    /\ at \in [Scripts -> Places]
    /\ nbd \in [Scripts -> NbdDevices \cup {None}]
    /\ mounted \in [Scripts -> Scripts \cup {None}]
    /\ device \in [NbdDevices -> Scripts \cup {None}]
    /\ sized \in [NbdDevices -> BOOLEAN]
    /\ \A d \in NbdDevices : sized[d] => device[d] # None
    /\ wrote \in [Scripts -> SUBSET Scripts]
    /\ runs \in [Scripts -> 0..MaxRuns]
    /\ stuck \subseteq Scripts
    /\ refused \subseteq Scripts \X NbdDevices

(* However scripts that run together disturb each other and each other's      *)
(* devices: when one has ended, its image is on a device, where the lock      *)
(* keeps the next script and the VM off it, only if the script itself tried   *)
(* to disconnect that device, failed, and nobody has done it since; and it    *)
(* leaves a mount only if its umount failed.                                 *)
NothingLeftBehind ==
    \A s \in Scripts : at[s] = "ended" =>
        /\ mounted[s] # None => s \in stuck
        /\ \A d \in NbdDevices : device[d] = s => <<s, d>> \in refused

(* The message of install-payload.sh: the payload went into the image the     *)
(* script was called for, and no other.                                      *)
PayloadIntoOwnImage == \A s \in Scripts : wrote[s] \subseteq {s}
===============================================================================
