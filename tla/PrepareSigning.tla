----------------------------- MODULE PrepareSigning -----------------------------
(***************************************************************************)
(* The preparation of an image.  tools/apply-generated-wim.sh applies the  *)
(* generated system and puts its registry hive aside for the stock one.    *)
(* tools/prepare-test-signing.sh then brings both together: the host       *)
(* script stages a command file in the image, boots it in a VM, types the  *)
(* name of the command every ten seconds until the VM has gone, and then   *)
(* installs what tools/enable-test-signing.cmd left behind in the guest: a *)
(* boot store built stage by stage, an edited registry hive and a marker.  *)
(* Either script may stop anywhere, and be run again.                      *)
(*                                                                         *)
(* External: the guest's shell keeps what is typed while a command runs    *)
(* and reads it afterwards; shutdown.exe returns before the guest is down; *)
(* the guest may die at any time; qemu and qemu-nbd keep each other off    *)
(* the image with the qcow2 lock.                                          *)
(***************************************************************************)
EXTENDS Integers

CONSTANTS
    Stages,         \* the bcdedit stages of the command file
    PatchStage,     \* the stage, resume-file-device, whose element the host exports
    MaxSends,       \* how often the host types the command
    MaxAttempts,    \* bound: how often the preparation is run
    MaxApplications \* bound: how often the generated system is applied

ASSUME PrepareAssumption ==
    /\ Stages \in Nat /\ PatchStage \in 1..Stages
    /\ MaxSends \in Nat /\ MaxAttempts \in Nat /\ MaxApplications \in Nat

VARIABLES
    host,       \* where the host script that runs is, or how the last one ended
    mounted,    \* whether it has the image's volumes mounted
    sends,      \* how often it has typed the command
    attempts,   \* how often the preparation was started
    vm,         \* "off", "on", or "down" from the request to shut down on
    typed,      \* the commands typed and not read yet
    command,    \* where enable-test-signing.cmd is
    marker,     \* win0doom-bcd-ready.txt
    store,      \* BCD.win0doom: how many stages it has been through
    SYSTEM,     \* the hive config\SYSTEM
    target,     \* SYSTEM.win0doom-target
    win4,       \* SYSTEM.win0doom-win4
    used,       \* SYSTEM.win0doom-win4-used
    BCD,        \* the installed boot store
    kept,       \* BCD.pre-win0doom
    applications, \* how often the generated system was applied
    applied,    \* history: whether that has come to its end
    begun,      \* history: the installed store when the preparation was started last
    runs,       \* history: how often the guest started the command in this attempt
    readied     \* history: whether it wrote "ready" in this attempt

hostVars == <<host, mounted, sends, attempts>>
guestVars == <<vm, typed, command, runs, readied, begun>>
hives == <<SYSTEM, target, win4, used>>
applyVars == <<applications, applied>>
stores == <<BCD, kept>>
files == <<marker, store, hives, stores>>
vars == <<hostVars, guestVars, applyVars, files>>

Absent == -1
Stock == -2     \* the boot store the image came with

(* Whose hive a file holds, and whether the command has edited it.           *)
Hive(of, edited) == [of |-> of, edited |-> edited]
NoHive == Hive("none", FALSE)
Edited(hive) == [hive EXCEPT !.edited = TRUE]

ApplyPlaces == {"copy hive", "apply wim", "move generated", "move stock", "require"}
PreparePlaces == {"stage", "boot", "wait", "check", "patch", "keep", "install", "set aside",
                  "replace", "clean"}

(* No script runs.                                                           *)
Resting == {"idle", "applied", "done", "failed"}

Places == Resting \cup ApplyPlaces \cup PreparePlaces

-----------------------------------------------------------------------------
Init ==
    /\ host = "idle"
    /\ mounted = FALSE
    /\ sends = 0
    /\ attempts = 0
    /\ vm = "off"
    /\ typed = 0
    /\ command = "none"
    /\ marker = "absent"
    /\ store = Absent
    /\ SYSTEM = Hive("stock", FALSE)
    /\ target = NoHive /\ win4 = NoHive /\ used = NoHive
    /\ BCD = Stock
    /\ kept = Absent
    /\ begun = Stock
    /\ applications = 0
    /\ applied = FALSE
    /\ runs = 0
    /\ readied = FALSE

-----------------------------------------------------------------------------
(* tools/apply-generated-wim.sh.                                            *)

ApplyStep(from, to) ==
    /\ host = from
    /\ host' = to
    /\ UNCHANGED <<sends, attempts, guestVars, marker, store, stores, applications>>

(* An image without a SYSTEM hive is refused.                                *)
Apply ==
    /\ host \in Resting
    /\ applications < MaxApplications
    /\ vm = "off"
    /\ SYSTEM # NoHive
    /\ host' = "copy hive"
    /\ mounted' = TRUE
    /\ applications' = applications + 1
    /\ UNCHANGED <<sends, attempts, guestVars, applied, files>>

CopyHive ==
    /\ ApplyStep("copy hive", "apply wim")
    /\ win4' = SYSTEM
    /\ UNCHANGED <<mounted, applied, SYSTEM, target, used>>

(* The image brings its own hive.                                            *)
ApplyWim ==
    /\ ApplyStep("apply wim", "move generated")
    /\ SYSTEM' = Hive("generated", FALSE)
    /\ UNCHANGED <<mounted, applied, target, win4, used>>

MoveGenerated ==
    /\ ApplyStep("move generated", "move stock")
    /\ target' = SYSTEM
    /\ SYSTEM' = NoHive
    /\ UNCHANGED <<mounted, applied, win4, used>>

MoveStock ==
    /\ ApplyStep("move stock", "require")
    /\ SYSTEM' = win4
    /\ win4' = NoHive
    /\ UNCHANGED <<mounted, applied, target, used>>

(* The files that are required of the generated system are there.            *)
Require ==
    /\ ApplyStep("require", "applied")
    /\ applied' = TRUE
    /\ mounted' = FALSE
    /\ UNCHANGED hives

-----------------------------------------------------------------------------
(* The preparation up to the boot of the VM.                                *)

(* attach_image and mount_validationos; the lock must be free. *)
Start ==
    /\ host \in Resting
    /\ attempts < MaxAttempts
    /\ vm = "off"
    /\ attempts' = attempts + 1
    /\ host' = "stage"
    /\ mounted' = TRUE
    /\ sends' = 0
    /\ runs' = 0
    /\ readied' = FALSE
    /\ begun' = BCD
    /\ UNCHANGED <<vm, typed, command, applyVars, files>>

(* Mutant: a marker of an earlier attempt is left. *)
StageKeeping ==
    /\ host = "stage"
    /\ host' = "boot"
    /\ mounted' = FALSE
    /\ UNCHANGED <<sends, attempts, guestVars, applyVars, files>>

(* The command file goes in, the old marker out, and the image is detached.  *)
Stage ==
    /\ host = "stage"
    /\ marker' = "absent"
    /\ host' = "boot"
    /\ mounted' = FALSE
    /\ UNCHANGED <<sends, attempts, guestVars, applyVars, store, hives, stores>>

Boot ==
    /\ host = "boot"
    /\ host' = "wait"
    /\ vm' = "on"
    /\ UNCHANGED <<mounted, sends, attempts, typed, command, runs, readied, begun,
                   applyVars, files>>

-----------------------------------------------------------------------------
(* The guest.                                                              *)

GuestStep(from, to) ==
    /\ vm # "off"
    /\ command = from
    /\ command' = to
    /\ UNCHANGED <<hostVars, typed, begun, applyVars, stores>>

(* The shell reads a line and starts the command; not in a guest without a    *)
(* SYSTEM hive, which does not come up.                                      *)
RunCommand ==
    /\ typed > 0
    /\ SYSTEM # NoHive
    /\ vm # "off"
    /\ command = "none"
    /\ command' = "copy-template"
    /\ typed' = typed - 1
    /\ runs' = runs + 1
    /\ UNCHANGED <<hostVars, vm, readied, begun, applyVars, files>>

CopyTemplate ==
    /\ GuestStep("copy-template", "bcdedit")
    /\ store' = 0
    /\ UNCHANGED <<vm, runs, readied, marker, hives>>

BcdEdit ==
    /\ store < Stages
    /\ GuestStep("bcdedit", "bcdedit")
    /\ store' = store + 1
    /\ UNCHANGED <<vm, runs, readied, marker, hives>>

(* Mutant: the registry is edited before the boot store is complete. *)
ImportEarly ==
    /\ GuestStep("bcdedit", "ready")
    /\ IF target # NoHive
       THEN target' = Edited(target) /\ UNCHANGED SYSTEM
       ELSE SYSTEM' = Edited(SYSTEM) /\ UNCHANGED target
    /\ UNCHANGED <<vm, runs, readied, marker, store, win4, used>>

(* The registry: the target hive, loaded and unloaded again, if there is one, *)
(* otherwise that of the running system.                                     *)
Import ==
    /\ store = Stages
    /\ GuestStep("bcdedit", "ready")
    /\ IF target # NoHive
       THEN target' = Edited(target) /\ UNCHANGED SYSTEM
       ELSE SYSTEM' = Edited(SYSTEM) /\ UNCHANGED target
    /\ UNCHANGED <<vm, runs, readied, marker, store, win4, used>>

MarkReady ==
    /\ GuestStep("ready", "shutdown")
    /\ marker' = "ready"
    /\ readied' = TRUE
    /\ UNCHANGED <<vm, runs, store, hives>>

(* :failed, from any stage. *)
MarkFailed ==
    /\ \E stage \in {"copy-template", "bcdedit", "ready"} : GuestStep(stage, "shutdown")
    /\ marker' = "failed"
    /\ UNCHANGED <<vm, runs, readied, store, hives>>

(* shutdown.exe, and back to the shell. *)
Shutdown ==
    /\ GuestStep("shutdown", "none")
    /\ vm' = "down"
    /\ UNCHANGED <<runs, readied, marker, store, hives>>

(* The guest is down, or has died. *)
PowerOff ==
    /\ vm # "off"
    /\ vm' = "off"
    /\ typed' = 0
    /\ command' = "none"
    /\ UNCHANGED <<hostVars, runs, readied, begun, applyVars, files>>

-----------------------------------------------------------------------------
(* The host script while the VM runs.                                       *)

(* Mutant: the host types for as long as the VM runs. *)
SendForever ==
    /\ host = "wait"
    /\ vm # "off"
    /\ typed' \in {typed, IF typed < MaxSends THEN typed + 1 ELSE typed}
    /\ UNCHANGED <<hostVars, vm, command, runs, readied, begun, applyVars, files>>

(* A key press before the shell is up may be lost. *)
Send ==
    /\ host = "wait"
    /\ vm # "off"
    /\ sends < MaxSends
    /\ sends' = sends + 1
    /\ typed' \in {typed, typed + 1}
    /\ UNCHANGED <<host, mounted, attempts, vm, command, runs, readied, begun, applyVars, files>>

(* The VM is killed by the cleanup when it has not ended in time. *)
TimeOut ==
    /\ host = "wait"
    /\ sends = MaxSends
    /\ vm # "off"
    /\ host' = "failed"
    /\ vm' = "down"
    /\ UNCHANGED <<mounted, sends, attempts, typed, command, runs, readied, begun,
                   applyVars, files>>

(* Mutant: the image is attached whether or not the VM has ended. *)
CollectUnwaited ==
    /\ host = "wait"
    /\ host' = "check"
    /\ mounted' = TRUE
    /\ UNCHANGED <<sends, attempts, guestVars, applyVars, files>>

Collect ==
    /\ host = "wait"
    /\ vm = "off"
    /\ host' = "check"
    /\ mounted' = TRUE
    /\ UNCHANGED <<sends, attempts, guestVars, applyVars, files>>

-----------------------------------------------------------------------------
(* Installing what the guest left.                                          *)

HostStep(from, to) ==
    /\ host = from
    /\ host' = to
    /\ UNCHANGED <<sends, attempts, guestVars, applyVars>>

Check ==
    /\ marker = "ready"
    /\ HostStep("check", "patch")
    /\ UNCHANGED <<mounted, files>>

(* hivexregedit finds the element it exports, or the script stops.           *)
Patch ==
    /\ store >= PatchStage
    /\ HostStep("patch", "keep")
    /\ UNCHANGED <<mounted, files>>

(* Mutant: the new store is kept, for the installed one. *)
KeepGenerated ==
    /\ HostStep("keep", "install")
    /\ kept' = store
    /\ UNCHANGED <<mounted, marker, store, hives, BCD>>

(* The installed store is copied, over the copy of an earlier preparation.   *)
Keep ==
    /\ HostStep("keep", "install")
    /\ kept' = BCD
    /\ UNCHANGED <<mounted, marker, store, hives, BCD>>

Install ==
    /\ HostStep("install", IF target # NoHive THEN "set aside" ELSE "clean")
    /\ BCD' = store
    /\ UNCHANGED <<mounted, marker, store, hives, kept>>

(* SYSTEM is moved out of the way, and the target hive into its place.       *)
SetAside ==
    /\ HostStep("set aside", "replace")
    /\ used' = SYSTEM
    /\ SYSTEM' = NoHive
    /\ UNCHANGED <<mounted, marker, store, target, win4, stores>>

(* Mutant: the target hive is removed before it is in place. *)
ReplaceByDeleting ==
    /\ HostStep("replace", "clean")
    /\ target' = NoHive
    /\ UNCHANGED <<mounted, marker, store, SYSTEM, win4, used, stores>>

Replace ==
    /\ HostStep("replace", "clean")
    /\ SYSTEM' = target
    /\ target' = NoHive
    /\ UNCHANGED <<mounted, marker, store, win4, used, stores>>

Clean ==
    /\ HostStep("clean", "done")
    /\ marker' = "absent"
    /\ store' = Absent
    /\ mounted' = FALSE
    /\ UNCHANGED <<hives, stores>>

(* Any command of either script may fail, and the script with it.            *)
Fail ==
    /\ \E place \in (ApplyPlaces \cup PreparePlaces) \ {"wait"} : HostStep(place, "failed")
    /\ mounted' = FALSE
    /\ UNCHANGED files

-----------------------------------------------------------------------------
HostNext ==
    \/ CopyHive \/ ApplyWim \/ MoveGenerated \/ MoveStock \/ Require
    \/ Stage \/ Boot \/ Send \/ TimeOut \/ Collect
    \/ Check \/ Patch \/ Keep \/ Install \/ SetAside \/ Replace \/ Clean \/ Fail

GuestNext ==
    \/ RunCommand \/ CopyTemplate \/ BcdEdit \/ Import \/ MarkReady \/ MarkFailed
    \/ Shutdown \/ PowerOff

Next == Apply \/ Start \/ HostNext \/ GuestNext

Spec == Init /\ [][Next]_vars

(* A script that runs goes on.  Nothing is asked of the guest.               *)
FairSpec == Spec /\ WF_vars(HostNext)

-----------------------------------------------------------------------------
(* Properties.                                                             *)

HiveFile == {NoHive} \cup [of : {"stock", "generated"}, edited : BOOLEAN]

TypeOK ==
    /\ host \in Places
    /\ mounted \in BOOLEAN /\ readied \in BOOLEAN
    /\ sends \in 0..MaxSends /\ attempts \in 0..MaxAttempts
    /\ vm \in {"off", "on", "down"}
    /\ typed \in 0..MaxSends /\ runs \in 0..MaxSends
    /\ command \in {"none", "copy-template", "bcdedit", "ready", "shutdown"}
    /\ marker \in {"absent", "ready", "failed"}
    /\ store \in {Absent} \cup 0..Stages
    /\ SYSTEM \in HiveFile /\ target \in HiveFile /\ win4 \in HiveFile /\ used \in HiveFile
    /\ BCD \in {Stock} \cup 0..Stages /\ kept \in {Absent, Stock} \cup 0..Stages
    /\ applications \in 0..MaxApplications /\ applied \in BOOLEAN
    /\ begun \in {Stock} \cup 0..Stages

(* The host and the guest never have the image's volumes open together.      *)
OneOwner == mounted => vm = "off"

(* What the host installs was marked ready by the guest it has just run, and  *)
(* never by that of an earlier attempt.                                      *)
MarkerIsFresh == host \in {"patch", "install"} => readied

(* Wherever a script stops, and however often they are repeated, an image     *)
(* without a SYSTEM hive has the generated one and the one it was taken from  *)
(* under their other names; and the stock hive is somewhere in the image, as  *)
(* long as the generated system is applied only once.                        *)
HiveNeverLost ==
    /\ SYSTEM = NoHive => target.of = "generated" /\ (win4 # NoHive \/ used # NoHive)
    /\ applications <= 1 => \E hive \in {SYSTEM, win4, used} : hive.of = "stock"

(* A preparation that finds the stock boot store installed does not lose it,  *)
(* wherever it stops and whatever attempts had failed before.                *)
StockStoreKept == begun = Stock => Stock \in {BCD, kept}

(* A guest that ran the command once, from its start to its end, leaves a     *)
(* complete boot store and an edited hive in the image the script finishes:   *)
(* that of the generated system, if that was applied.                        *)
OnceIsComplete ==
    host = "done" /\ runs = 1 =>
        /\ BCD = Stages /\ SYSTEM.edited
        /\ applied => SYSTEM.of = "generated"

(* The script comes to an end, whatever becomes of the guest.                *)
ScriptEnds == host = "wait" ~> host \in {"done", "failed"}

(* The message of the last line: Windows prepared the BCD.                   *)
PreparedIsComplete == host = "done" => BCD = Stages
===============================================================================
