---------------------------- MODULE WindowsBuilder ----------------------------
(***************************************************************************)
(* tools/build-vm-image.ps1, over the files of ImageFiles: it creates a    *)
(* disk image, mounts it, loads its SYSTEM hive and a boot store into the  *)
(* registry of the host to edit them, gives everything back, and moves the *)
(* image to its own name.  Any command may fail, which throws; the finally *)
(* block then gives back what the script's flags say is still held.  The   *)
(* names the hives are loaded under are the same for every run of the      *)
(* script.                                                                 *)
(*                                                                         *)
(* A host runs either the shell scripts or this one.                       *)
(***************************************************************************)
EXTENDS ImageFiles

VARIABLES
    host,           \* "linux" or "windows"
    loaded,         \* loaded[h]: the run that has hive h loaded, or NoOne
    mounted,        \* the runs that have their image mounted
    flags,          \* flags[p]: which of VhdMounted, Loaded...Hive are set
    thrown,         \* thrown[p]: an exception is on its way
    refused         \* history: refused[p]: what finally could not give back

held == <<loaded, mounted>>
windowsVars == <<host, held, flags, thrown, refused>>
builderVars == <<vars, windowsVars>>

Hives == {"SYSTEM", "BCD"}
NoOne == "no one"

ASSUME BuilderAssumption == {NoOne, "nobody", "original"} \cap Scripts = {}

(* The places of the script that come once for each hive.                    *)
Load(h) == IF h = "SYSTEM" THEN "load SYSTEM" ELSE "load BCD"
Edit(h) == IF h = "SYSTEM" THEN "edit SYSTEM" ELSE "edit BCD"
Unload(h) == IF h = "SYSTEM" THEN "unload SYSTEM" ELSE "unload BCD"
Finally(h) == IF h = "SYSTEM" THEN "finally SYSTEM" ELSE "finally BCD"

BuilderInit ==
    /\ Init
    /\ host \in {"linux", "windows"}
    /\ loaded = [h \in Hives |-> NoOne]
    /\ mounted = {}
    /\ flags = [p \in Scripts |-> {}]
    /\ thrown = [p \in Scripts |-> FALSE]
    /\ refused = [p \in Scripts |-> {}]

-----------------------------------------------------------------------------
Set(p, flag) == flags' = [flags EXCEPT ![p] = @ \cup {flag}]
Clear(p, flag) == flags' = [flags EXCEPT ![p] = @ \ {flag}]
Throw(p) == thrown' = [thrown EXCEPT ![p] = TRUE]

(* What no step of this script changes.                                      *)
Steady == UNCHANGED <<host, clock, vm, kind, timestamp, source, open, raced, prior, displaced>>
FilesUnchanged == UNCHANGED <<dir, sums, version, copied>>

(* The command at place fails, without an effect, and throws.                *)
CommandFails(p, place) ==
    /\ Goto(p, place, "finally BCD")
    /\ Throw(p)
    /\ Steady /\ FilesUnchanged /\ UNCHANGED <<held, flags, refused>>

(* Test-Path on the output, before the try block. *)
CheckOutput(p) ==
    /\ Goto(p, "new", "create")
    /\ ~Exists(Target)
    /\ Steady /\ FilesUnchanged /\ UNCHANGED <<held, flags, thrown, refused>>

(* diskpart; it may leave a file behind when it fails. *)
CreateDisk(p) ==
    /\ \/ Goto(p, "create", "mount") /\ UNCHANGED thrown
       \/ Goto(p, "create", "finally BCD") /\ Throw(p)
    /\ NewContent(Partial(p), p, "half")
    /\ copied' = [copied EXCEPT ![p] = Image(p, version + 1, "half")]
    /\ Steady /\ UNCHANGED <<sums, held, flags, refused>>

MountImage(p) ==
    /\ Goto(p, "mount", "load SYSTEM")
    /\ mounted' = mounted \cup {p}
    /\ Set(p, "image")
    /\ Steady /\ FilesUnchanged /\ UNCHANGED <<loaded, thrown, refused>>

(* Mutant: the flag is set before the hive is loaded. *)
LoadHiveFlagged(p, h) ==
    /\ IF loaded[h] = NoOne
       THEN /\ Goto(p, Load(h), Edit(h))
            /\ loaded' = [loaded EXCEPT ![h] = p]
            /\ UNCHANGED thrown
       ELSE /\ Goto(p, Load(h), "finally BCD")
            /\ Throw(p)
            /\ UNCHANGED loaded
    /\ Set(p, h)
    /\ Steady /\ FilesUnchanged /\ UNCHANGED <<mounted, refused>>

(* reg load, which fails under a name that is taken. *)
LoadHive(p, h) ==
    /\ loaded[h] = NoOne
    /\ Goto(p, Load(h), Edit(h))
    /\ loaded' = [loaded EXCEPT ![h] = p]
    /\ Set(p, h)
    /\ Steady /\ FilesUnchanged /\ UNCHANGED <<mounted, thrown, refused>>

(* The try block that edits the hive ends, one way or the other; its finally  *)
(* block is next.                                                           *)
EditHive(p, h) ==
    /\ Goto(p, Edit(h), Unload(h))
    /\ \/ Throw(p)
       \/ UNCHANGED thrown
    /\ Steady /\ FilesUnchanged /\ UNCHANGED <<held, flags, refused>>

(* Mutant: an exception leaves the hive to the outer block, whose flag is     *)
(* cleared all the same.                                                     *)
UnloadHiveUnthrown(p, h) ==
    /\ Goto(p, Unload(h), IF thrown[p] THEN "finally BCD"
                               ELSE IF h = "SYSTEM" THEN "load BCD" ELSE "copy")
    /\ loaded' = IF thrown[p] THEN loaded ELSE [loaded EXCEPT ![h] = NoOne]
    /\ Clear(p, h)
    /\ Steady /\ FilesUnchanged /\ UNCHANGED <<mounted, thrown, refused>>

UnloadHive(p, h) ==
    /\ Goto(p, Unload(h), IF thrown[p] THEN "finally BCD"
                               ELSE IF h = "SYSTEM" THEN "load BCD" ELSE "copy")
    /\ loaded' = [loaded EXCEPT ![h] = NoOne]
    /\ Clear(p, h)
    /\ Steady /\ FilesUnchanged /\ UNCHANGED <<mounted, thrown, refused>>

(* The boot store, the driver, the game and the wad. *)
CopyIn(p) ==
    /\ Goto(p, "copy", "dismount")
    /\ dir' = [dir EXCEPT ![Partial(p)].state = "whole"]
    /\ Steady /\ UNCHANGED <<sums, version, copied, held, flags, thrown, refused>>

Dismount(p) ==
    /\ Goto(p, "dismount", "publish")
    /\ mounted' = mounted \ {p}
    /\ Clear(p, "image")
    /\ Steady /\ FilesUnchanged /\ UNCHANGED <<loaded, thrown, refused>>

(* Move-Item, which does not replace a file.                                 *)
MoveItem(p) ==
    /\ ~Exists(Target)
    /\ Goto(p, "publish", "hash")
    /\ dir' = [dir EXCEPT ![Target] = dir[Partial(p)], ![Partial(p)] = Missing]
    /\ Steady /\ UNCHANGED <<sums, version, copied, held, flags, thrown, refused>>

HashOutput(p) ==
    /\ Goto(p, "hash", "finally BCD")
    /\ sums' = [sums EXCEPT ![Target] = dir[Target]]
    /\ Steady /\ UNCHANGED <<dir, version, copied, held, flags, thrown, refused>>

-----------------------------------------------------------------------------
(* The finally block.  Its commands fail without throwing.                   *)

FinallyUnload(p, h) ==
    /\ Goto(p, Finally(h), IF h = "BCD" THEN "finally SYSTEM" ELSE "finally image")
    /\ IF h \notin flags[p] THEN UNCHANGED <<loaded, refused>>
       ELSE \/ loaded' = [loaded EXCEPT ![h] = NoOne] /\ UNCHANGED refused
            \/ refused' = [refused EXCEPT ![p] = @ \cup {h}] /\ UNCHANGED loaded
    /\ Steady /\ FilesUnchanged /\ UNCHANGED <<mounted, flags, thrown>>

FinallyDismount(p) ==
    /\ Goto(p, "finally image", "finally move")
    /\ IF "image" \notin flags[p] THEN UNCHANGED <<mounted, refused>>
       ELSE \/ mounted' = mounted \ {p} /\ UNCHANGED refused
            \/ refused' = [refused EXCEPT ![p] = @ \cup {"image"}] /\ UNCHANGED mounted
    /\ Steady /\ FilesUnchanged /\ UNCHANGED <<loaded, flags, thrown>>

(* Mutant: the incomplete image is moved to the name of the output. *)
FinallyMoveOut(p) ==
    /\ Goto(p, "finally move", "ended")
    /\ dir' = IF Exists(Partial(p)) /\ p \notin mounted
              THEN [dir EXCEPT ![Target] = dir[Partial(p)], ![Partial(p)] = Missing]
              ELSE dir
    /\ Steady /\ UNCHANGED <<sums, version, copied, held, flags, thrown, refused>>

(* An image that is still mounted is not moved.                              *)
FinallyMove(p) ==
    /\ Goto(p, "finally move", "ended")
    /\ dir' = IF Exists(Partial(p)) /\ ~Exists(Failed(p)) /\ p \notin mounted
              THEN [dir EXCEPT ![Failed(p)] = dir[Partial(p)], ![Partial(p)] = Missing]
              ELSE dir
    /\ Steady /\ UNCHANGED <<sums, version, copied, held, flags, thrown, refused>>

(* The process dies, and what it holds stays held.                           *)
Die(p) ==
    /\ pc[p] \notin {"new", "ended", "dead"}
    /\ pc' = [pc EXCEPT ![p] = "dead"]
    /\ Steady /\ FilesUnchanged /\ UNCHANGED <<held, flags, thrown, refused>>

-----------------------------------------------------------------------------
BuilderStep(p) ==
    \/ CheckOutput(p) \/ CreateDisk(p) \/ MountImage(p) \/ CopyIn(p) \/ Dismount(p)
    \/ MoveItem(p) \/ HashOutput(p) \/ FinallyDismount(p) \/ FinallyMove(p) \/ Die(p)
    \/ \E h \in Hives : LoadHive(p, h) \/ EditHive(p, h) \/ UnloadHive(p, h) \/ FinallyUnload(p, h)
    \/ \E place \in {"create", "mount", "copy", "dismount", "publish", "hash"}
            \cup {"load SYSTEM", "unload SYSTEM", "load BCD", "unload BCD"} :
                CommandFails(p, place)

BuilderNext ==
    \/ host = "linux" /\ Next /\ UNCHANGED windowsVars
    \/ host = "windows" /\ \E p \in Scripts : BuilderStep(p)

BuilderSpec == BuilderInit /\ [][BuilderNext]_builderVars

-----------------------------------------------------------------------------
(* Properties.                                                             *)

(* Whatever fails, a run that came to its end leaves behind, of the hives and *)
(* the mounted image, only what finally tried to give back in vain.          *)
OnlyRefusedStays ==
    \A p \in Scripts : pc[p] = "ended" =>
        /\ \A h \in Hives : loaded[h] = p => h \in refused[p]
        /\ p \in mounted => "image" \in refused[p]

(* A run never unloads the hive of another run, although both load it under   *)
(* one name.                                                                *)
HiveOwner ==
    [][\A p \in Scripts : pc'[p] # pc[p] =>
            \A h \in Hives : loaded'[h] # loaded[h] => p \in {loaded[h], loaded'[h]}]_builderVars

(* A run that ended early, or died, has not lost the image it began, and no   *)
(* run has replaced the finished image of another: its own image is under its *)
(* partial, its failed or, when it is complete, the output's name.           *)
BuildIsKept ==
    host = "windows" =>
        \A p \in Scripts : copied[p] # Missing =>
            \E name \in {Partial(p), Failed(p), Target} :
                /\ dir[name].id = p
                /\ name = Target => dir[name].state = "whole"
===============================================================================
