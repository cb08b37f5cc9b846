------------------------------- MODULE ImageFiles -------------------------------
(***************************************************************************)
(* The image files that tools/build-vm-image.sh, tools/deploy-vm.sh and    *)
(* tools/rollback-vm.sh create, copy and rename around one target image,   *)
(* while a VM may run on it.  One action per command whose effect a stop   *)
(* would leave behind; a command that fails ends its script, and a script  *)
(* may be killed between any two commands.                                 *)
(*                                                                         *)
(* External: qemu, qemu-nbd and qemu-img lock the image they have open,    *)
(* for writing or for reading; an image that is renamed stays open under   *)
(* its new name.  A VM that was started under another spelling of the path *)
(* is not found by pgrep.                                                  *)
(***************************************************************************)
EXTENDS Integers

CONSTANTS
    Scripts,        \* the runs of scripts; each is one process
    MaxTime,        \* bound: the seconds that may pass
    MaxVersion      \* bound: how often an image gets a content of its own

ASSUME ImagesAssumption == MaxTime \in Nat \ {0} /\ MaxVersion \in Nat \ {0}

VARIABLES
    clock,          \* the current second
    dir,            \* dir[name]: what the file of that name holds, or Missing
    sums,           \* sums[name]: the content its .sha256 file is about, or Missing
    vm,             \* the file the VM runs on, or NoFile
    pc, kind,       \* pc[p], kind[p]: where script run p is, and of which script
    timestamp,      \* timestamp[p]: the variable of the same name
    source,         \* source[p]: what p copies: the target, or the backup it was given
    open,           \* open[p]: the file a child of p has open, or NoFile
    version,        \* the last content that came into being
    copied,         \* history: copied[p]: what the file p copies held
    raced,          \* history: raced[p]: another wrote the target since p copied it
    prior,          \* history: prior[v]: what payload v was written over
    displaced       \* history: displaced[p]: the identity of what p moved away

scriptVars == <<pc, kind, timestamp, source, open>>
history == <<copied, raced, prior, displaced>>
vars == <<clock, dir, sums, vm, scriptVars, version, history>>

Target == <<"target">>
Backup(t) == <<"pre-deploy", t>>
Displaced(t) == <<"pre-rollback", t>>
Restoring(p) == <<"restoring", p>>
Partial(p) == <<"partial", p>>
Failed(p) == <<"failed", p>>
NoFile == <<"no file">>

Stamped == {Backup(t) : t \in 0..MaxTime} \cup {Displaced(t) : t \in 0..MaxTime}
Names == {Target} \cup Stamped \cup
    UNION {{Restoring(p), Partial(p), Failed(p)} : p \in Scripts}

(* A file keeps its identity when it is renamed: that of the script that     *)
(* created it.  It is "torn" while it is being written, "half" when it is a    *)
(* well-formed image of a system that is not complete, or "whole".           *)
Image(id, v, state) == [id |-> id, v |-> v, state |-> state]
Missing == Image("nobody", -1, "missing")
Unknown == Image("nobody", -2, "unknown")
SameContent(a, b) == a.v = b.v /\ a.state = b.state
Exists(name) == dir[name] # Missing

Kinds == {"build", "deploy", "rollback"}

(* Mutant: a rollback restores straight into the target. *)
CopyInPlace(p) ==
    CASE kind[p] = "build" -> Partial(p)
      [] kind[p] = "deploy" -> Backup(timestamp[p])
      [] kind[p] = "rollback" -> Target

(* The file p copies to, and works on from then on.                          *)
Copy(p) ==
    CASE kind[p] = "build" -> Partial(p)
      [] kind[p] = "deploy" -> Backup(timestamp[p])
      [] kind[p] = "rollback" -> Restoring(p)

Written(name) == vm = name \/ \E p \in Scripts : open[p] = name /\ pc[p] # "copying"
InUse(name) == vm = name \/ \E p \in Scripts : open[p] = name

-----------------------------------------------------------------------------
(* The target is still to be built, or exists, with the backup of an earlier  *)
(* deployment or without.                                                    *)
Init ==
    /\ clock = 1
    /\ \E found \in {{}, {Target}, {Target, Backup(0)}} :
        dir = [name \in Names |->
                IF name \notin found THEN Missing
                ELSE Image("original", IF name = Target THEN 1 ELSE 0, "whole")]
    /\ sums = [name \in Names |-> Missing]
    /\ vm = NoFile
    /\ pc = [p \in Scripts |-> "new"]
    /\ kind = [p \in Scripts |-> "build"]
    /\ timestamp = [p \in Scripts |-> 0]
    /\ source = [p \in Scripts |-> NoFile]
    /\ open = [p \in Scripts |-> NoFile]
    /\ version = 1
    /\ copied = [p \in Scripts |-> Missing]
    /\ raced = [p \in Scripts |-> FALSE]
    /\ prior = [v \in 0..MaxVersion |-> Missing]
    /\ displaced = [p \in Scripts |-> "nobody"]

Goto(p, from, to) ==
    /\ pc[p] = from
    /\ pc' = [pc EXCEPT ![p] = to]

(* A new content of the file called name.                                   *)
NewContent(name, id, state) ==
    /\ version < MaxVersion
    /\ version' = version + 1
    /\ dir' = [dir EXCEPT ![name] = Image(id, version + 1, state)]

Race(p) == raced' = [q \in Scripts |-> raced[q] \/ q # p]

(* mv: who has a file open keeps it, under its new name or under none.       *)
Rename(from, to) ==
    LET follow(name) ==
            IF name = from THEN to ELSE IF name = to THEN NoFile ELSE name
    IN  /\ dir' = [dir EXCEPT ![to] = dir[from], ![from] = Missing]
        /\ vm' = follow(vm)
        /\ open' = [p \in Scripts |-> follow(open[p])]

Tick ==
    /\ clock < MaxTime
    /\ clock' = clock + 1
    /\ UNCHANGED <<dir, sums, vm, scriptVars, version, history>>

-----------------------------------------------------------------------------
(* The VM.                                                                  *)

VmStart ==
    /\ vm = NoFile
    /\ Exists(Target) /\ ~InUse(Target)
    /\ vm' = Target
    /\ UNCHANGED <<clock, dir, sums, scriptVars, version, history>>

(* The guest writes its disk, wherever that file is by now.                  *)
VmWrite ==
    /\ vm # NoFile
    /\ NewContent(vm, dir[vm].id, dir[vm].state)
    /\ prior' = [prior EXCEPT ![version + 1] = prior[dir[vm].v]]
    /\ raced' = [p \in Scripts |-> raced[p] \/ vm = Target]
    /\ UNCHANGED <<clock, sums, vm, scriptVars, copied, displaced>>

VmStop ==
    /\ vm # NoFile
    /\ vm' = NoFile
    /\ UNCHANGED <<clock, dir, sums, scriptVars, version, history>>

-----------------------------------------------------------------------------
(* The checks at the start of a script.                                     *)

(* realpath -e wants the target, and the backup, to exist. *)
Start(p, k) ==
    /\ k # "build" => Exists(Target)
    /\ Goto(p, "new", "check")
    /\ kind' = [kind EXCEPT ![p] = k]
    /\ timestamp' = [timestamp EXCEPT ![p] = clock]
    /\ \E file \in IF k = "rollback" THEN Stamped ELSE {Target} :
        /\ k = "rollback" => Exists(file)
        /\ source' = [source EXCEPT ![p] = file]
    /\ UNCHANGED <<clock, dir, sums, vm, open, version, history>>

(* An output that exists, or an image a VM was seen to run on, stops the      *)
(* script, and so does a backup that fails qemu-img check.                    *)
Check(p) ==
    /\ Goto(p, "check", "copy")
    /\ kind[p] = "build" => ~Exists(Target)
    /\ kind[p] = "rollback" => dir[source[p]].state # "torn"
    /\ UNCHANGED <<clock, dir, sums, vm, kind, timestamp, source, open, version, history>>

-----------------------------------------------------------------------------
(* The copy each script works with.                                         *)

(* qemu-img convert opens what it reads and creates what it writes: from the  *)
(* official disk a system that is not complete, otherwise a copy.            *)
BeginCopy(p) ==
    /\ Goto(p, "copy", "copying")
    /\ ~InUse(Copy(p))
    /\ \A q \in Scripts \ {p} : pc[q] = "copying" => Copy(q) # Copy(p)
    /\ IF kind[p] = "build"
       THEN /\ NewContent(Copy(p), p, "torn")
            /\ copied' = [copied EXCEPT ![p] = Image(p, version + 1, "half")]
            /\ UNCHANGED open
       ELSE /\ Exists(source[p]) /\ ~Written(source[p])
            /\ dir' = [dir EXCEPT ![Copy(p)] = Image(p, dir[source[p]].v, "torn")]
            /\ copied' = [copied EXCEPT ![p] = [dir[source[p]] EXCEPT !.id = p]]
            /\ open' = [open EXCEPT ![p] = source[p]]
            /\ UNCHANGED version
    /\ raced' = [raced EXCEPT ![p] = FALSE]
    /\ UNCHANGED <<clock, sums, vm, kind, timestamp, source, prior, displaced>>

EndCopy(p) ==
    /\ Goto(p, "copying", IF kind[p] = "build" THEN "complete" ELSE "verify")
    /\ dir' = [dir EXCEPT ![Copy(p)] = copied[p]]
    /\ open' = [open EXCEPT ![p] = NoFile]
    /\ UNCHANGED <<clock, sums, vm, kind, timestamp, source, version, history>>

(* Mutant: a stage that fails does not end the build. *)
CompleteUnchecked(p) ==
    /\ Goto(p, "complete", "verify")
    /\ UNCHANGED <<clock, dir, sums, vm, kind, timestamp, source, open, version, history>>

(* The builder applies the generated system, prepares it, and installs the   *)
(* payload.                                                                 *)
Complete(p) ==
    /\ Goto(p, "complete", "verify")
    /\ dir' = [dir EXCEPT ![Copy(p)].state = "whole"]
    /\ UNCHANGED <<clock, sums, vm, kind, timestamp, source, open, version, history>>

(* qemu-img check finds a torn file.                                         *)
Verify(p) ==
    /\ dir[Copy(p)].state # "torn"
    /\ Goto(p, "verify", CASE kind[p] = "build" -> "publish"
                           [] kind[p] = "deploy" -> "sum"
                           [] kind[p] = "rollback" -> "move away")
    /\ UNCHANGED <<clock, dir, sums, vm, kind, timestamp, source, open, version, history>>

(* sha256sum, of the backup, or of the output once it has its name.          *)
Sum(p) ==
    LET file == IF kind[p] = "build" THEN Target ELSE Copy(p)
    IN  /\ Exists(file)
        /\ Goto(p, "sum", IF kind[p] = "build" THEN "done" ELSE "attach")
        /\ sums' = [sums EXCEPT ![file] = dir[file]]
        /\ UNCHANGED <<clock, dir, vm, kind, timestamp, source, open, version, history>>

-----------------------------------------------------------------------------
(* The end of build-vm-image.sh.                                            *)

Publish(p) ==
    /\ Exists(Partial(p))
    /\ Goto(p, "publish", "sum")
    /\ Rename(Partial(p), Target)
    /\ Race(p)
    /\ UNCHANGED <<clock, sums, kind, timestamp, source, version, copied, prior, displaced>>

-----------------------------------------------------------------------------
(* The end of deploy-vm.sh: install-payload.sh on the target.                *)

Attach(p) ==
    /\ Exists(Target) /\ ~InUse(Target)
    /\ Goto(p, "attach", "install")
    /\ open' = [open EXCEPT ![p] = Target]
    /\ UNCHANGED <<clock, dir, sums, vm, kind, timestamp, source, version, history>>

(* The first file is copied into the mounted image.  A target that was moved *)
(* meanwhile is written under its new name.                                  *)
BeginInstall(p) ==
    /\ open[p] # NoFile
    /\ Goto(p, "install", "installing")
    /\ NewContent(open[p], dir[open[p]].id, "half")
    /\ prior' = [prior EXCEPT ![version + 1] = IF raced[p] THEN Unknown ELSE dir[open[p]]]
    /\ Race(p)
    /\ UNCHANGED <<clock, sums, vm, kind, timestamp, source, open, copied, displaced>>

(* The last one, and the detachment.                                        *)
EndInstall(p) ==
    /\ Goto(p, "installing", "done")
    /\ dir' = IF open[p] = NoFile THEN dir ELSE [dir EXCEPT ![open[p]].state = "whole"]
    /\ open' = [open EXCEPT ![p] = NoFile]
    /\ UNCHANGED <<clock, sums, vm, kind, timestamp, source, version, history>>

-----------------------------------------------------------------------------
(* The end of rollback-vm.sh.                                               *)

(* Mutant: the target is removed, for the other image to take its place. *)
MoveAwayRemoved(p) ==
    /\ Exists(Target)
    /\ Goto(p, "move away", "move in")
    /\ dir' = [dir EXCEPT ![Target] = Missing]
    /\ Race(p)
    /\ UNCHANGED <<clock, sums, vm, kind, timestamp, source, open, version,
                   copied, prior, displaced>>

MoveAway(p) ==
    /\ Exists(Target)
    /\ Goto(p, "move away", "move in")
    /\ Rename(Target, Displaced(timestamp[p]))
    /\ Race(p)
    /\ displaced' = [displaced EXCEPT ![p] = dir[Target].id]
    /\ UNCHANGED <<clock, sums, kind, timestamp, source, version, copied, prior>>

MoveIn(p) ==
    /\ Exists(Restoring(p))
    /\ Goto(p, "move in", "done")
    /\ Rename(Restoring(p), Target)
    /\ Race(p)
    /\ UNCHANGED <<clock, sums, kind, timestamp, source, version, copied, prior, displaced>>

-----------------------------------------------------------------------------
(* What ends a script early.                                                *)

Running(p) == pc[p] \notin {"new", "done", "failed", "unsummed", "killed"}

(* Mutant: a trap removes the image that was begun, a deployment's backup too. *)
FailRemoves(p) ==
    /\ Running(p)
    /\ pc' = [pc EXCEPT ![p] = IF kind[p] = "build" /\ @ = "sum" THEN "unsummed" ELSE "failed"]
    /\ dir' = IF pc[p] \in {"check", "copy"} THEN dir ELSE [dir EXCEPT ![Copy(p)] = Missing]
    /\ open' = [open EXCEPT ![p] = NoFile]
    /\ UNCHANGED <<clock, sums, vm, kind, timestamp, source, version, history>>

(* Any command fails.  The builder's trap moves what it has out of the way,   *)
(* and that of install-payload.sh detaches.                                  *)
Fail(p) ==
    /\ Running(p)
    /\ pc' = [pc EXCEPT ![p] = IF kind[p] = "build" /\ @ = "sum" THEN "unsummed" ELSE "failed"]
    /\ IF kind[p] = "build" /\ Exists(Partial(p))
       THEN Rename(Partial(p), Failed(p))
       ELSE open' = [open EXCEPT ![p] = NoFile] /\ UNCHANGED <<dir, vm>>
    /\ UNCHANGED <<clock, sums, kind, timestamp, source, version, history>>

(* The script dies without its trap; qemu-nbd survives it, or not. *)
Kill(p) ==
    /\ Running(p)
    /\ pc' = [pc EXCEPT ![p] = IF kind[p] = "build" /\ @ = "sum" THEN "unsummed" ELSE "killed"]
    /\ open' \in {[open EXCEPT ![p] = NoFile],
                  IF pc[p] = "copying" THEN [open EXCEPT ![p] = NoFile] ELSE open}
    /\ UNCHANGED <<clock, dir, sums, vm, kind, timestamp, source, version, history>>

-----------------------------------------------------------------------------
ScriptNext(p) ==
    \/ \E k \in Kinds : Start(p, k)
    \/ Check(p) \/ BeginCopy(p) \/ EndCopy(p) \/ Complete(p) \/ Verify(p) \/ Sum(p)
    \/ Publish(p) \/ Attach(p) \/ BeginInstall(p) \/ EndInstall(p)
    \/ MoveAway(p) \/ MoveIn(p) \/ Fail(p) \/ Kill(p)

Next == Tick \/ VmStart \/ VmWrite \/ VmStop \/ \E p \in Scripts : ScriptNext(p)

Spec == Init /\ [][Next]_vars

-----------------------------------------------------------------------------
(* Properties.                                                             *)

TypeOK ==
    /\ clock \in 0..MaxTime /\ version \in 0..MaxVersion
    /\ \A name \in Names : dir[name] = Missing \/
            dir[name] \in [id : Scripts \cup {"original"}, v : 0..MaxVersion,
                          state : {"torn", "half", "whole"}]
    /\ vm \in {NoFile} \cup {name \in Names : Exists(name)}
    /\ open \in [Scripts -> {NoFile} \cup {name \in Names : Exists(name)}]
    /\ kind \in [Scripts -> Kinds] /\ timestamp \in [Scripts -> 0..MaxTime]

(* What lies under the target's name is never the torn file of a copy nor a   *)
(* system still being built, wherever scripts stop: if it is half, then by a  *)
(* payload that is being, or was only in part, written over what was there.   *)
TargetIsSound ==
    LET image == dir[Target]
    IN  /\ image.state # "torn"
        /\ image.state = "half" => prior[image.v] # Missing

(* Two deployments that were started in one second share the name of their   *)
(* backup.                                                                  *)
SameSecond ==
    \E p, q \in Scripts :
        /\ p # q /\ "new" \notin {pc[p], pc[q]}
        /\ kind[p] = "deploy" /\ kind[q] = "deploy" /\ timestamp[p] = timestamp[q]

(* What any payload was written over, completely or not, can be rolled back   *)
(* to for ever after: a backup has just that content, wherever the image with *)
(* the payload is by now.  Not so when another wrote the target between the   *)
(* backup and the payload, nor after two deployments in one second.          *)
DeploymentCanBeUndone ==
    \A v \in 0..MaxVersion : prior[v] \notin {Missing, Unknown} /\ ~SameSecond =>
        \E t \in 0..MaxTime : SameContent(dir[Backup(t)], prior[v])

(* A target that was there vanishes only between the two moves of a rollback, *)
(* or when it has stopped there: and then the image it moved away and the one *)
(* to move in are both found under their names.                             *)
TargetIsFound ==
    ~Exists(Target) /\ (\E name \in Stamped : Exists(name)) =>
        \E p \in Scripts :
            /\ Exists(Restoring(p)) /\ SameContent(dir[Restoring(p)], copied[p])
            /\ dir[Restoring(p)].state # "torn"
            /\ Exists(Displaced(timestamp[p]))

(* README.md on rollback-vm.sh, and its last message: the displaced image is   *)
(* preserved and remains recoverable under the name that is shown.           *)
DisplacedIsKept ==
    \A p \in Scripts : displaced[p] # "nobody" =>
        dir[Displaced(timestamp[p])].id = displaced[p]
===============================================================================
