------------------------------ MODULE ImageProofs ------------------------------
(***************************************************************************)
(* What the image tools promise, proved for any number of runs.  Of the    *)
(* Windows builder: what a run holds, the hives and the mounted image, is  *)
(* given back or was refused; a hive is only ever unloaded by the run that *)
(* has it loaded; and no run's image is lost or replaced.  Of the shell    *)
(* scripts around one target: wherever they stop, what lies under the      *)
(* target's name is sound, a target that has vanished is found, and what a *)
(* payload was written over is in a backup.                                *)
(***************************************************************************)
EXTENDS WindowsBuilder, TLAPS

(* The places of the Windows builder's code: between the creation of the image *)
(* and its completion, from there to its publication, and all of them.        *)
Working == {"mount", "load SYSTEM", "edit SYSTEM", "unload SYSTEM",
            "load BCD", "edit BCD", "unload BCD", "copy"}
Finished == {"dismount", "publish"}
FinallyPlaces == {"finally BCD", "finally SYSTEM", "finally image", "finally move"}
BuilderPlaces ==
    {"new", "create", "hash", "ended", "dead"} \cup Working \cup Finished \cup FinallyPlaces

ImageType ==
    [id : Scripts \cup {"nobody", "original"}, v : Int,
     state : {"torn", "half", "whole", "missing", "unknown"}]

BuilderTypeOK ==
    /\ pc \in [Scripts -> BuilderPlaces]
    /\ flags \in [Scripts -> SUBSET {"SYSTEM", "BCD", "image"}]
    /\ refused \in [Scripts -> SUBSET {"SYSTEM", "BCD", "image"}]
    /\ loaded \in [Hives -> Scripts \cup {NoOne}]
    /\ mounted \in SUBSET Scripts
    /\ dir \in [Names -> ImageType]
    /\ copied \in [Scripts -> ImageType]
    /\ version \in Int

(* Where finally has been at hive h.                                         *)
PastHive(h) ==
    {"finally image", "finally move", "ended"} \cup (IF h = "BCD" THEN {"finally SYSTEM"} ELSE {})

(* The flag of a hive says whether the run has it loaded, until finally has    *)
(* been there; what is loaded then was refused.                              *)
HiveInv ==
    \A p \in Scripts, h \in Hives :
        /\ loaded[h] = p => h \in flags[p]
        /\ pc[p] \in {Edit(h), Unload(h)} => h \in flags[p]
        /\ h \in flags[p] /\ pc[p] \notin PastHive(h) \cup {"dead"} => loaded[h] = p
        /\ pc[p] \in PastHive(h) /\ loaded[h] = p => h \in refused[p]

(* The same of the mounted image.                                           *)
MountInv ==
    \A p \in Scripts : p \in mounted =>
        /\ "image" \in flags[p]
        /\ pc[p] \in {"finally move", "ended"} => "image" \in refused[p]

(* The image of a run, once it has begun one, is under its partial name for as *)
(* long as the run works on it, and complete when it is to be published.      *)
PartialInv ==
    \A p \in Scripts :
        /\ pc[p] \in {"new", "create"} => copied[p] = Missing
        /\ pc[p] \in Working \cup Finished => dir[Partial(p)].id = p
        /\ pc[p] \in Finished => dir[Partial(p)].state = "whole"

(* The image of a run that has begun one is kept: BuildIsKept, on Windows.     *)
Kept(p) ==
    \E name \in {Partial(p), Failed(p), Target} :
        /\ dir[name].id = p
        /\ name = Target => dir[name].state = "whole"
KeptInv == \A p \in Scripts : copied[p] # Missing => Kept(p)

WindowsInv == BuilderTypeOK /\ HiveInv /\ MountInv /\ PartialInv /\ KeptInv

(* On a host where only this script runs, what lies under the target's name is *)
(* complete, no payload is written over it, and no file has a name with a      *)
(* second in it while the target is missing.                                 *)
QuietInv ==
    /\ \A p \in Scripts : kind[p] = "build"
    /\ \A v \in 0..MaxVersion : prior[v] = Missing
    /\ dir[Target].state \in {"whole", "missing"}
    /\ ~Exists(Target) => \A name \in Stamped : ~Exists(name)

-----------------------------------------------------------------------------
(* The shell scripts.                                                      *)

(* The places of the shell scripts' code: before the copy, after it, and when  *)
(* they have ended.                                                         *)
Early == {"new", "check", "copy"}
Late == {"complete", "verify", "publish", "sum", "attach", "install", "installing",
         "move away", "move in"}
ShellPlaces == Early \cup {"copying"} \cup Late \cup {"done", "failed", "unsummed", "killed"}

FileType == [id : Scripts \cup {"original"}, v : 0..MaxVersion, state : {"torn", "half", "whole"}]

(* The names a rollback moves the target to, and all under which an image of   *)
(* use to anyone is found.                                                   *)
Aways == {Displaced(t) : t \in 0..MaxTime}
Lasting == {Target} \cup Stamped \cup {Restoring(p) : p \in Scripts}

ShellTypeOK ==
    /\ pc \in [Scripts -> ShellPlaces] /\ kind \in [Scripts -> Kinds]
    /\ clock \in 0..MaxTime /\ timestamp \in [Scripts -> 0..MaxTime]
    /\ dir \in [Names -> FileType \cup {Missing}]
    /\ copied \in [Scripts -> FileType \cup {Missing}]
    /\ vm \in {NoFile, Target} \cup Aways
    /\ open \in [Scripts -> {NoFile, Target} \cup Stamped]
    /\ source \in [Scripts -> {NoFile, Target} \cup Stamped]
    /\ version \in 0..MaxVersion
    /\ raced \in [Scripts -> BOOLEAN]
    /\ prior \in [0..MaxVersion -> FileType \cup {Missing, Unknown}]
    /\ displaced \in [Scripts -> Scripts \cup {"original", "nobody"}]

(* What the place of a script says of the kind it is of, and of what it copies.*)
PlaceInv ==
    \A p \in Scripts :
        /\ pc[p] \in {"complete", "publish"} => kind[p] = "build"
        /\ pc[p] \in {"attach", "install", "installing"} => kind[p] = "deploy"
        /\ pc[p] \in {"move away", "move in"} => kind[p] = "rollback"
        /\ pc[p] = "sum" => kind[p] \in {"build", "deploy"}
        /\ pc[p] # "new" /\ kind[p] # "build" => source[p] \in {Target} \cup Stamped
        /\ pc[p] # "new" /\ kind[p] = "deploy" => source[p] = Target
        /\ pc[p] \in Early => copied[p] = Missing
        /\ pc[p] = "copying" => copied[p] # Missing
        /\ copied[p] # Missing => copied[p].id = p

(* Files in use exist, and what is written is the target or what was the       *)
(* target: never a backup.                                                  *)
UseInv ==
    /\ vm # NoFile => Exists(vm)
    /\ \A p \in Scripts :
        /\ open[p] # NoFile => Exists(open[p])
        /\ pc[p] \in {"install", "installing"} => open[p] \in {NoFile, Target} \cup Aways

(* A build's image is under its partial name, whole when it is to be published, *)
(* and is put aside when the build fails.                                   *)
BuildInv ==
    \A p \in Scripts : kind[p] = "build" =>
        /\ pc[p] \in {"copying", "complete", "verify", "publish"} => dir[Partial(p)].id = p
        /\ pc[p] \in {"verify", "publish"} => dir[Partial(p)].state = "whole"
        /\ pc[p] = "failed" /\ copied[p] # Missing => dir[Failed(p)].id = p

(* What a rollback restores is its copy, and it has been verified before the   *)
(* target is touched.                                                       *)
RestoreInv ==
    \A p \in Scripts : kind[p] = "rollback" =>
        /\ pc[p] \in {"verify", "move away", "move in"} => dir[Restoring(p)] = copied[p]
        /\ pc[p] \in {"verify", "move away", "move in"} => copied[p] # Missing
        /\ pc[p] \in {"move away", "move in"} => copied[p].state # "torn"

(* The backup of a deployment is its copy of the target, unless another used   *)
(* the same name.                                                           *)
BackupInv ==
    \A p \in Scripts : kind[p] = "deploy" =>
        /\ pc[p] = "copying" => Exists(Backup(timestamp[p]))
        /\ pc[p] \in Late /\ ~SameSecond => dir[Backup(timestamp[p])] = copied[p]

(* Until another writes the target, it is what the deployment has copied.     *)
RaceInv ==
    \A p \in Scripts :
        /\ kind[p] = "deploy"
        /\ pc[p] \in {"copying", "verify", "sum", "attach", "install"}
        /\ ~raced[p]
        => /\ SameContent(dir[Target], copied[p])
           /\ \A q \in Scripts : ~(pc[q] = "installing" /\ open[q] = Target)
           /\ pc[p] = "install" => open[p] \in {NoFile, Target}

(* A number of a content is given once.                                     *)
VersionInv ==
    /\ \A name \in Names : dir[name].v <= version
    /\ \A p \in Scripts : copied[p].v <= version

(* What is half there has been payload written over something that is known.  *)
HalfInv ==
    /\ \A name \in Lasting : dir[name].state = "half" => prior[dir[name].v] # Missing
    /\ \A p \in Scripts : kind[p] # "build" /\ copied[p].state = "half" =>
            prior[copied[p].v] # Missing

(* And that is kept: in the backup of a deployment that has made it.          *)
PriorInv ==
    \A v \in 0..MaxVersion : prior[v] \notin {Missing, Unknown} /\ ~SameSecond =>
        \E p \in Scripts :
            /\ kind[p] = "deploy" /\ pc[p] \notin Early \cup {"copying"}
            /\ dir[Backup(timestamp[p])] = copied[p]
            /\ SameContent(copied[p], prior[v])

(* The script that left the target's name empty has what belongs there.       *)
FoundInv ==
    ~Exists(Target) /\ (\E name \in Stamped : Exists(name)) =>
        \E p \in Scripts :
            /\ kind[p] = "rollback" /\ pc[p] \in {"move in", "failed", "killed"}
            /\ dir[Restoring(p)] = copied[p] /\ copied[p] # Missing /\ copied[p].state # "torn"
            /\ Exists(Displaced(timestamp[p]))

ShellInv ==
    /\ ShellTypeOK /\ PlaceInv /\ UseInv /\ BuildInv /\ RestoreInv /\ BackupInv /\ RaceInv
    /\ VersionInv /\ HalfInv /\ PriorInv /\ FoundInv
    /\ dir[Target].state # "torn"

-----------------------------------------------------------------------------
(* Both.                                                                    *)

(* The shell scripts hold nothing of the registry.                            *)
LinuxInv == (\A h \in Hives : loaded[h] = NoOne) /\ mounted = {}

(* The inductive invariant. *)
IInv ==
    /\ host \in {"linux", "windows"}
    /\ host = "linux" => LinuxInv /\ ShellInv
    /\ host = "windows" => WindowsInv /\ QuietInv

(* A step of run p changes the registration of its own hives only: the action  *)
(* of HiveOwner.                                                            *)
Owned ==
    \A p \in Scripts : pc'[p] # pc[p] =>
        \A h \in Hives : loaded'[h] # loaded[h] => p \in {loaded[h], loaded'[h]}

-----------------------------------------------------------------------------
(* Nobody is none of the runs.                                              *)
LEMMA NoRun ==
    ASSUME NEW p \in Scripts
    PROVE  p # NoOne /\ p # "nobody" /\ p # "original"
BY BuilderAssumption

(* The files of a run and the target have different names, all of which exist. *)
LEMMA FileNames ==
    ASSUME NEW p \in Scripts
    PROVE  /\ Partial(p) \in Names /\ Failed(p) \in Names /\ Target \in Names
           /\ Partial(p) # Failed(p) /\ Partial(p) # Target /\ Failed(p) # Target
           /\ \A q \in Scripts \ {p} :
                /\ Partial(q) # Partial(p) /\ Failed(q) # Failed(p)
                /\ Partial(q) # Failed(p) /\ Failed(q) # Partial(p)
<1>1. Partial(p) \in Names /\ Failed(p) \in Names /\ Target \in Names
    BY DEF Names
<1>2. Partial(p) # Failed(p)
    BY DEF Partial, Failed
<1>3. Partial(p) # Target /\ Failed(p) # Target
    BY DEF Partial, Failed, Target
<1>4. ASSUME NEW q \in Scripts, q # p
      PROVE  Partial(q) # Partial(p) /\ Failed(q) # Failed(p)
                /\ Partial(q) # Failed(p) /\ Failed(q) # Partial(p)
    BY <1>4 DEF Partial, Failed
<1> QED BY <1>1, <1>2, <1>3, <1>4

(* The two hives.                                                           *)
LEMMA HiveNames ==
    ASSUME NEW h \in Hives
    PROVE  /\ Load(h) \in Working /\ Edit(h) \in Working /\ Unload(h) \in Working
           /\ Finally(h) \in FinallyPlaces /\ Finally(h) \notin PastHive(h)
           /\ h \in {"SYSTEM", "BCD"}
BY DEF Hives, Load, Edit, Unload, Finally, Working, FinallyPlaces, PastHive

(* The places that belong to no hive: before finally has been at any, and after *)
(* it has been at both.                                                     *)
LEMMA EarlyPlaces ==
    ASSUME NEW h \in Hives,
           NEW place \in {"create", "mount", "load SYSTEM", "copy",
                          "dismount", "publish", "hash", "finally BCD"}
    PROVE  /\ place \notin {Edit(h), Unload(h)}
           /\ place \notin PastHive(h)
           /\ place \notin PastHive(h) \cup {"dead"}
<1>1. place \notin {Edit(h), Unload(h)}
    BY DEF Edit, Unload
<1>2. place \notin PastHive(h) /\ place # "dead"
    BY DEF PastHive
<1> QED BY <1>1, <1>2

(* What comes after finally has been at both hives.                           *)
LEMMA LatePlaces ==
    ASSUME NEW h \in Hives, NEW place \in {"finally image", "finally move", "ended"}
    PROVE  place \notin {Edit(h), Unload(h)} /\ place \in PastHive(h)
BY DEF Edit, Unload, PastHive

(* What is refused are things that were held.                                *)
LEMMA Refusal ==
    ASSUME NEW f \in [Scripts -> SUBSET {"SYSTEM", "BCD", "image"}], NEW p \in Scripts, NEW g,
           NEW x \in {"SYSTEM", "BCD", "image"},
           g = f \/ g = [f EXCEPT ![p] = f[p] \cup {x}]
    PROVE  g \in [Scripts -> SUBSET {"SYSTEM", "BCD", "image"}]
<1>1. f[p] \cup {x} \in SUBSET {"SYSTEM", "BCD", "image"}
    OBVIOUS
<1> QED BY <1>1

(* No file is the image of nobody. *)
LEMMA MissingType == Missing \in ImageType /\ Missing.id = "nobody"
BY DEF Missing, Image, ImageType

-----------------------------------------------------------------------------
(* What many steps have in common.                                          *)

(* A step that leaves the files alone moves its run on, or out of its work.    *)
LEMMA FilesStay ==
    ASSUME BuilderTypeOK, PartialInv, KeptInv, NEW p \in Scripts, NEW to,
           pc' = [pc EXCEPT ![p] = to], UNCHANGED <<dir, copied>>,
           to \in {"new", "create"} => copied[p] = Missing,
           to \in Working => pc[p] \in Working \cup Finished,
           to \in Finished => pc[p] \in Finished
    PROVE  PartialInv' /\ KeptInv'
<1>1. pc'[p] = to /\ \A q \in Scripts \ {p} : pc'[q] = pc[q]
    BY DEF BuilderTypeOK
<1>2. PartialInv'
    BY <1>1 DEF PartialInv
<1>3. KeptInv'
    BY DEF KeptInv, Kept
<1> QED BY <1>2, <1>3

(* A step that leaves alone what runs hold.                                  *)
LEMMA HeldStays ==
    ASSUME BuilderTypeOK, HiveInv, MountInv, NEW p \in Scripts, NEW to,
           pc' = [pc EXCEPT ![p] = to], UNCHANGED <<loaded, mounted, flags, refused>>,
           \A h \in Hives :
                /\ to \in {Edit(h), Unload(h)} => h \in flags[p]
                /\ pc[p] \in PastHive(h) \cup {"dead"} => to \in PastHive(h) \cup {"dead"}
                /\ to \in PastHive(h) /\ loaded[h] = p => h \in refused[p],
           to \in {"finally move", "ended"} /\ p \in mounted => "image" \in refused[p]
    PROVE  HiveInv' /\ MountInv' /\ Owned
<1>1. pc'[p] = to /\ \A q \in Scripts \ {p} : pc'[q] = pc[q]
    BY DEF BuilderTypeOK
<1>2. HiveInv'
    <2> SUFFICES ASSUME NEW q \in Scripts, NEW h \in Hives
                 PROVE  /\ loaded[h] = q => h \in flags[q]
                        /\ pc'[q] \in {Edit(h), Unload(h)} => h \in flags[q]
                        /\ h \in flags[q] /\ pc'[q] \notin PastHive(h) \cup {"dead"}
                            => loaded[h] = q
                        /\ pc'[q] \in PastHive(h) /\ loaded[h] = q => h \in refused[q]
        BY DEF HiveInv
    <2>1. CASE q = p
        <3>1. /\ loaded[h] = p => h \in flags[p]
              /\ h \in flags[p] /\ pc[p] \notin PastHive(h) \cup {"dead"} => loaded[h] = p
            BY DEF HiveInv
        <3>2. /\ to \in {Edit(h), Unload(h)} => h \in flags[p]
              /\ pc[p] \in PastHive(h) \cup {"dead"} => to \in PastHive(h) \cup {"dead"}
              /\ to \in PastHive(h) /\ loaded[h] = p => h \in refused[p]
            OBVIOUS
        <3> QED BY <1>1, <2>1, <3>1, <3>2
    <2>2. CASE q # p
        BY <1>1, <2>2 DEF HiveInv
    <2> QED BY <2>1, <2>2
<1>3. MountInv'
    BY <1>1 DEF MountInv
<1>4. Owned
    BY DEF Owned
<1> QED BY <1>2, <1>3, <1>4

(* So does one between places that belong to no hive, before finally.         *)
LEMMA EarlyStep ==
    ASSUME BuilderTypeOK, HiveInv, MountInv, NEW p \in Scripts,
           NEW to \in {"create", "mount", "load SYSTEM", "copy",
                       "dismount", "publish", "hash", "finally BCD"},
           pc[p] \in {"create", "mount", "load SYSTEM", "copy",
                     "dismount", "publish", "hash", "finally BCD"},
           pc' = [pc EXCEPT ![p] = to], UNCHANGED <<loaded, mounted, flags, refused>>
    PROVE  HiveInv' /\ MountInv' /\ Owned
<1>1. ASSUME NEW h \in Hives
      PROVE  /\ to \in {Edit(h), Unload(h)} => h \in flags[p]
             /\ pc[p] \in PastHive(h) \cup {"dead"} => to \in PastHive(h) \cup {"dead"}
             /\ to \in PastHive(h) /\ loaded[h] = p => h \in refused[p]
    BY EarlyPlaces
<1>2. to \notin {"finally move", "ended"}
    OBVIOUS
<1> QED BY <1>1, <1>2, HeldStays

-----------------------------------------------------------------------------
(* The steps of a run.                                                      *)

(* A command fails.                                                         *)
LEMMA CommandFailsStep ==
    ASSUME WindowsInv, NEW p \in Scripts,
           NEW place \in {"create", "mount", "copy", "dismount", "publish", "hash"}
                \cup {"load SYSTEM", "unload SYSTEM", "load BCD", "unload BCD"},
           CommandFails(p, place)
    PROVE  WindowsInv' /\ Owned
<1>0. BuilderTypeOK /\ HiveInv /\ MountInv /\ PartialInv /\ KeptInv
    BY DEF WindowsInv
<1>1. /\ pc[p] = place /\ pc' = [pc EXCEPT ![p] = "finally BCD"]
      /\ UNCHANGED <<loaded, mounted, flags, refused, dir, copied, version>>
    BY DEF CommandFails, Goto, Steady, FilesUnchanged, held, Throw
<1>2. BuilderTypeOK'
    BY <1>0, <1>1 DEF BuilderTypeOK, BuilderPlaces, Working, Finished, FinallyPlaces
<1>3. HiveInv' /\ MountInv' /\ Owned
    BY <1>0, <1>1, HeldStays DEF Hives, Edit, Unload, PastHive
<1>4. PartialInv' /\ KeptInv'
    BY <1>0, <1>1, FilesStay DEF PartialInv, BuilderPlaces, Working, Finished,
       FinallyPlaces
<1> QED BY <1>2, <1>3, <1>4 DEF WindowsInv

(* Test-Path. *)
LEMMA CheckOutputStep ==
    ASSUME WindowsInv, NEW p \in Scripts, CheckOutput(p)
    PROVE  WindowsInv' /\ Owned
<1>0. BuilderTypeOK /\ HiveInv /\ MountInv /\ PartialInv /\ KeptInv
    BY DEF WindowsInv
<1>1. /\ pc[p] = "new" /\ pc' = [pc EXCEPT ![p] = "create"]
      /\ UNCHANGED <<loaded, mounted, flags, refused, dir, copied, version>>
    BY DEF CheckOutput, Goto, Steady, FilesUnchanged, held, Throw
<1>2. BuilderTypeOK'
    BY <1>0, <1>1 DEF BuilderTypeOK, BuilderPlaces, Working, Finished, FinallyPlaces
<1>3. HiveInv' /\ MountInv' /\ Owned
    BY <1>0, <1>1, HeldStays DEF Hives, Edit, Unload, PastHive
<1>4. PartialInv' /\ KeptInv'
    BY <1>0, <1>1, FilesStay DEF PartialInv, BuilderPlaces, Working, Finished,
       FinallyPlaces
<1> QED BY <1>2, <1>3, <1>4 DEF WindowsInv

(* A death changes nothing but that nothing more is done.                     *)
LEMMA DieStep ==
    ASSUME WindowsInv, NEW p \in Scripts, Die(p)
    PROVE  WindowsInv' /\ Owned
<1>0. BuilderTypeOK /\ HiveInv /\ MountInv /\ PartialInv /\ KeptInv
    BY DEF WindowsInv
<1>1. /\ pc[p] \notin {"new", "ended", "dead"} /\ pc' = [pc EXCEPT ![p] = "dead"]
      /\ UNCHANGED <<loaded, mounted, flags, refused, dir, copied, version>>
    BY DEF Die, Goto, Steady, FilesUnchanged, held, Throw
<1>2. BuilderTypeOK'
    BY <1>0, <1>1 DEF BuilderTypeOK, BuilderPlaces, Working, Finished, FinallyPlaces
<1>3. HiveInv' /\ MountInv' /\ Owned
    BY <1>0, <1>1, HeldStays DEF Hives, Edit, Unload, PastHive
<1>4. PartialInv' /\ KeptInv'
    BY <1>0, <1>1, FilesStay DEF PartialInv, BuilderPlaces, Working, Finished,
       FinallyPlaces
<1> QED BY <1>2, <1>3, <1>4 DEF WindowsInv

(* A hive is edited. *)
LEMMA EditStep ==
    ASSUME WindowsInv, NEW p \in Scripts, NEW h \in Hives, EditHive(p, h)
    PROVE  WindowsInv' /\ Owned
<1>0. BuilderTypeOK /\ HiveInv /\ MountInv /\ PartialInv /\ KeptInv
    BY DEF WindowsInv
<1>1. /\ pc[p] = Edit(h) /\ pc' = [pc EXCEPT ![p] = Unload(h)]
      /\ UNCHANGED <<loaded, mounted, flags, refused, dir, copied, version>>
    BY DEF EditHive, Goto, Steady, FilesUnchanged, held, Throw
<1>2. h = "SYSTEM" \/ h = "BCD"
    BY DEF Hives
<1>3. BuilderTypeOK'
    BY <1>0, <1>1, HiveNames DEF BuilderTypeOK, BuilderPlaces
<1>4. HiveInv' /\ MountInv' /\ Owned
    <2>1. \A g \in Hives : Unload(h) \in {Edit(g), Unload(g)} => g = h
        BY <1>2 DEF Hives, Edit, Unload
    <2>2. \A g \in Hives : pc[p] \notin PastHive(g) \cup {"dead"} /\ Unload(h) \notin PastHive(g)
        BY <1>1, <1>2 DEF Hives, Edit, Unload, PastHive
    <2>3. h \in flags[p]
        BY <1>0, <1>1 DEF HiveInv
    <2>4. Unload(h) \notin {"finally move", "ended"}
        BY <1>2 DEF Unload
    <2>5. \A g \in Hives :
            /\ Unload(h) \in {Edit(g), Unload(g)} => g \in flags[p]
            /\ pc[p] \in PastHive(g) \cup {"dead"} => Unload(h) \in PastHive(g) \cup {"dead"}
            /\ Unload(h) \in PastHive(g) /\ loaded[g] = p => g \in refused[p]
        BY <2>1, <2>2, <2>3
    <2> QED BY <1>0, <1>1, <2>4, <2>5, HeldStays
<1>5. PartialInv' /\ KeptInv'
    <2>1. Unload(h) \in Working /\ pc[p] \in Working
        BY <1>1, HiveNames
    <2>2. Unload(h) \notin {"new", "create"} /\ Unload(h) \notin Finished
        BY <1>2 DEF Unload, Finished
    <2> QED BY <1>0, <1>1, <2>1, <2>2, FilesStay
<1> QED BY <1>3, <1>4, <1>5 DEF WindowsInv

(* A hive that nobody has loaded is loaded, and the flag set. *)
LEMMA LoadStep ==
    ASSUME WindowsInv, NEW p \in Scripts, NEW h \in Hives, LoadHive(p, h)
    PROVE  WindowsInv' /\ Owned
<1>0. BuilderTypeOK /\ HiveInv /\ MountInv /\ PartialInv /\ KeptInv
    BY DEF WindowsInv
<1>1. /\ pc[p] = Load(h) /\ pc' = [pc EXCEPT ![p] = Edit(h)]
      /\ loaded[h] = NoOne /\ loaded' = [loaded EXCEPT ![h] = p]
      /\ flags' = [flags EXCEPT ![p] = flags[p] \cup {h}]
      /\ UNCHANGED <<mounted, refused, dir, copied, version>>
    BY DEF LoadHive, Set, Goto, Steady, FilesUnchanged, held, Throw
<1>2. h = "SYSTEM" \/ h = "BCD"
    BY DEF Hives
<1>3. BuilderTypeOK'
    BY <1>0, <1>1, <1>2, HiveNames DEF BuilderTypeOK, BuilderPlaces
<1>4. pc'[p] = Edit(h) /\ \A q \in Scripts \ {p} : pc'[q] = pc[q] /\ flags'[q] = flags[q]
    BY <1>0, <1>1 DEF BuilderTypeOK
<1>5. flags'[p] = flags[p] \cup {h} /\ loaded'[h] = p
        /\ \A g \in Hives \ {h} : loaded'[g] = loaded[g]
    BY <1>0, <1>1 DEF BuilderTypeOK
<1>6. HiveInv'
    <2> SUFFICES ASSUME NEW q \in Scripts, NEW g \in Hives
                 PROVE  /\ loaded'[g] = q => g \in flags'[q]
                        /\ pc'[q] \in {Edit(g), Unload(g)} => g \in flags'[q]
                        /\ g \in flags'[q] /\ pc'[q] \notin PastHive(g) \cup {"dead"}
                            => loaded'[g] = q
                        /\ pc'[q] \in PastHive(g) /\ loaded'[g] = q => g \in refused'[q]
        BY DEF HiveInv
    <2>1. /\ loaded[g] = q => g \in flags[q]
          /\ pc[q] \in {Edit(g), Unload(g)} => g \in flags[q]
          /\ g \in flags[q] /\ pc[q] \notin PastHive(g) \cup {"dead"} => loaded[g] = q
          /\ pc[q] \in PastHive(g) /\ loaded[g] = q => g \in refused[q]
        BY <1>0 DEF HiveInv
    <2>2. q # NoOne /\ p # NoOne
        BY NoRun
    <2>3. Edit(h) \notin PastHive(g) /\ pc[p] \notin PastHive(g) \cup {"dead"}
        BY <1>1, <1>2 DEF Edit, Load, PastHive
    <2>4. Edit(h) \in {Edit(g), Unload(g)} => g = h
        BY <1>2 DEF Hives, Edit, Unload
    <2>5. CASE q = p /\ g = h
        BY <1>1, <1>4, <1>5, <2>1, <2>2, <2>3, <2>5
    <2>6. CASE q = p /\ g # h
        BY <1>1, <1>4, <1>5, <2>1, <2>2, <2>3, <2>4, <2>6
    <2>7. CASE q # p /\ g = h
        BY <1>1, <1>4, <1>5, <2>1, <2>2, <2>7
    <2>8. CASE q # p /\ g # h
        BY <1>1, <1>4, <1>5, <2>1, <2>2, <2>8
    <2> QED BY <2>5, <2>6, <2>7, <2>8
<1>7. MountInv'
    <2>1. Edit(h) \notin {"finally move", "ended"}
        BY DEF Edit
    <2> QED BY <1>0, <1>1, <1>4, <1>5, <2>1 DEF MountInv
<1>8. Owned
    BY <1>1, <1>4, <1>5 DEF Owned
<1>9. PartialInv' /\ KeptInv'
    <2>1. Edit(h) \in Working /\ pc[p] \in Working
        BY <1>1, HiveNames
    <2>2. Edit(h) \notin {"new", "create"} /\ Edit(h) \notin Finished
        BY <1>2 DEF Edit, Finished
    <2> QED BY <1>0, <1>1, <2>1, <2>2, FilesStay
<1> QED BY <1>3, <1>6, <1>7, <1>8, <1>9 DEF WindowsInv

(* The inner finally block unloads the hive, which is that of its run.          *)
LEMMA UnloadStep ==
    ASSUME WindowsInv, NEW p \in Scripts, NEW h \in Hives, UnloadHive(p, h)
    PROVE  WindowsInv' /\ Owned
<1>0. BuilderTypeOK /\ HiveInv /\ MountInv /\ PartialInv /\ KeptInv
    BY DEF WindowsInv
<1> DEFINE next == IF thrown[p] THEN "finally BCD" ELSE IF h = "SYSTEM" THEN "load BCD" ELSE "copy"
<1>1. /\ pc[p] = Unload(h) /\ pc' = [pc EXCEPT ![p] = next]
      /\ loaded' = [loaded EXCEPT ![h] = NoOne]
      /\ flags' = [flags EXCEPT ![p] = flags[p] \ {h}]
      /\ UNCHANGED <<mounted, refused, dir, copied, version>>
    BY DEF UnloadHive, Clear, Goto, Steady, FilesUnchanged, held, Throw
<1>2. h = "SYSTEM" \/ h = "BCD"
    BY DEF Hives
<1>3. next \in {"finally BCD", "load BCD", "copy"}
    OBVIOUS
<1> HIDE DEF next
<1>4. BuilderTypeOK'
    BY <1>0, <1>1, <1>3 DEF BuilderTypeOK, BuilderPlaces, Working, Finished,
       FinallyPlaces
<1>5. pc'[p] = next /\ \A q \in Scripts \ {p} : pc'[q] = pc[q] /\ flags'[q] = flags[q]
    BY <1>0, <1>1 DEF BuilderTypeOK
<1>6. flags'[p] = flags[p] \ {h} /\ loaded'[h] = NoOne
        /\ \A g \in Hives \ {h} : loaded'[g] = loaded[g]
    BY <1>0, <1>1 DEF BuilderTypeOK
<1>7. pc[p] \notin PastHive(h) \cup {"dead"} /\ loaded[h] = p
    <2>1. pc[p] \notin PastHive(h) \cup {"dead"}
        BY <1>1, <1>2 DEF Unload, PastHive
    <2> QED BY <1>0, <1>1, <2>1 DEF HiveInv
<1>8. HiveInv'
    <2> SUFFICES ASSUME NEW q \in Scripts, NEW g \in Hives
                 PROVE  /\ loaded'[g] = q => g \in flags'[q]
                        /\ pc'[q] \in {Edit(g), Unload(g)} => g \in flags'[q]
                        /\ g \in flags'[q] /\ pc'[q] \notin PastHive(g) \cup {"dead"}
                            => loaded'[g] = q
                        /\ pc'[q] \in PastHive(g) /\ loaded'[g] = q => g \in refused'[q]
        BY DEF HiveInv
    <2>1. /\ loaded[g] = q => g \in flags[q]
          /\ pc[q] \in {Edit(g), Unload(g)} => g \in flags[q]
          /\ g \in flags[q] /\ pc[q] \notin PastHive(g) \cup {"dead"} => loaded[g] = q
          /\ pc[q] \in PastHive(g) /\ loaded[g] = q => g \in refused[q]
        BY <1>0 DEF HiveInv
    <2>2. q # NoOne /\ p # NoOne
        BY NoRun
    <2>3. next \notin PastHive(g) /\ next \notin {Edit(g), Unload(g)}
        BY <1>3 DEF Edit, Unload, PastHive
    <2>4. pc[p] \notin PastHive(g) \cup {"dead"}
        BY <1>1, <1>2 DEF Unload, PastHive
    <2>5. CASE q = p /\ g = h
        BY <1>1, <1>5, <1>6, <2>2, <2>3, <2>5
    <2>6. CASE q = p /\ g # h
        BY <1>1, <1>5, <1>6, <2>1, <2>2, <2>3, <2>4, <2>6
    <2>7. CASE q # p /\ g = h
        BY <1>1, <1>5, <1>6, <1>7, <2>1, <2>2, <2>7
    <2>8. CASE q # p /\ g # h
        BY <1>1, <1>5, <1>6, <2>1, <2>2, <2>8
    <2> QED BY <2>5, <2>6, <2>7, <2>8
<1>9. MountInv'
    BY <1>0, <1>1, <1>2, <1>3, <1>5, <1>6 DEF MountInv
<1>10. Owned
    BY <1>1, <1>5, <1>6, <1>7 DEF Owned
<1>11. PartialInv' /\ KeptInv'
    <2>1. pc[p] \in Working
        BY <1>1, HiveNames
    <2>2. next \notin {"new", "create"} /\ next \notin Finished
        BY <1>3 DEF Finished
    <2> QED BY <1>0, <1>1, <2>1, <2>2, FilesStay
<1> QED BY <1>4, <1>8, <1>9, <1>10, <1>11 DEF WindowsInv

(* The outer finally block tries to unload a hive whose flag is set.            *)
LEMMA FinallyUnloadStep ==
    ASSUME WindowsInv, NEW p \in Scripts, NEW h \in Hives, FinallyUnload(p, h)
    PROVE  WindowsInv' /\ Owned
<1>0. BuilderTypeOK /\ HiveInv /\ MountInv /\ PartialInv /\ KeptInv
    BY DEF WindowsInv
<1> DEFINE next == IF h = "BCD" THEN "finally SYSTEM" ELSE "finally image"
<1>1. /\ pc[p] = Finally(h) /\ pc' = [pc EXCEPT ![p] = next]
      /\ \/ h \notin flags[p] /\ UNCHANGED <<loaded, refused>>
         \/ h \in flags[p] /\ loaded' = [loaded EXCEPT ![h] = NoOne] /\ UNCHANGED refused
         \/ /\ h \in flags[p] /\ UNCHANGED loaded
            /\ refused' = [refused EXCEPT ![p] = refused[p] \cup {h}]
      /\ UNCHANGED <<mounted, flags, dir, copied, version>>
    BY DEF FinallyUnload, Goto, Steady, FilesUnchanged, held, Throw
<1>2. h = "SYSTEM" \/ h = "BCD"
    BY DEF Hives
<1>3. /\ h = "BCD" => next = "finally SYSTEM"
      /\ h = "SYSTEM" => next = "finally image"
    OBVIOUS
<1> HIDE DEF next
<1>4. BuilderTypeOK'
    <2>1. pc' \in [Scripts -> BuilderPlaces]
        BY <1>0, <1>1, <1>2, <1>3 DEF BuilderTypeOK, BuilderPlaces, Working, Finished,
           FinallyPlaces
    <2>2. loaded' \in [Hives -> Scripts \cup {NoOne}]
        BY <1>0, <1>1 DEF BuilderTypeOK
    <2>3. refused' \in [Scripts -> SUBSET {"SYSTEM", "BCD", "image"}]
        BY <1>0, <1>1, <1>2, Refusal DEF BuilderTypeOK
    <2> QED BY <1>0, <1>1, <2>1, <2>2, <2>3 DEF BuilderTypeOK
<1>5. pc'[p] = next /\ \A q \in Scripts \ {p} : pc'[q] = pc[q] /\ refused'[q] = refused[q]
    BY <1>0, <1>1 DEF BuilderTypeOK
<1>6. pc[p] \notin PastHive(h) \cup {"dead"} /\ (h \in flags[p] => loaded[h] = p)
    <2>1. pc[p] \notin PastHive(h) \cup {"dead"}
        BY <1>1, <1>2 DEF Finally, PastHive
    <2> QED BY <1>0, <2>1 DEF HiveInv
<1>7. /\ loaded'[h] = p => h \in refused'[p]
      /\ loaded'[h] = loaded[h] \/ (loaded[h] = p /\ loaded'[h] = NoOne)
      /\ \A g \in Hives \ {h} : loaded'[g] = loaded[g]
      /\ refused[p] \subseteq refused'[p]
    <2>1. loaded[h] = p => h \in flags[p]
        BY <1>0 DEF HiveInv
    <2>2. p # NoOne
        BY NoRun
    <2>3. CASE h \notin flags[p] /\ UNCHANGED <<loaded, refused>>
        <3>1. loaded' = loaded /\ refused' = refused /\ loaded[h] # p
            BY <2>1, <2>3
        <3> QED BY <3>1
    <2>4. CASE h \in flags[p] /\ loaded' = [loaded EXCEPT ![h] = NoOne] /\ UNCHANGED refused
        BY <1>0, <1>6, <2>2, <2>4 DEF BuilderTypeOK
    <2>5. CASE /\ h \in flags[p] /\ UNCHANGED loaded
               /\ refused' = [refused EXCEPT ![p] = refused[p] \cup {h}]
        <3>1. loaded' = loaded /\ refused'[p] = refused[p] \cup {h}
            BY <1>0, <2>5 DEF BuilderTypeOK
        <3> QED BY <3>1
    <2> QED BY <1>1, <2>3, <2>4, <2>5
<1>8. HiveInv'
    <2> SUFFICES ASSUME NEW q \in Scripts, NEW g \in Hives
                 PROVE  /\ loaded'[g] = q => g \in flags[q]
                        /\ pc'[q] \in {Edit(g), Unload(g)} => g \in flags[q]
                        /\ g \in flags[q] /\ pc'[q] \notin PastHive(g) \cup {"dead"}
                            => loaded'[g] = q
                        /\ pc'[q] \in PastHive(g) /\ loaded'[g] = q => g \in refused'[q]
        BY <1>1 DEF HiveInv
    <2>1. /\ loaded[g] = q => g \in flags[q]
          /\ pc[q] \in {Edit(g), Unload(g)} => g \in flags[q]
          /\ g \in flags[q] /\ pc[q] \notin PastHive(g) \cup {"dead"} => loaded[g] = q
          /\ pc[q] \in PastHive(g) /\ loaded[g] = q => g \in refused[q]
        BY <1>0 DEF HiveInv
    <2>2. q # NoOne /\ p # NoOne
        BY NoRun
    <2>3. next \notin {Edit(g), Unload(g)} /\ next \in PastHive(h)
        BY <1>2, <1>3 DEF Edit, Unload, PastHive
    <2>4. g # h => (next \in PastHive(g) <=> pc[p] \in PastHive(g)) /\ pc[p] # "dead"
        BY <1>1, <1>2, <1>3 DEF Hives, Finally, PastHive
    <2>5. CASE q = p /\ g = h
        BY <1>5, <1>7, <2>1, <2>2, <2>3, <2>5
    <2>6. CASE q = p /\ g # h
        BY <1>5, <1>7, <2>1, <2>2, <2>3, <2>4, <2>6
    <2>7. CASE q # p /\ g = h
        BY <1>5, <1>7, <2>1, <2>2, <2>7
    <2>8. CASE q # p /\ g # h
        BY <1>5, <1>7, <2>1, <2>8
    <2> QED BY <2>5, <2>6, <2>7, <2>8
<1>9. MountInv'
    BY <1>0, <1>1, <1>2, <1>3, <1>5, <1>7 DEF MountInv
<1>10. Owned
    BY <1>1, <1>5, <1>7 DEF Owned
<1>11. PartialInv' /\ KeptInv'
    <2>1. next \notin {"new", "create"} /\ next \notin Finished /\ next \notin Working
        BY <1>2, <1>3 DEF Finished, Working
    <2> QED BY <1>0, <1>1, <2>1, FilesStay
<1> QED BY <1>4, <1>8, <1>9, <1>10, <1>11 DEF WindowsInv

(* The image is mounted, and the flag set. *)
LEMMA MountStep ==
    ASSUME WindowsInv, NEW p \in Scripts, MountImage(p)
    PROVE  WindowsInv' /\ Owned
<1>0. BuilderTypeOK /\ HiveInv /\ MountInv /\ PartialInv /\ KeptInv
    BY DEF WindowsInv
<1>1. /\ pc[p] = "mount" /\ pc' = [pc EXCEPT ![p] = "load SYSTEM"]
      /\ mounted' = mounted \cup {p}
      /\ flags' = [flags EXCEPT ![p] = flags[p] \cup {"image"}]
      /\ UNCHANGED <<loaded, refused, dir, copied, version>>
    BY DEF MountImage, Set, Goto, Steady, FilesUnchanged, held, Throw
<1>2. BuilderTypeOK'
    BY <1>0, <1>1 DEF BuilderTypeOK, BuilderPlaces, Working, Finished, FinallyPlaces
<1>3. pc'[p] = "load SYSTEM" /\ flags'[p] = flags[p] \cup {"image"}
        /\ \A q \in Scripts \ {p} : pc'[q] = pc[q] /\ flags'[q] = flags[q]
    BY <1>0, <1>1 DEF BuilderTypeOK
<1>4. HiveInv'
    <2>1. \A q \in Scripts, h \in Hives : h \in flags'[q] <=> h \in flags[q]
        BY <1>3 DEF Hives
    <2>2. \A h \in Hives : /\ pc'[p] \notin {Edit(h), Unload(h)} /\ pc'[p] \notin PastHive(h)
                           /\ pc[p] \notin PastHive(h) \cup {"dead"}
        BY <1>1, <1>3, EarlyPlaces
    <2> QED BY <1>0, <1>1, <1>3, <2>1, <2>2 DEF HiveInv
<1>5. MountInv'
    BY <1>0, <1>1, <1>3 DEF MountInv
<1>6. Owned
    BY <1>1 DEF Owned
<1>7. PartialInv' /\ KeptInv'
    BY <1>0, <1>1, FilesStay DEF BuilderPlaces, Working, Finished, FinallyPlaces
<1> QED BY <1>2, <1>4, <1>5, <1>6, <1>7 DEF WindowsInv

(* The image is dismounted, and the flag cleared. *)
LEMMA DismountStep ==
    ASSUME WindowsInv, NEW p \in Scripts, Dismount(p)
    PROVE  WindowsInv' /\ Owned
<1>0. BuilderTypeOK /\ HiveInv /\ MountInv /\ PartialInv /\ KeptInv
    BY DEF WindowsInv
<1>1. /\ pc[p] = "dismount" /\ pc' = [pc EXCEPT ![p] = "publish"]
      /\ mounted' = mounted \ {p}
      /\ flags' = [flags EXCEPT ![p] = flags[p] \ {"image"}]
      /\ UNCHANGED <<loaded, refused, dir, copied, version>>
    BY DEF Dismount, Clear, Goto, Steady, FilesUnchanged, held, Throw
<1>2. BuilderTypeOK'
    BY <1>0, <1>1 DEF BuilderTypeOK, BuilderPlaces, Working, Finished, FinallyPlaces
<1>3. pc'[p] = "publish" /\ flags'[p] = flags[p] \ {"image"}
        /\ \A q \in Scripts \ {p} : pc'[q] = pc[q] /\ flags'[q] = flags[q]
    BY <1>0, <1>1 DEF BuilderTypeOK
<1>4. HiveInv'
    <2>1. \A q \in Scripts, h \in Hives : h \in flags'[q] <=> h \in flags[q]
        BY <1>3 DEF Hives
    <2>2. \A h \in Hives : /\ pc'[p] \notin {Edit(h), Unload(h)} /\ pc'[p] \notin PastHive(h)
                           /\ pc[p] \notin PastHive(h) \cup {"dead"}
        BY <1>1, <1>3, EarlyPlaces
    <2> QED BY <1>0, <1>1, <1>3, <2>1, <2>2 DEF HiveInv
<1>5. MountInv'
    BY <1>0, <1>1, <1>3 DEF MountInv
<1>6. Owned
    BY <1>1 DEF Owned
<1>7. PartialInv' /\ KeptInv'
    BY <1>0, <1>1, FilesStay DEF BuilderPlaces, Working, Finished, FinallyPlaces
<1> QED BY <1>2, <1>4, <1>5, <1>6, <1>7 DEF WindowsInv

(* The finally block tries to dismount an image whose flag is set. *)
LEMMA FinallyDismountStep ==
    ASSUME WindowsInv, NEW p \in Scripts, FinallyDismount(p)
    PROVE  WindowsInv' /\ Owned
<1>0. BuilderTypeOK /\ HiveInv /\ MountInv /\ PartialInv /\ KeptInv
    BY DEF WindowsInv
<1>1. /\ pc[p] = "finally image" /\ pc' = [pc EXCEPT ![p] = "finally move"]
      /\ \/ "image" \notin flags[p] /\ UNCHANGED <<mounted, refused>>
         \/ mounted' = mounted \ {p} /\ UNCHANGED refused
         \/ refused' = [refused EXCEPT ![p] = refused[p] \cup {"image"}] /\ UNCHANGED mounted
      /\ UNCHANGED <<loaded, flags, dir, copied, version>>
    BY DEF FinallyDismount, Goto, Steady, FilesUnchanged, held, Throw
<1>2. BuilderTypeOK'
    <2>1. pc' \in [Scripts -> BuilderPlaces]
        BY <1>0, <1>1 DEF BuilderTypeOK, BuilderPlaces, Working, Finished, FinallyPlaces
    <2>2. mounted' \in SUBSET Scripts
        BY <1>0, <1>1 DEF BuilderTypeOK
    <2>3. refused' \in [Scripts -> SUBSET {"SYSTEM", "BCD", "image"}]
        BY <1>0, <1>1, Refusal DEF BuilderTypeOK
    <2> QED BY <1>0, <1>1, <2>1, <2>2, <2>3 DEF BuilderTypeOK
<1>3. pc'[p] = "finally move"
        /\ \A q \in Scripts \ {p} : pc'[q] = pc[q] /\ refused'[q] = refused[q]
    BY <1>0, <1>1 DEF BuilderTypeOK
<1>4. refused[p] \subseteq refused'[p]
    BY <1>0, <1>1 DEF BuilderTypeOK
<1>5. HiveInv'
    <2>1. \A h \in Hives : /\ pc'[p] \notin {Edit(h), Unload(h)}
                           /\ pc'[p] \in PastHive(h) /\ pc[p] \in PastHive(h)
        BY <1>1, <1>3, LatePlaces
    <2> QED BY <1>0, <1>1, <1>3, <1>4, <2>1 DEF HiveInv
<1>6. MountInv'
    <2>1. p \in mounted' => "image" \in refused'[p]
        BY <1>0, <1>1 DEF MountInv, BuilderTypeOK
    <2>2. mounted' \subseteq mounted
        BY <1>1
    <2> QED BY <1>0, <1>1, <1>3, <2>1, <2>2 DEF MountInv
<1>7. Owned
    BY <1>1 DEF Owned
<1>8. PartialInv' /\ KeptInv'
    BY <1>0, <1>1, FilesStay DEF BuilderPlaces, Working, Finished, FinallyPlaces
<1> QED BY <1>2, <1>5, <1>6, <1>7, <1>8 DEF WindowsInv

(* diskpart makes an image, and may fail after that.                           *)
LEMMA CreateStep ==
    ASSUME WindowsInv, NEW p \in Scripts, CreateDisk(p)
    PROVE  WindowsInv' /\ Owned
<1>0. BuilderTypeOK /\ HiveInv /\ MountInv /\ PartialInv /\ KeptInv
    BY DEF WindowsInv
<1> DEFINE image == Image(p, version + 1, "half")
<1>1. /\ pc[p] = "create"
      /\ pc' = [pc EXCEPT ![p] = "mount"] \/ pc' = [pc EXCEPT ![p] = "finally BCD"]
      /\ version' = version + 1
      /\ dir' = [dir EXCEPT ![Partial(p)] = image]
      /\ copied' = [copied EXCEPT ![p] = image]
      /\ UNCHANGED <<loaded, mounted, flags, refused>>
    BY DEF CreateDisk, NewContent, Goto, Steady, FilesUnchanged, held, Throw
<1>2. image \in ImageType /\ image.id = p
    BY <1>0 DEF Image, ImageType, BuilderTypeOK
<1> HIDE DEF image
<1>3. BuilderTypeOK'
    <2>1. pc' \in [Scripts -> BuilderPlaces]
        BY <1>0, <1>1 DEF BuilderTypeOK, BuilderPlaces, Working, Finished, FinallyPlaces
    <2>2. dir' \in [Names -> ImageType] /\ copied' \in [Scripts -> ImageType]
        BY <1>0, <1>1, <1>2 DEF BuilderTypeOK
    <2>3. version' \in Int
        <3>1. version \in Int /\ version' = version + 1
            BY <1>0, <1>1 DEF BuilderTypeOK
        <3> QED BY <3>1
    <2> QED BY <1>0, <1>1, <2>1, <2>2, <2>3 DEF BuilderTypeOK
<1>4. HiveInv' /\ MountInv' /\ Owned
    <2>1. PICK to \in {"mount", "finally BCD"} : pc' = [pc EXCEPT ![p] = to]
        BY <1>1
    <2> QED BY <1>0, <1>1, <2>1, EarlyStep
<1>5. /\ pc'[p] \in {"mount", "finally BCD"} /\ \A q \in Scripts \ {p} : pc'[q] = pc[q]
      /\ copied'[p] = image /\ \A q \in Scripts \ {p} : copied'[q] = copied[q]
    BY <1>0, <1>1 DEF BuilderTypeOK
<1>6. dir'[Partial(p)] = image
        /\ \A name \in Names \ {Partial(p)} : dir'[name] = dir[name]
    BY <1>0, <1>1, FileNames DEF BuilderTypeOK
<1>7. PartialInv'
    <2> SUFFICES ASSUME NEW q \in Scripts
                 PROVE  /\ pc'[q] \in {"new", "create"} => copied'[q] = Missing
                        /\ pc'[q] \in Working \cup Finished => dir'[Partial(q)].id = q
                        /\ pc'[q] \in Finished => dir'[Partial(q)].state = "whole"
        BY DEF PartialInv
    <2>1. CASE q = p
        BY <1>0, <1>1, <1>2, <1>5, <1>6, <2>1 DEF BuilderPlaces, Working, Finished,
           FinallyPlaces
    <2>2. CASE q # p
        <3>1. dir'[Partial(q)] = dir[Partial(q)]
            BY <1>6, <2>2, FileNames
        <3> QED BY <1>0, <1>1, <1>5, <2>2, <3>1 DEF PartialInv
    <2> QED BY <2>1, <2>2
<1>8. KeptInv'
    <2> SUFFICES ASSUME NEW q \in Scripts, copied'[q] # Missing PROVE Kept(q)'
        BY DEF KeptInv
    <2>1. CASE q = p
        BY <1>2, <1>6, <2>1, FileNames DEF Kept
    <2>2. CASE q # p
        <3>1. Kept(q)
            BY <1>0, <1>5, <2>2 DEF KeptInv
        <3>2. dir'[Partial(q)] = dir[Partial(q)] /\ dir'[Failed(q)] = dir[Failed(q)]
                /\ dir'[Target] = dir[Target]
            BY <1>6, <2>2, FileNames
        <3> QED BY <3>1, <3>2 DEF Kept
    <2> QED BY <2>1, <2>2
<1> QED BY <1>3, <1>4, <1>7, <1>8 DEF WindowsInv

(* What belongs on it is copied into the image, which is complete then.         *)
LEMMA CopyInStep ==
    ASSUME WindowsInv, NEW p \in Scripts, CopyIn(p)
    PROVE  WindowsInv' /\ Owned
<1>0. BuilderTypeOK /\ HiveInv /\ MountInv /\ PartialInv /\ KeptInv
    BY DEF WindowsInv
<1> DEFINE image == [dir[Partial(p)] EXCEPT !.state = "whole"]
<1>1. /\ pc[p] = "copy" /\ pc' = [pc EXCEPT ![p] = "dismount"]
      /\ dir' = [dir EXCEPT ![Partial(p)] = image]
      /\ UNCHANGED <<version, copied, loaded, mounted, flags, refused>>
    BY DEF CopyIn, Goto, Steady, FilesUnchanged, held, Throw
<1>2. image \in ImageType /\ image.id = p /\ image.state = "whole"
    <2>1. dir[Partial(p)] \in ImageType
        BY <1>0, FileNames DEF BuilderTypeOK
    <2>2. dir[Partial(p)].id = p
        BY <1>0, <1>1 DEF PartialInv, BuilderPlaces, Working, Finished, FinallyPlaces
    <2> QED BY <2>1, <2>2 DEF ImageType
<1> HIDE DEF image
<1>3. BuilderTypeOK'
    <2>1. pc' \in [Scripts -> BuilderPlaces]
        BY <1>0, <1>1 DEF BuilderTypeOK, BuilderPlaces, Working, Finished, FinallyPlaces
    <2>2. dir' \in [Names -> ImageType]
        BY <1>0, <1>1, <1>2 DEF BuilderTypeOK
    <2> QED BY <1>0, <1>1, <2>1, <2>2 DEF BuilderTypeOK
<1>4. HiveInv' /\ MountInv' /\ Owned
    BY <1>0, <1>1, EarlyStep
<1>5. pc'[p] = "dismount" /\ \A q \in Scripts \ {p} : pc'[q] = pc[q]
    BY <1>0, <1>1 DEF BuilderTypeOK
<1>6. dir'[Partial(p)] = image
        /\ \A name \in Names \ {Partial(p)} : dir'[name] = dir[name]
    BY <1>0, <1>1, FileNames DEF BuilderTypeOK
<1>7. PartialInv'
    <2> SUFFICES ASSUME NEW q \in Scripts
                 PROVE  /\ pc'[q] \in {"new", "create"} => copied'[q] = Missing
                        /\ pc'[q] \in Working \cup Finished => dir'[Partial(q)].id = q
                        /\ pc'[q] \in Finished => dir'[Partial(q)].state = "whole"
        BY DEF PartialInv
    <2>1. CASE q = p
        BY <1>0, <1>1, <1>2, <1>5, <1>6, <2>1 DEF BuilderPlaces, Working, Finished,
           FinallyPlaces
    <2>2. CASE q # p
        <3>1. dir'[Partial(q)] = dir[Partial(q)]
            BY <1>6, <2>2, FileNames
        <3> QED BY <1>0, <1>1, <1>5, <2>2, <3>1 DEF PartialInv
    <2> QED BY <2>1, <2>2
<1>8. KeptInv'
    <2> SUFFICES ASSUME NEW q \in Scripts, copied[q] # Missing PROVE Kept(q)'
        BY <1>1 DEF KeptInv
    <2>1. CASE q = p
        BY <1>2, <1>6, <2>1, FileNames DEF Kept
    <2>2. CASE q # p
        <3>1. Kept(q)
            BY <1>0, <2>2 DEF KeptInv
        <3>2. dir'[Partial(q)] = dir[Partial(q)] /\ dir'[Failed(q)] = dir[Failed(q)]
                /\ dir'[Target] = dir[Target]
            BY <1>6, <2>2, FileNames
        <3> QED BY <3>1, <3>2 DEF Kept
    <2> QED BY <2>1, <2>2
<1> QED BY <1>3, <1>4, <1>7, <1>8 DEF WindowsInv

(* The complete image is moved to the name of the output, which is free: it is  *)
(* nobody's image that goes.                                                *)
LEMMA MoveItemStep ==
    ASSUME WindowsInv, NEW p \in Scripts, MoveItem(p)
    PROVE  WindowsInv' /\ Owned
<1>0. BuilderTypeOK /\ HiveInv /\ MountInv /\ PartialInv /\ KeptInv
    BY DEF WindowsInv
<1>1. /\ pc[p] = "publish" /\ pc' = [pc EXCEPT ![p] = "hash"]
      /\ dir[Target] = Missing
      /\ dir' = [dir EXCEPT ![Target] = dir[Partial(p)], ![Partial(p)] = Missing]
      /\ UNCHANGED <<version, copied, loaded, mounted, flags, refused>>
    BY DEF MoveItem, Exists, Goto, Steady, FilesUnchanged, held, Throw
<1>2. dir[Partial(p)] \in ImageType /\ dir[Partial(p)].id = p /\ dir[Partial(p)].state = "whole"
    BY <1>0, <1>1, FileNames DEF BuilderTypeOK, PartialInv, BuilderPlaces, Working,
        Finished, FinallyPlaces
<1>3. BuilderTypeOK'
    <2>1. pc' \in [Scripts -> BuilderPlaces]
        BY <1>0, <1>1 DEF BuilderTypeOK, BuilderPlaces, Working, Finished, FinallyPlaces
    <2>2. dir' \in [Names -> ImageType]
        BY <1>0, <1>1, <1>2, MissingType DEF BuilderTypeOK
    <2> QED BY <1>0, <1>1, <2>1, <2>2 DEF BuilderTypeOK
<1>4. HiveInv' /\ MountInv' /\ Owned
    BY <1>0, <1>1, EarlyStep
<1>5. pc'[p] = "hash" /\ \A q \in Scripts \ {p} : pc'[q] = pc[q]
    BY <1>0, <1>1 DEF BuilderTypeOK
<1>6. dir'[Target] = dir[Partial(p)]
        /\ \A name \in Names \ {Partial(p), Target} : dir'[name] = dir[name]
    BY <1>0, <1>1, FileNames DEF BuilderTypeOK
<1>7. PartialInv'
    <2> SUFFICES ASSUME NEW q \in Scripts
                 PROVE  /\ pc'[q] \in {"new", "create"} => copied'[q] = Missing
                        /\ pc'[q] \in Working \cup Finished => dir'[Partial(q)].id = q
                        /\ pc'[q] \in Finished => dir'[Partial(q)].state = "whole"
        BY DEF PartialInv
    <2>1. CASE q = p
        BY <1>0, <1>1, <1>2, <1>5, <1>6, <2>1 DEF BuilderPlaces, Working, Finished,
           FinallyPlaces
    <2>2. CASE q # p
        <3>1. dir'[Partial(q)] = dir[Partial(q)]
            BY <1>6, <2>2, FileNames
        <3> QED BY <1>0, <1>1, <1>5, <2>2, <3>1 DEF PartialInv
    <2> QED BY <2>1, <2>2
<1>8. KeptInv'
    <2> SUFFICES ASSUME NEW q \in Scripts, copied[q] # Missing PROVE Kept(q)'
        BY <1>1 DEF KeptInv
    <2>1. CASE q = p
        BY <1>2, <1>6, <2>1 DEF Kept
    <2>2. CASE q # p
        <3>1. Kept(q)
            BY <1>0, <2>2 DEF KeptInv
        <3>2. dir'[Partial(q)] = dir[Partial(q)] /\ dir'[Failed(q)] = dir[Failed(q)]
            BY <1>6, <2>2, FileNames
        <3>3. dir[Target].id # q
            BY <1>1, MissingType, NoRun
        <3> QED BY <3>1, <3>2, <3>3 DEF Kept
    <2> QED BY <2>1, <2>2
<1> QED BY <1>3, <1>4, <1>7, <1>8 DEF WindowsInv

(* What finally finds under the partial name it moves to the failed one, if that *)
(* is free and the image is not mounted.                                     *)
LEMMA FinallyMoveStep ==
    ASSUME WindowsInv, NEW p \in Scripts, FinallyMove(p)
    PROVE  WindowsInv' /\ Owned
<1>0. BuilderTypeOK /\ HiveInv /\ MountInv /\ PartialInv /\ KeptInv
    BY DEF WindowsInv
<1> DEFINE moved == Exists(Partial(p)) /\ ~Exists(Failed(p)) /\ p \notin mounted
<1>1. /\ pc[p] = "finally move" /\ pc' = [pc EXCEPT ![p] = "ended"]
      /\ dir' = IF moved THEN [dir EXCEPT ![Failed(p)] = dir[Partial(p)], ![Partial(p)] = Missing]
                         ELSE dir
      /\ UNCHANGED <<version, copied, loaded, mounted, flags, refused>>
    BY DEF FinallyMove, Goto, Steady, FilesUnchanged, held, Throw
<1>2. dir[Partial(p)] \in ImageType
    BY <1>0, FileNames DEF BuilderTypeOK
<1>3. moved => dir[Failed(p)] = Missing
    BY DEF Exists
<1> HIDE DEF moved
<1>4. BuilderTypeOK'
    <2>1. pc' \in [Scripts -> BuilderPlaces]
        BY <1>0, <1>1 DEF BuilderTypeOK, BuilderPlaces, Working, Finished, FinallyPlaces
    <2>2. dir' \in [Names -> ImageType]
        BY <1>0, <1>1, <1>2, MissingType DEF BuilderTypeOK
    <2> QED BY <1>0, <1>1, <2>1, <2>2 DEF BuilderTypeOK
<1>5. HiveInv' /\ MountInv' /\ Owned
    <2>1. \A h \in Hives : /\ "ended" \notin {Edit(h), Unload(h)}
                           /\ "ended" \in PastHive(h) /\ "finally move" \in PastHive(h)
        BY LatePlaces
    <2>2. \A h \in Hives : loaded[h] = p => h \in refused[p]
        BY <1>0, <1>1, <2>1 DEF HiveInv
    <2>3. p \in mounted => "image" \in refused[p]
        BY <1>0, <1>1 DEF MountInv
    <2> QED BY <1>0, <1>1, <2>1, <2>2, <2>3, HeldStays
<1>6. pc'[p] = "ended" /\ \A q \in Scripts \ {p} : pc'[q] = pc[q]
    BY <1>0, <1>1 DEF BuilderTypeOK
<1>7. /\ moved => dir'[Failed(p)] = dir[Partial(p)]
      /\ ~moved => dir'[Failed(p)] = dir[Failed(p)] /\ dir'[Partial(p)] = dir[Partial(p)]
      /\ \A name \in Names \ {Partial(p), Failed(p)} : dir'[name] = dir[name]
    BY <1>0, <1>1, FileNames DEF BuilderTypeOK
<1>8. PartialInv'
    BY <1>0, <1>1, <1>6, <1>7, FileNames DEF PartialInv, BuilderPlaces, Working,
        Finished, FinallyPlaces
<1>9. KeptInv'
    <2> SUFFICES ASSUME NEW q \in Scripts, copied[q] # Missing PROVE Kept(q)'
        BY <1>1 DEF KeptInv
    <2>1. Kept(q)
        BY <1>0 DEF KeptInv
    <2>2. dir'[Target] = dir[Target]
        BY <1>7, FileNames
    <2>3. CASE q = p
        <3>1. CASE moved
            <4>1. dir[Failed(p)].id # p
                BY <1>3, <3>1, MissingType, NoRun
            <4> QED BY <1>7, <2>1, <2>2, <2>3, <3>1, <4>1 DEF Kept
        <3>2. CASE ~moved
            BY <1>7, <2>1, <2>2, <2>3, <3>2 DEF Kept
        <3> QED BY <3>1, <3>2
    <2>4. CASE q # p
        <3>1. dir'[Partial(q)] = dir[Partial(q)] /\ dir'[Failed(q)] = dir[Failed(q)]
            BY <1>7, <2>4, FileNames
        <3> QED BY <2>1, <2>2, <3>1 DEF Kept
    <2> QED BY <2>3, <2>4
<1> QED BY <1>4, <1>5, <1>8, <1>9 DEF WindowsInv

(* The sum is taken. *)
LEMMA HashStep ==
    ASSUME WindowsInv, NEW p \in Scripts, HashOutput(p)
    PROVE  WindowsInv' /\ Owned
<1>0. BuilderTypeOK /\ HiveInv /\ MountInv /\ PartialInv /\ KeptInv
    BY DEF WindowsInv
<1>1. /\ pc[p] = "hash" /\ pc' = [pc EXCEPT ![p] = "finally BCD"]
      /\ UNCHANGED <<loaded, mounted, flags, refused, dir, copied, version>>
    BY DEF HashOutput, Goto, Steady, FilesUnchanged, held, Throw
<1>2. BuilderTypeOK'
    BY <1>0, <1>1 DEF BuilderTypeOK, BuilderPlaces, Working, Finished, FinallyPlaces
<1>3. HiveInv' /\ MountInv' /\ Owned
    BY <1>0, <1>1, HeldStays DEF Hives, Edit, Unload, PastHive
<1>4. PartialInv' /\ KeptInv'
    BY <1>0, <1>1, FilesStay DEF PartialInv, BuilderPlaces, Working, Finished,
       FinallyPlaces
<1> QED BY <1>2, <1>3, <1>4 DEF WindowsInv

-----------------------------------------------------------------------------
(* The names of the shell scripts' files.                                    *)

(* The target, and the names with a second in them.                           *)
LEMMA StampedNames ==
    /\ Target \in Names /\ NoFile \notin Names /\ NoFile # Target
    /\ Stamped \subseteq Names /\ Aways \subseteq Stamped
    /\ Target \notin Stamped /\ NoFile \notin Stamped
    /\ \A t \in 0..MaxTime :
        /\ Backup(t) \in Stamped /\ Backup(t) \notin Aways
        /\ Displaced(t) \in Aways
        /\ \A u \in 0..MaxTime :
            /\ Backup(t) = Backup(u) => t = u
            /\ Displaced(t) = Displaced(u) => t = u
<1> USE DEF Target, NoFile, Stamped, Aways, Backup, Displaced
<1>1. Target \in Names /\ Stamped \subseteq Names /\ Aways \subseteq Stamped
    BY DEF Names
<1>2. NoFile \notin Names
    BY DEF Names, Restoring, Partial, Failed
<1>3. NoFile # Target /\ Target \notin Stamped /\ NoFile \notin Stamped
    OBVIOUS
<1>4. ASSUME NEW t \in 0..MaxTime
      PROVE  /\ Backup(t) \in Stamped /\ Backup(t) \notin Aways
             /\ Displaced(t) \in Aways
             /\ \A u \in 0..MaxTime :
                 /\ Backup(t) = Backup(u) => t = u
                 /\ Displaced(t) = Displaced(u) => t = u
    BY <1>4
<1> QED BY <1>1, <1>2, <1>3, <1>4

(* The names with a process number in them.                                   *)
LEMMA ProcessNames ==
    ASSUME NEW p \in Scripts
    PROVE  /\ {Partial(p), Failed(p), Restoring(p)} \subseteq Names \ ({Target, NoFile} \cup Stamped)
           /\ Restoring(p) \in Lasting /\ Partial(p) \notin Lasting /\ Failed(p) \notin Lasting
           /\ \A q \in Scripts :
                /\ Partial(p) # Failed(q) /\ Partial(p) # Restoring(q)
                /\ Failed(p) # Restoring(q)
                /\ q # p => Partial(p) # Partial(q) /\ Failed(p) # Failed(q)
                                /\ Restoring(p) # Restoring(q)
<1> USE DEF Target, NoFile, Stamped, Backup, Displaced, Partial, Failed, Restoring
<1>1. {Partial(p), Failed(p), Restoring(p)} \subseteq Names \ ({Target, NoFile} \cup Stamped)
    BY DEF Names
<1>2. Restoring(p) \in Lasting /\ Partial(p) \notin Lasting /\ Failed(p) \notin Lasting
    BY DEF Lasting
<1>3. ASSUME NEW q \in Scripts
      PROVE  /\ Partial(p) # Failed(q) /\ Partial(p) # Restoring(q) /\ Failed(p) # Restoring(q)
             /\ q # p => Partial(p) # Partial(q) /\ Failed(p) # Failed(q)
                             /\ Restoring(p) # Restoring(q)
    BY <1>3
<1> QED BY <1>1, <1>2, <1>3

(* What outlasts a script.                                                   *)
LEMMA LastingNames ==
    /\ Lasting \subseteq Names /\ Target \in Lasting /\ Stamped \subseteq Lasting
    /\ \A name \in Lasting :
        name = Target \/ name \in Stamped \/ \E p \in Scripts : name = Restoring(p)
BY StampedNames, ProcessNames DEF Lasting

(* The file a script copies to has a name of its kind.                         *)
LEMMA CopyName ==
    ASSUME ShellTypeOK, NEW p \in Scripts
    PROVE  /\ kind[p] \in {"build", "deploy", "rollback"} /\ timestamp[p] \in 0..MaxTime
           /\ kind[p] = "build" => Copy(p) = Partial(p)
           /\ kind[p] = "deploy" => Copy(p) = Backup(timestamp[p])
           /\ kind[p] = "rollback" => Copy(p) = Restoring(p)
           /\ Copy(p) \in Names /\ Copy(p) # Target /\ Copy(p) \notin Aways
<1>1. kind[p] \in {"build", "deploy", "rollback"} /\ timestamp[p] \in 0..MaxTime
    BY DEF ShellTypeOK, Kinds
<1>2. /\ kind[p] = "build" => Copy(p) = Partial(p)
      /\ kind[p] = "deploy" => Copy(p) = Backup(timestamp[p])
      /\ kind[p] = "rollback" => Copy(p) = Restoring(p)
    BY DEF Copy
<1>3. Copy(p) \in Names /\ Copy(p) # Target /\ Copy(p) \notin Aways
    BY <1>1, <1>2, StampedNames, ProcessNames
<1> QED BY <1>1, <1>2, <1>3

(* Nobody's file is no file at all.                                          *)
LEMMA NoFileType ==
    /\ Missing \notin FileType /\ Unknown \notin FileType /\ Missing # Unknown
    /\ Missing.id = "nobody" /\ Missing.v = -1 /\ Missing.state = "missing"
    /\ "nobody" \notin Scripts \cup {"original"}
BY BuilderAssumption DEF Missing, Unknown, Image, FileType

Restated(file, state) == [file EXCEPT !.state = state]

(* A file that changes its state, and nothing else.                           *)
LEMMA RestatedFile ==
    ASSUME NEW file \in FileType, NEW state \in {"torn", "half", "whole"}
    PROVE  /\ Restated(file, state) \in FileType
           /\ Restated(file, state).id = file.id /\ Restated(file, state).v = file.v
           /\ Restated(file, state).state = state
BY DEF FileType, Restated

(* Names that two scripts share, they share for good.                          *)
LEMMA SecondStays ==
    ASSUME UNCHANGED <<kind, timestamp>>, \A q \in Scripts : pc'[q] = "new" => pc[q] = "new"
    PROVE  SameSecond => SameSecond'
BY DEF SameSecond

(* Where a script keeps what the payload has been written over, it stays.       *)
LEMMA PriorStays ==
    ASSUME PriorInv, SameSecond => SameSecond',
           \A v \in 0..MaxVersion : \E u \in 0..MaxVersion : prior'[v] = prior[u],
           \A p \in Scripts :
                kind[p] = "deploy" /\ pc[p] \notin Early \cup {"copying"} /\ ~SameSecond' =>
                    /\ kind'[p] = kind[p] /\ timestamp'[p] = timestamp[p] /\ copied'[p] = copied[p]
                    /\ pc'[p] \notin Early \cup {"copying"}
                    /\ dir'[Backup(timestamp[p])] = dir[Backup(timestamp[p])]
    PROVE  PriorInv'
<1> SUFFICES ASSUME NEW v \in 0..MaxVersion, prior'[v] \notin {Missing, Unknown}, ~SameSecond'
             PROVE  \E p \in Scripts :
                        /\ kind'[p] = "deploy" /\ pc'[p] \notin Early \cup {"copying"}
                        /\ dir'[Backup(timestamp'[p])] = copied'[p]
                        /\ SameContent(copied'[p], prior'[v])
    BY DEF PriorInv, SameContent
<1>1. PICK u \in 0..MaxVersion : prior'[v] = prior[u]
    OBVIOUS
<1>2. PICK p \in Scripts :
        /\ kind[p] = "deploy" /\ pc[p] \notin Early \cup {"copying"}
        /\ dir[Backup(timestamp[p])] = copied[p]
        /\ SameContent(copied[p], prior[u])
    BY <1>1 DEF PriorInv
<1> QED BY <1>1, <1>2

(* The script that left the target's name empty still has what belongs there.  *)
LEMMA FoundStays ==
    ASSUME FoundInv,
           dir'[Target] = Missing =>
                /\ dir[Target] = Missing
                /\ \A name \in Stamped : dir'[name] # Missing => dir[name] # Missing,
           \A p \in Scripts :
                /\ kind[p] = "rollback" /\ pc[p] \in {"move in", "failed", "killed"}
                /\ dir'[Target] = Missing
                =>
                    /\ kind'[p] = kind[p] /\ timestamp'[p] = timestamp[p]
                    /\ copied'[p] = copied[p]
                    /\ pc'[p] \in {"move in", "failed", "killed"}
                    /\ dir'[Restoring(p)] = dir[Restoring(p)]
                    /\ dir[Displaced(timestamp[p])] # Missing =>
                            dir'[Displaced(timestamp[p])] # Missing
    PROVE  FoundInv'
<1> SUFFICES ASSUME dir'[Target] = Missing, NEW name \in Stamped, dir'[name] # Missing
             PROVE  \E p \in Scripts :
                        /\ kind'[p] = "rollback" /\ pc'[p] \in {"move in", "failed", "killed"}
                        /\ dir'[Restoring(p)] = copied'[p]
                        /\ copied'[p] # Missing /\ copied'[p].state # "torn"
                        /\ dir'[Displaced(timestamp'[p])] # Missing
    BY DEF FoundInv, Exists
<1>1. ~Exists(Target) /\ Exists(name)
    BY DEF Exists
<1>2. PICK p \in Scripts :
        /\ kind[p] = "rollback" /\ pc[p] \in {"move in", "failed", "killed"}
        /\ dir[Restoring(p)] = copied[p] /\ copied[p] # Missing /\ copied[p].state # "torn"
        /\ Exists(Displaced(timestamp[p]))
    BY <1>1 DEF FoundInv
<1> QED BY <1>2 DEF Exists

-----------------------------------------------------------------------------
(* The steps of the VM and of the shell scripts.                              *)

(* Time passes, or a VM starts or stops.                                       *)
LEMMA IdleStep ==
    ASSUME ShellInv, UNCHANGED <<dir, scriptVars, version, history>>,
           clock' \in 0..MaxTime, vm' \in {vm, NoFile} \/ (vm' = Target /\ Exists(Target))
    PROVE  ShellInv'
<1>0. /\ ShellTypeOK /\ PlaceInv /\ UseInv /\ BuildInv /\ RestoreInv /\ BackupInv
      /\ RaceInv /\ VersionInv /\ HalfInv /\ PriorInv /\ FoundInv
      /\ dir[Target].state # "torn"
    BY DEF ShellInv
<1>1. /\ clock' \in 0..MaxTime
      /\ vm' \in {vm, NoFile} \/ (vm' = Target /\ Exists(Target))
      /\ UNCHANGED <<dir, pc, kind, timestamp, source, open, version, copied, raced,
                     prior, displaced>>
    BY DEF scriptVars, history
<1>2. SameSecond => SameSecond'
    BY <1>1, SecondStays
<1>3. ShellTypeOK'
    BY <1>0, <1>1, <1>2, ImagesAssumption DEF ShellTypeOK, ShellPlaces, Early, Late,
       Kinds
<1>4. PlaceInv'
    BY <1>0, <1>1, <1>2 DEF PlaceInv, ShellTypeOK, Early
<1>5. UseInv'
    BY <1>0, <1>1, <1>2 DEF UseInv, ShellTypeOK, Exists
<1>6. BuildInv'
    BY <1>0, <1>1, <1>2 DEF BuildInv, ShellTypeOK
<1>7. RestoreInv'
    BY <1>0, <1>1, <1>2 DEF RestoreInv
<1>8. BackupInv'
    BY <1>0, <1>1, <1>2 DEF BackupInv, Late, Exists
<1>9. RaceInv'
    BY <1>0, <1>1, <1>2 DEF RaceInv, SameContent
<1>10. VersionInv'
    BY <1>0, <1>1, <1>2 DEF VersionInv
<1>11. HalfInv'
    BY <1>0, <1>1, <1>2 DEF HalfInv
<1>12. PriorInv'
    BY <1>0, <1>1, <1>2 DEF PriorInv, SameContent, Early
<1>14. FoundInv'
    BY <1>0, <1>1, <1>2 DEF FoundInv, Exists
<1>15. dir'[Target].state # "torn"
    BY <1>0, <1>1, <1>2
<1> QED BY <1>3, <1>4, <1>5, <1>6, <1>7, <1>8, <1>9, <1>10, <1>11, <1>12, <1>14,
    <1>15 DEF ShellInv

(* Where a script may go in a step that changes no image.                      *)
Advance(p, to) ==
    \/ pc[p] = "check" /\ to = "copy"
    \/ pc[p] = "verify" /\ kind[p] = "build" /\ to = "publish"
    \/ pc[p] = "verify" /\ kind[p] = "deploy" /\ to = "sum"
    \/ pc[p] = "verify" /\ kind[p] = "rollback" /\ to = "move away"
        /\ dir[Restoring(p)].state # "torn"
    \/ pc[p] = "sum" /\ kind[p] = "build" /\ to = "done"
    \/ pc[p] = "sum" /\ kind[p] = "deploy" /\ to = "attach"
    \/ pc[p] = "attach" /\ to = "install" /\ open'[p] = Target
    \/ Running(p) /\ kind[p] = "build" /\ to = "unsummed"
    \/ Running(p) /\ to = "killed"

(* Such a step keeps the invariant.                                           *)
LEMMA AdvanceStep ==
    ASSUME ShellInv, NEW p \in Scripts, NEW to \in ShellPlaces, Advance(p, to),
           pc' = [pc EXCEPT ![p] = to],
           open' \in [Scripts -> {NoFile, Target} \cup Stamped],
           \A q \in Scripts : open'[q] \in {open[q], NoFile} \/
                (q = p /\ pc[p] = "attach" /\ open'[q] = Target /\ Exists(Target)),
           UNCHANGED <<clock, dir, vm, kind, timestamp, source, version,
                       copied, raced, prior, displaced>>
    PROVE  ShellInv'
<1>0. /\ ShellTypeOK /\ PlaceInv /\ UseInv /\ BuildInv /\ RestoreInv /\ BackupInv
      /\ RaceInv /\ VersionInv /\ HalfInv /\ PriorInv /\ FoundInv
      /\ dir[Target].state # "torn"
    BY DEF ShellInv
<1>1. \A q \in Scripts : pc'[q] = IF q = p THEN to ELSE pc[q]
    BY <1>0 DEF ShellTypeOK
<1>2. /\ pc[p] # "new" /\ to \notin {"new", "check", "copying", "complete", "verify",
                                     "installing", "move in", "failed"}
      /\ to \in Early => pc[p] \in Early
      /\ to \in Late => pc[p] \in Late
      /\ to = "publish" => kind[p] = "build" /\ pc[p] = "verify"
      /\ to = "move away" => kind[p] = "rollback" /\ pc[p] = "verify"
      /\ to = "move away" => dir[Restoring(p)].state # "torn"
      /\ to = "install" => pc[p] = "attach" /\ open'[p] = Target
      /\ to = "sum" => kind[p] = "deploy" /\ pc[p] = "verify"
      /\ to = "attach" => kind[p] = "deploy" /\ pc[p] = "sum"
      /\ pc[p] \in {"move in", "failed", "killed"} /\ kind[p] # "build" => to = "killed"
    <2>1. CASE pc[p] = "check" /\ to = "copy"
        BY <2>1 DEF Early, Late
    <2>2. CASE pc[p] = "verify"
        BY <2>2 DEF Advance, Early, Late
    <2>3. CASE pc[p] = "sum"
        BY <2>3 DEF Advance, Early, Late
    <2>4. CASE pc[p] = "attach"
        BY <2>4 DEF Advance, Early, Late
    <2>5. CASE Running(p) /\ to \in {"unsummed", "killed"} /\ (to = "unsummed" =>
                kind[p] = "build")
        BY <2>5 DEF Running, Early, Late
    <2> QED BY <2>1, <2>2, <2>3, <2>4, <2>5 DEF Advance
<1>3. SameSecond => SameSecond'
    BY <1>1, <1>2, SecondStays
<1>4. ShellTypeOK'
    <2>1. pc' \in [Scripts -> ShellPlaces]
        BY <1>0 DEF ShellTypeOK
    <2> QED BY <1>0, <2>1 DEF ShellTypeOK
<1>5. PlaceInv'
    <2> SUFFICES ASSUME NEW q \in Scripts
                 PROVE  /\ pc'[q] \in {"complete", "publish"} => kind[q] = "build"
                        /\ pc'[q] \in {"attach", "install", "installing"} => kind[q] = "deploy"
                        /\ pc'[q] \in {"move away", "move in"} => kind[q] = "rollback"
                        /\ pc'[q] = "sum" => kind[q] \in {"build", "deploy"}
                        /\ pc'[q] # "new" /\ kind[q] # "build" =>
                                source[q] \in {Target} \cup Stamped
                        /\ pc'[q] # "new" /\ kind[q] = "deploy" => source[q] = Target
                        /\ pc'[q] \in Early => copied[q] = Missing
                        /\ pc'[q] = "copying" => copied[q] # Missing
                        /\ copied[q] # Missing => copied[q].id = q
        BY DEF PlaceInv
    <2>1. CASE q = p
        <3>1. /\ kind[p] # "build" => source[p] \in {Target} \cup Stamped
              /\ kind[p] = "deploy" => source[p] = Target
              /\ copied[p] # Missing => copied[p].id = p
              /\ pc[p] \in Early => copied[p] = Missing
              /\ pc[p] = "attach" => kind[p] = "deploy"
            BY <1>0, <1>2 DEF PlaceInv
        <3> QED BY <1>1, <1>2, <2>1, <3>1
    <2>2. CASE q # p
        <3>1. pc'[q] = pc[q]
            BY <1>1, <2>2
        <3> QED BY <1>0, <3>1 DEF PlaceInv
    <2> QED BY <2>1, <2>2
<1>6. UseInv'
    <2>1. vm # NoFile => dir[vm] # Missing
        BY <1>0 DEF UseInv, Exists
    <2>2. ASSUME NEW q \in Scripts, open'[q] # NoFile PROVE dir[open'[q]] # Missing
        BY <1>0, <2>2 DEF UseInv, Exists
    <2>3. ASSUME NEW q \in Scripts, pc'[q] \in {"install", "installing"}
          PROVE  open'[q] \in {NoFile, Target} \cup Aways
        <3>1. CASE q = p
            BY <1>1, <1>2, <2>3, <3>1
        <3>2. CASE q # p
            BY <1>0, <1>1, <2>3, <3>2 DEF UseInv
        <3> QED BY <3>1, <3>2
    <2> QED BY <2>1, <2>2, <2>3 DEF UseInv, Exists
<1>7. BuildInv'
    BY <1>0, <1>1, <1>2 DEF BuildInv
<1>8. RestoreInv'
    <2> SUFFICES ASSUME NEW q \in Scripts, kind[q] = "rollback",
                        pc'[q] \in {"verify", "move away", "move in"}
                 PROVE  /\ dir[Restoring(q)] = copied[q] /\ copied[q] # Missing
                        /\ pc'[q] \in {"move away", "move in"} => copied[q].state # "torn"
        BY DEF RestoreInv
    <2>1. CASE q = p
        BY <1>0, <1>1, <1>2, <2>1 DEF RestoreInv
    <2>2. CASE q # p
        BY <1>0, <1>1, <2>2 DEF RestoreInv
    <2> QED BY <2>1, <2>2
<1>9. BackupInv'
    <2>1. \A q \in Scripts : /\ pc'[q] = "copying" => pc[q] = "copying"
                             /\ pc'[q] \in Late => pc[q] \in Late
        BY <1>1, <1>2
    <2> QED BY <1>0, <1>3, <2>1 DEF BackupInv, Exists
<1>10. RaceInv'
    <2> SUFFICES ASSUME NEW q \in Scripts, kind[q] = "deploy", ~raced[q],
                        pc'[q] \in {"copying", "verify", "sum", "attach", "install"}
                 PROVE  /\ SameContent(dir[Target], copied[q])
                        /\ \A r \in Scripts : ~(pc'[r] = "installing" /\ open'[r] = Target)
                        /\ pc'[q] = "install" => open'[q] \in {NoFile, Target}
        BY DEF RaceInv, SameContent
    <2>1. pc[q] \in {"copying", "verify", "sum", "attach", "install"}
        BY <1>1, <1>2
    <2>2. /\ SameContent(dir[Target], copied[q])
          /\ \A r \in Scripts : ~(pc[r] = "installing" /\ open[r] = Target)
          /\ pc[q] = "install" => open[q] \in {NoFile, Target}
        BY <1>0, <2>1 DEF RaceInv
    <2>3. \A r \in Scripts :
            pc'[r] = "installing" /\ open'[r] = Target =>
                        pc[r] = "installing" /\ open[r] = Target
        BY <1>1, <1>2, StampedNames
    <2>4. pc'[q] = "install" => open'[q] \in {NoFile, Target}
        BY <1>1, <1>2, <2>2
    <2> QED BY <2>2, <2>3, <2>4
<1>11. VersionInv' /\ HalfInv'
    BY <1>0 DEF VersionInv, HalfInv
<1>12. PriorInv'
    <2>1. \A q \in Scripts : pc[q] \notin Early \cup {"copying"} =>
                pc'[q] \notin Early \cup {"copying"}
        BY <1>1, <1>2
    <2> QED BY <1>0, <1>3, <2>1, PriorStays
<1>14. FoundInv'
    <2>1. \A q \in Scripts : kind[q] = "rollback" /\ pc[q] \in {"move in", "failed", "killed"} =>
                             pc'[q] \in {"move in", "failed", "killed"}
        BY <1>1, <1>2
    <2> QED BY <1>0, <2>1, FoundStays
<1>15. dir'[Target].state # "torn"
    BY <1>0
<1> QED BY <1>4, <1>5, <1>6, <1>7, <1>8, <1>9, <1>10, <1>11, <1>12, <1>14, <1>15
    DEF ShellInv

(* The checks, qemu-img check and the checksum.                               *)
LEMMA CheckStep ==
    ASSUME ShellInv, NEW p \in Scripts, Check(p) \/ Verify(p) \/ Sum(p)
    PROVE  ShellInv'
<1>1. ShellTypeOK
    BY DEF ShellInv
<1>2. PICK to \in ShellPlaces : pc' = [pc EXCEPT ![p] = to] /\ Advance(p, to)
    <2>1. {"copy", "publish", "sum", "move away", "done", "attach"} \subseteq ShellPlaces
        BY DEF ShellPlaces, Early, Late
    <2>2. CASE Check(p)
        BY <2>1, <2>2 DEF Check, Goto, Advance
    <2>3. CASE Verify(p)
        BY <1>1, <2>1, <2>3, CopyName DEF Verify, Goto, Advance
    <2>4. CASE Sum(p)
        <3>1. kind[p] \in {"build", "deploy"}
            BY <2>4 DEF ShellInv, PlaceInv, Sum, Goto
        <3> QED BY <2>1, <2>4, <3>1 DEF Sum, Goto, Advance
    <2> QED BY <2>2, <2>3, <2>4
<1>3. UNCHANGED <<clock, dir, vm, kind, timestamp, source, open, version,
                  copied, raced, prior, displaced>>
    BY DEF Check, Verify, Sum, history
<1>4. open' \in [Scripts -> {NoFile, Target} \cup Stamped]
    BY <1>1, <1>3 DEF ShellTypeOK
<1> QED BY <1>2, <1>3, <1>4, AdvanceStep

(* The target is attached.                                                   *)
LEMMA AttachStep ==
    ASSUME ShellInv, NEW p \in Scripts, Attach(p)
    PROVE  ShellInv'
<1>1. ShellTypeOK
    BY DEF ShellInv
<1>2. /\ pc[p] = "attach" /\ pc' = [pc EXCEPT ![p] = "install"] /\ Exists(Target)
      /\ open' = [open EXCEPT ![p] = Target]
      /\ UNCHANGED <<clock, dir, vm, kind, timestamp, source, version, copied, raced,
                     prior, displaced>>
    BY DEF Attach, Goto, history
<1>3. /\ \A q \in Scripts : open'[q] = IF q = p THEN Target ELSE open[q]
      /\ open' \in [Scripts -> {NoFile, Target} \cup Stamped]
    BY <1>1, <1>2 DEF ShellTypeOK
<1>4. PICK to \in ShellPlaces : to = "install"
    BY DEF ShellPlaces, Late
<1>5. Advance(p, to)
    BY <1>2, <1>3, <1>4 DEF Advance
<1> QED BY <1>2, <1>3, <1>4, <1>5, AdvanceStep

(* A death changes nothing but that nothing more is done.                      *)
LEMMA KillStep ==
    ASSUME ShellInv, NEW p \in Scripts, Kill(p)
    PROVE  ShellInv'
<1>1. ShellTypeOK
    BY DEF ShellInv
<1>2. PICK to \in ShellPlaces : pc' = [pc EXCEPT ![p] = to] /\ Advance(p, to)
    <2>1. {"unsummed", "killed"} \subseteq ShellPlaces
        BY DEF ShellPlaces
    <2> QED BY <2>1 DEF Kill, Advance
<1>3. /\ open' \in {open, [open EXCEPT ![p] = NoFile]}
      /\ UNCHANGED <<clock, dir, vm, kind, timestamp, source, version, copied, raced,
                     prior, displaced>>
    BY DEF Kill, history
<1>4. /\ open' \in [Scripts -> {NoFile, Target} \cup Stamped]
      /\ \A q \in Scripts : open'[q] \in {open[q], NoFile}
    BY <1>1, <1>3 DEF ShellTypeOK
<1> QED BY <1>2, <1>3, <1>4, AdvanceStep

(* A script starts: it has the second to itself, or the names are shared.       *)
LEMMA StartStep ==
    ASSUME ShellInv, NEW p \in Scripts, NEW k \in Kinds, Start(p, k)
    PROVE  ShellInv'
<1>0. /\ ShellTypeOK /\ PlaceInv /\ UseInv /\ BuildInv /\ RestoreInv /\ BackupInv
      /\ RaceInv /\ VersionInv /\ HalfInv /\ PriorInv /\ FoundInv
      /\ dir[Target].state # "torn"
    BY DEF ShellInv
<1>1. /\ pc[p] = "new"
      /\ UNCHANGED <<clock, dir, vm, open, version, copied, raced, prior, displaced>>
    BY DEF Start, Goto, history
<1>2. /\ pc' = [pc EXCEPT ![p] = "check"]
      /\ kind' = [kind EXCEPT ![p] = k]
      /\ timestamp' = [timestamp EXCEPT ![p] = clock]
    BY DEF Start, Goto, history
<1>3. PICK file \in {Target} \cup Stamped :
          /\ source' = [source EXCEPT ![p] = file]
          /\ k = "deploy" => file = Target
    BY DEF Start
<1>4. \A q \in Scripts : pc'[q] = IF q = p THEN "check" ELSE pc[q]
    BY <1>0, <1>2 DEF ShellTypeOK
<1>5. \A q \in Scripts :
          /\ kind'[q] = IF q = p THEN k ELSE kind[q]
          /\ timestamp'[q] = IF q = p THEN clock ELSE timestamp[q]
          /\ source'[q] = IF q = p THEN file ELSE source[q]
    BY <1>0, <1>2, <1>3 DEF ShellTypeOK
<1>6. SameSecond => SameSecond'
    BY <1>1, <1>4, <1>5 DEF SameSecond
<1>7. ShellTypeOK'
    <2>1. pc' \in [Scripts -> ShellPlaces] /\ kind' \in [Scripts -> Kinds]
        BY <1>0, <1>2 DEF ShellTypeOK, ShellPlaces, Early
    <2>2. timestamp' \in [Scripts -> 0..MaxTime]
        BY <1>0, <1>2 DEF ShellTypeOK
    <2>3. source' \in [Scripts -> {NoFile, Target} \cup Stamped]
        BY <1>0, <1>3 DEF ShellTypeOK
    <2> QED BY <1>0, <1>1, <2>1, <2>2, <2>3 DEF ShellTypeOK
<1>8. PlaceInv'
    <2>1. \A q \in Scripts :
            q # p => pc'[q] = pc[q] /\ kind'[q] = kind[q] /\ source'[q] = source[q]
        BY <1>4, <1>5
    <2>2. /\ pc'[p] = "check" /\ copied'[p] = Missing /\ source'[p] = file
          /\ kind'[p] = "deploy" => source'[p] = Target
        BY <1>0, <1>1, <1>3, <1>4, <1>5 DEF PlaceInv, Early
    <2>3. \A q \in Scripts : copied'[q] = copied[q]
        BY <1>1
    <2> SUFFICES ASSUME NEW q \in Scripts
                 PROVE  /\ pc'[q] \in {"complete", "publish"} => kind'[q] = "build"
                        /\ pc'[q] \in {"attach", "install", "installing"} => kind'[q] = "deploy"
                        /\ pc'[q] \in {"move away", "move in"} => kind'[q] = "rollback"
                        /\ pc'[q] = "sum" => kind'[q] \in {"build", "deploy"}
                        /\ pc'[q] # "new" /\ kind'[q] # "build" =>
                                source'[q] \in {Target} \cup Stamped
                        /\ pc'[q] # "new" /\ kind'[q] = "deploy" => source'[q] = Target
                        /\ pc'[q] \in Early => copied'[q] = Missing
                        /\ pc'[q] = "copying" => copied'[q] # Missing
                        /\ copied'[q] # Missing => copied'[q].id = q
        BY DEF PlaceInv
    <2>4. CASE q = p
        BY <2>2, <2>4
    <2>5. CASE q # p
        BY <1>0, <2>1, <2>3, <2>5 DEF PlaceInv
    <2> QED BY <2>4, <2>5
<1>9. UseInv'
    BY <1>0, <1>1, <1>3, <1>4, <1>5, <1>6 DEF UseInv, ShellTypeOK, Exists
<1>10. BuildInv'
    BY <1>0, <1>1, <1>3, <1>4, <1>5, <1>6 DEF BuildInv, ShellTypeOK
<1>11. RestoreInv'
    BY <1>0, <1>1, <1>3, <1>4, <1>5, <1>6 DEF RestoreInv
<1>12. BackupInv'
    BY <1>0, <1>1, <1>3, <1>4, <1>5, <1>6 DEF BackupInv, Late, Exists
<1>13. RaceInv'
    BY <1>0, <1>1, <1>3, <1>4, <1>5, <1>6 DEF RaceInv, SameContent
<1>14. VersionInv'
    BY <1>0, <1>1, <1>3, <1>4, <1>5, <1>6 DEF VersionInv
<1>15. HalfInv'
    BY <1>0, <1>1, <1>3, <1>4, <1>5, <1>6, NoFileType DEF HalfInv, PlaceInv, Early
<1>16. PriorInv'
    BY <1>0, <1>1, <1>3, <1>4, <1>5, <1>6, PriorStays DEF Early
<1>18. FoundInv'
    BY <1>0, <1>1, <1>3, <1>4, <1>5, <1>6, FoundStays
<1>19. dir'[Target].state # "torn"
    BY <1>0, <1>1, <1>3, <1>4, <1>5, <1>6
<1> QED BY <1>7, <1>8, <1>9, <1>10, <1>11, <1>12, <1>13, <1>14, <1>15, <1>16, <1>18, <1>19 DEF ShellInv

(* The builder completes its image.                                          *)
LEMMA CompleteStep ==
    ASSUME ShellInv, NEW p \in Scripts, Complete(p)
    PROVE  ShellInv'
<1>0. /\ ShellTypeOK /\ PlaceInv /\ UseInv /\ BuildInv /\ RestoreInv /\ BackupInv
      /\ RaceInv /\ VersionInv /\ HalfInv /\ PriorInv /\ FoundInv
      /\ dir[Target].state # "torn"
    BY DEF ShellInv
<1>1. /\ pc[p] = "complete"
      /\ UNCHANGED <<clock, vm, kind, timestamp, source, open, version, copied, raced,
                     prior, displaced>>
    BY DEF Complete, Goto, history
<1>2. /\ pc' = [pc EXCEPT ![p] = "verify"]
      /\ dir' = [dir EXCEPT ![Copy(p)].state = "whole"]
    BY DEF Complete, Goto, history
<1>3. \A q \in Scripts : pc'[q] = IF q = p THEN "verify" ELSE pc[q]
    BY <1>0, <1>2 DEF ShellTypeOK
<1>4. kind[p] = "build" /\ Copy(p) = Partial(p) /\ dir[Partial(p)].id = p
    BY <1>0, <1>1, CopyName DEF PlaceInv, BuildInv
<1>5. dir[Partial(p)] \in FileType
    BY <1>0, <1>4, ProcessNames, NoFileType DEF ShellTypeOK
<1>6. PICK file \in FileType :
          /\ file = Restated(dir[Partial(p)], "whole")
          /\ file.id = p /\ file.v = dir[Partial(p)].v /\ file.state = "whole"
    BY <1>4, <1>5, RestatedFile
<1>7. /\ dir' \in [Names -> FileType \cup {Missing}]
      /\ \A name \in Names : dir'[name] = IF name = Partial(p) THEN file ELSE dir[name]
    BY <1>0, <1>2, <1>4, <1>6, ProcessNames DEF ShellTypeOK, Restated
<1>8. \A name \in Lasting : dir'[name] = dir[name]
    BY <1>7, ProcessNames, LastingNames
<1>9. \A t \in 0..MaxTime :
          dir'[Backup(t)] = dir[Backup(t)] /\ dir'[Displaced(t)] = dir[Displaced(t)]
    BY <1>8, StampedNames, LastingNames
<1>10. \A q \in Scripts :
          /\ dir'[Restoring(q)] = dir[Restoring(q)] /\ dir'[Failed(q)] = dir[Failed(q)]
          /\ dir'[Partial(q)] = IF q = p THEN file ELSE dir[Partial(q)]
    BY <1>7, <1>8, ProcessNames
<1>11. SameSecond => SameSecond'
    BY <1>1, <1>3, <1>4, <1>5, <1>6, <1>7, <1>8, <1>9, <1>10, SecondStays
<1>12. ShellTypeOK'
    BY <1>0, <1>1, <1>2, <1>3, <1>4, <1>5, <1>6, <1>7, <1>8, <1>9, <1>10, <1>11,
       ImagesAssumption DEF ShellTypeOK, ShellPlaces, Early, Late, Kinds
<1>13. PlaceInv'
    BY <1>0, <1>1, <1>3, <1>4 DEF PlaceInv, Early
<1>14. UseInv'
    <2>1. \A name \in Names : Exists(name) => dir'[name] # Missing
        BY <1>6, <1>7, NoFileType DEF Exists
    <2> QED BY <1>0, <1>1, <1>3, <2>1, StampedNames DEF UseInv, Exists, ShellTypeOK
<1>15. BuildInv'
    <2> SUFFICES ASSUME NEW q \in Scripts, kind[q] = "build"
                 PROVE  /\ pc'[q] \in {"copying", "complete", "verify", "publish"} =>
                                dir'[Partial(q)].id = q
                        /\ pc'[q] \in {"verify", "publish"} => dir'[Partial(q)].state = "whole"
                        /\ pc'[q] = "failed" /\ copied[q] # Missing => dir'[Failed(q)].id = q
        BY <1>1 DEF BuildInv
    <2>1. CASE q = p
        BY <1>3, <1>6, <1>10, <2>1
    <2>2. CASE q # p
        BY <1>0, <1>3, <1>10, <2>2 DEF BuildInv
    <2> QED BY <2>1, <2>2
<1>16. RestoreInv'
    BY <1>0, <1>1, <1>3, <1>4, <1>5, <1>6, <1>7, <1>8, <1>9, <1>10, <1>11 DEF RestoreInv
<1>17. BackupInv'
    BY <1>0, <1>1, <1>3, <1>4, <1>9, <1>11 DEF BackupInv, ShellTypeOK, Late, Exists
<1>18. RaceInv'
    BY <1>0, <1>1, <1>3, <1>4, <1>5, <1>6, <1>7, <1>8, <1>9, <1>10, <1>11,
       LastingNames DEF RaceInv, SameContent
<1>19. VersionInv'
    BY <1>0, <1>1, <1>3, <1>4, <1>5, <1>6, <1>7, <1>8, <1>9, <1>10, <1>11 DEF VersionInv
<1>20. HalfInv'
    BY <1>0, <1>1, <1>3, <1>4, <1>5, <1>6, <1>7, <1>8, <1>9, <1>10, <1>11 DEF HalfInv
<1>21. PriorInv'
    BY <1>0, <1>1, <1>3, <1>4, <1>5, <1>6, <1>7, <1>8, <1>9, <1>10, <1>11, PriorStays
       DEF Early, ShellTypeOK
<1>23. FoundInv'
    BY <1>0, <1>1, <1>3, <1>4, <1>5, <1>6, <1>7, <1>8, <1>9, <1>10, <1>11, FoundStays,
       LastingNames DEF ShellTypeOK
<1>24. dir'[Target].state # "torn"
    BY <1>0, <1>8, LastingNames
<1> QED BY <1>12, <1>13, <1>14, <1>15, <1>16, <1>17, <1>18, <1>19, <1>20, <1>21, <1>23, <1>24 DEF ShellInv

(* A copy is begun or ended: one file changes, and only names that belong to   *)
(* the script.                                                              *)
LEMMA CopyEffect ==
    ASSUME ShellTypeOK, NEW p \in Scripts, NEW file \in FileType,
           dir' = [dir EXCEPT ![Copy(p)] = file]
    PROVE  /\ dir' \in [Names -> FileType \cup {Missing}]
           /\ \A name \in Names : dir'[name] = IF name = Copy(p) THEN file ELSE dir[name]
           /\ dir'[Target] = dir[Target]
           /\ \A name \in Aways : dir'[name] = dir[name]
           /\ \A q \in Scripts :
                /\ dir'[Failed(q)] = dir[Failed(q)]
                /\ dir'[Partial(q)] =
                        IF q = p /\ kind[p] = "build" THEN file ELSE dir[Partial(q)]
                /\ dir'[Restoring(q)] =
                        IF q = p /\ kind[p] = "rollback" THEN file ELSE dir[Restoring(q)]
           /\ \A t \in 0..MaxTime : dir'[Backup(t)] =
                        IF kind[p] = "deploy" /\ t = timestamp[p] THEN file ELSE dir[Backup(t)]
<1>1. /\ dir' \in [Names -> FileType \cup {Missing}]
      /\ \A name \in Names : dir'[name] = IF name = Copy(p) THEN file ELSE dir[name]
    BY CopyName DEF ShellTypeOK
<1>2. dir'[Target] = dir[Target] /\ \A name \in Aways : dir'[name] = dir[name]
    BY <1>1, CopyName, StampedNames
<1>3. ASSUME NEW q \in Scripts
      PROVE  /\ dir'[Failed(q)] = dir[Failed(q)]
             /\ dir'[Partial(q)] =
                    IF q = p /\ kind[p] = "build" THEN file ELSE dir[Partial(q)]
             /\ dir'[Restoring(q)] =
                    IF q = p /\ kind[p] = "rollback" THEN file ELSE dir[Restoring(q)]
    <2>1. {Failed(q), Partial(q), Restoring(q)} \subseteq Names \ Stamped
        BY ProcessNames
    <2>2. CASE kind[p] = "build"
        BY <1>1, <2>1, <2>2, CopyName, ProcessNames
    <2>3. CASE kind[p] = "deploy"
        BY <1>1, <2>1, <2>3, CopyName, StampedNames
    <2>4. CASE kind[p] = "rollback"
        BY <1>1, <2>1, <2>4, CopyName, ProcessNames
    <2> QED BY <2>2, <2>3, <2>4, CopyName
<1>4. ASSUME NEW t \in 0..MaxTime
      PROVE  dir'[Backup(t)] =
                IF kind[p] = "deploy" /\ t = timestamp[p] THEN file ELSE dir[Backup(t)]
    <2>1. Backup(t) \in Names /\ Backup(t) \in Stamped
        BY StampedNames
    <2>2. CASE kind[p] = "deploy"
        BY <1>1, <2>1, <2>2, CopyName, StampedNames
    <2>3. CASE kind[p] # "deploy"
        BY <1>1, <2>1, <2>3, CopyName, ProcessNames
    <2> QED BY <2>2, <2>3
<1> QED BY <1>1, <1>2, <1>3, <1>4

(* Two deployments that back up under one name are of one second.             *)
LEMMA SharedBackup ==
    ASSUME NEW p \in Scripts, NEW q \in Scripts, p # q, pc[p] # "new", pc[q] # "new",
           kind[p] = "deploy", kind[q] = "deploy", timestamp[p] = timestamp[q]
    PROVE  SameSecond
BY DEF SameSecond

(* A copy is complete.                                                      *)
LEMMA EndCopyStep ==
    ASSUME ShellInv, NEW p \in Scripts, EndCopy(p)
    PROVE  ShellInv'
<1>0. /\ ShellTypeOK /\ PlaceInv /\ UseInv /\ BuildInv /\ RestoreInv /\ BackupInv
      /\ RaceInv /\ VersionInv /\ HalfInv /\ PriorInv /\ FoundInv
      /\ dir[Target].state # "torn"
    BY DEF ShellInv
<1>1. /\ pc[p] = "copying"
      /\ UNCHANGED <<clock, vm, kind, timestamp, source, version, copied, raced, prior,
                     displaced>>
    BY DEF EndCopy, Goto, history
<1>2. /\ pc' = [pc EXCEPT ![p] = IF kind[p] = "build" THEN "complete" ELSE "verify"]
      /\ dir' = [dir EXCEPT ![Copy(p)] = copied[p]]
      /\ open' = [open EXCEPT ![p] = NoFile]
    BY DEF EndCopy, Goto
<1>3. PICK to \in {"complete", "verify"} :
        pc' = [pc EXCEPT ![p] = to] /\ (kind[p] = "build" <=> to = "complete")
    BY <1>2
<1>4. \A q \in Scripts : pc'[q] = IF q = p THEN to ELSE pc[q]
    BY <1>0, <1>3 DEF ShellTypeOK
<1>5. \A q \in Scripts : open'[q] = IF q = p THEN NoFile ELSE open[q]
    BY <1>0, <1>2 DEF ShellTypeOK
<1>6. PICK file \in FileType :
      /\ file = copied[p] /\ copied[p] # Missing /\ copied[p].id = p
      /\ kind[p] \in {"build", "deploy", "rollback"} /\ timestamp[p] \in 0..MaxTime
    BY <1>0, <1>1, CopyName DEF PlaceInv, ShellTypeOK
<1>7. /\ dir' \in [Names -> FileType \cup {Missing}]
      /\ \A name \in Names : dir'[name] = IF name = Copy(p) THEN file ELSE dir[name]
      /\ dir'[Target] = dir[Target]
      /\ \A name \in Aways : dir'[name] = dir[name]
      /\ \A q \in Scripts :
            /\ dir'[Failed(q)] = dir[Failed(q)]
            /\ dir'[Partial(q)] =
                    IF q = p /\ kind[p] = "build" THEN file ELSE dir[Partial(q)]
            /\ dir'[Restoring(q)] =
                    IF q = p /\ kind[p] = "rollback" THEN file ELSE dir[Restoring(q)]
      /\ \A t \in 0..MaxTime : dir'[Backup(t)] =
                IF kind[p] = "deploy" /\ t = timestamp[p] THEN file ELSE dir[Backup(t)]
    <2>1. dir' = [dir EXCEPT ![Copy(p)] = file]
        BY <1>2, <1>6
    <2> QED BY <1>0, <2>1, CopyEffect
<1>8. SameSecond => SameSecond'
    BY <1>1, <1>4, SecondStays
<1>9. ~SameSecond' => \A q \in Scripts :
        q # p /\ kind[q] = "deploy" /\ pc[q] # "new" =>
            dir'[Backup(timestamp[q])] = dir[Backup(timestamp[q])]
    BY <1>0, <1>1, <1>7, <1>8, SharedBackup DEF ShellTypeOK
<1>10. \A name \in Names : Exists(name) => dir'[name] # Missing
    BY <1>6, <1>7 DEF Exists
<1>11. ShellTypeOK'
    <2>1. pc' \in [Scripts -> ShellPlaces]
        BY <1>0, <1>3 DEF ShellTypeOK, ShellPlaces, Late
    <2>2. open' \in [Scripts -> {NoFile, Target} \cup Stamped]
        BY <1>0, <1>2 DEF ShellTypeOK
    <2> QED BY <1>0, <1>1, <1>7, <2>1, <2>2 DEF ShellTypeOK
<1>12. PlaceInv'
    <2> SUFFICES ASSUME NEW q \in Scripts
                 PROVE  /\ pc'[q] \in {"complete", "publish"} => kind[q] = "build"
                        /\ pc'[q] \in {"attach", "install", "installing"} => kind[q] = "deploy"
                        /\ pc'[q] \in {"move away", "move in"} => kind[q] = "rollback"
                        /\ pc'[q] = "sum" => kind[q] \in {"build", "deploy"}
                        /\ pc'[q] # "new" /\ kind[q] # "build" =>
                                source[q] \in {Target} \cup Stamped
                        /\ pc'[q] # "new" /\ kind[q] = "deploy" => source[q] = Target
                        /\ pc'[q] \in Early => copied[q] = Missing
                        /\ pc'[q] = "copying" => copied[q] # Missing
                        /\ copied[q] # Missing => copied[q].id = q
        BY <1>1 DEF PlaceInv
    <2>1. CASE q = p
        <3>1. pc[p] # "new" /\ pc'[p] # "new" /\ pc'[p] \notin Early
            BY <1>1, <1>3, <1>4 DEF Early
        <3>2. /\ kind[p] # "build" => source[p] \in {Target} \cup Stamped
              /\ kind[p] = "deploy" => source[p] = Target
            BY <1>0, <3>1 DEF PlaceInv
        <3> QED BY <1>3, <1>4, <1>6, <2>1, <3>1, <3>2
    <2>2. CASE q # p
        <3>1. pc'[q] = pc[q] /\ copied'[q] = copied[q]
            BY <1>1, <1>4, <2>2
        <3> QED BY <1>0, <1>1, <3>1 DEF PlaceInv
    <2> QED BY <2>1, <2>2
<1>13. UseInv'
    BY <1>0, <1>1, <1>4, <1>5, <1>10, StampedNames DEF UseInv, Exists, ShellTypeOK
<1>14. BuildInv'
    <2> SUFFICES ASSUME NEW q \in Scripts, kind[q] = "build"
                 PROVE  /\ pc'[q] \in {"copying", "complete", "verify", "publish"} =>
                                dir'[Partial(q)].id = q
                        /\ pc'[q] \in {"verify", "publish"} => dir'[Partial(q)].state = "whole"
                        /\ pc'[q] = "failed" /\ copied[q] # Missing => dir'[Failed(q)].id = q
        BY <1>1 DEF BuildInv
    <2>1. CASE q = p
        BY <1>3, <1>4, <1>6, <1>7, <2>1
    <2>2. CASE q # p
        BY <1>0, <1>4, <1>7, <2>2 DEF BuildInv
    <2> QED BY <2>1, <2>2
<1>15. RestoreInv'
    <2> SUFFICES ASSUME NEW q \in Scripts, kind[q] = "rollback",
                        pc'[q] \in {"verify", "move away", "move in"}
                 PROVE  /\ dir'[Restoring(q)] = copied[q] /\ copied[q] # Missing
                        /\ pc'[q] \in {"move away", "move in"} => copied[q].state # "torn"
        BY <1>1 DEF RestoreInv
    <2>1. CASE q = p
        BY <1>3, <1>4, <1>6, <1>7, <2>1
    <2>2. CASE q # p
        BY <1>0, <1>4, <1>7, <2>2 DEF RestoreInv
    <2> QED BY <2>1, <2>2
<1>16. BackupInv'
    <2> SUFFICES ASSUME NEW q \in Scripts, kind[q] = "deploy"
                 PROVE  /\ pc'[q] = "copying" => dir'[Backup(timestamp[q])] # Missing
                        /\ pc'[q] \in Late /\ ~SameSecond' =>
                                dir'[Backup(timestamp[q])] = copied[q]
        BY <1>1 DEF BackupInv, Exists
    <2>1. CASE q = p
        BY <1>3, <1>4, <1>6, <1>7, <2>1
    <2>2. CASE q # p
        <3>1. pc'[q] = "copying" => dir'[Backup(timestamp[q])] # Missing
            BY <1>0, <1>4, <1>10, <2>2, StampedNames DEF BackupInv, ShellTypeOK
        <3>2. pc'[q] \in Late /\ ~SameSecond' => dir'[Backup(timestamp[q])] = copied[q]
            BY <1>0, <1>4, <1>8, <1>9, <2>2 DEF BackupInv, Late
        <3> QED BY <3>1, <3>2
    <2> QED BY <2>1, <2>2
<1>17. RaceInv'
    BY <1>0, <1>1, <1>3, <1>4, <1>5, <1>7 DEF RaceInv, SameContent
<1>18. VersionInv'
    BY <1>0, <1>1, <1>6, <1>7 DEF VersionInv
<1>19. HalfInv'
    <2>1. ASSUME NEW name \in Lasting, dir'[name].state = "half"
          PROVE prior[dir'[name].v] # Missing
        <3>1. CASE name # Copy(p)
            BY <1>0, <1>7, <2>1, <3>1, LastingNames DEF HalfInv
        <3>2. CASE name = Copy(p)
            BY <1>0, <1>6, <1>7, <2>1, <3>2, LastingNames, CopyName, ProcessNames DEF
               HalfInv
        <3> QED BY <3>1, <3>2
    <2> QED BY <1>0, <1>1, <2>1 DEF HalfInv
<1>20. PriorInv'
    BY <1>0, <1>1, <1>3, <1>4, <1>8, <1>9, PriorStays DEF Early
<1>22. FoundInv'
    <2>1. \A name \in Stamped : dir'[name] # Missing => dir[name] # Missing
        <3>1. ASSUME NEW name \in Stamped, name = Copy(p) PROVE dir[name] # Missing
            BY <1>0, <1>1, <1>6, <3>1, CopyName, ProcessNames DEF BackupInv, Exists
        <3> QED BY <1>7, <3>1, StampedNames
    <2> QED BY <1>0, <1>1, <1>3, <1>4, <1>7, <2>1, FoundStays, StampedNames DEF ShellTypeOK
<1>23. dir'[Target].state # "torn"
    BY <1>0, <1>7
<1> QED BY <1>11, <1>12, <1>13, <1>14, <1>15, <1>16, <1>17, <1>18, <1>19, <1>20, <1>22, <1>23
    DEF ShellInv

(* A copy is begun.                                                         *)
LEMMA BeginCopyStep ==
    ASSUME ShellInv, NEW p \in Scripts, BeginCopy(p)
    PROVE  ShellInv'
<1>0. /\ ShellTypeOK /\ PlaceInv /\ UseInv /\ BuildInv /\ RestoreInv /\ BackupInv
      /\ RaceInv /\ VersionInv /\ HalfInv /\ PriorInv /\ FoundInv
      /\ dir[Target].state # "torn"
    BY DEF ShellInv
<1>1. /\ pc[p] = "copy"
      /\ UNCHANGED <<clock, vm, kind, timestamp, source, prior, displaced>>
    BY DEF BeginCopy, Goto
<1>2. /\ pc' = [pc EXCEPT ![p] = "copying"]
      /\ raced' = [raced EXCEPT ![p] = FALSE]
    BY DEF BeginCopy, Goto
<1>3. kind[p] \in {"build", "deploy", "rollback"} /\ timestamp[p] \in 0..MaxTime
    BY <1>0, CopyName
<1>4. PICK file \in FileType, copy \in FileType :
        /\ dir' = [dir EXCEPT ![Copy(p)] = file]
        /\ copied' = [copied EXCEPT ![p] = copy]
        /\ file.state = "torn" /\ file.id = p /\ copy.id = p
        /\ file.v = copy.v /\ file.v <= version'
        /\ version' \in 0..MaxVersion /\ version <= version'
        /\ kind[p] = "build" => open' = open
        /\ kind[p] # "build" =>
                /\ open' = [open EXCEPT ![p] = source[p]]
                /\ source[p] \in {Target} \cup Stamped
                /\ dir[source[p]] # Missing /\ ~Written(source[p])
                /\ copy.v = dir[source[p]].v /\ copy.state = dir[source[p]].state
    <2>1. CASE kind[p] = "build"
        <3>1. /\ version' = version + 1 /\ version < MaxVersion
              /\ dir' = [dir EXCEPT ![Copy(p)] = Image(p, version + 1, "torn")]
              /\ copied' = [copied EXCEPT ![p] = Image(p, version + 1, "half")]
              /\ open' = open
            BY <2>1 DEF BeginCopy, NewContent
        <3>2. version' \in 0..MaxVersion /\ version <= version' /\ version + 1 <= version'
            BY <1>0, <3>1, ImagesAssumption DEF ShellTypeOK
        <3>3. /\ Image(p, version + 1, "torn") \in FileType
              /\ Image(p, version + 1, "half") \in FileType
              /\ Image(p, version + 1, "torn").id = p /\ Image(p, version + 1, "half").id = p
              /\ Image(p, version + 1, "torn").v = version + 1
              /\ Image(p, version + 1, "torn").state = "torn"
              /\ Image(p, version + 1, "half").v = version + 1
            BY <3>1, <3>2 DEF Image, FileType
        <3> QED BY <2>1, <3>1, <3>2, <3>3
    <2>2. CASE kind[p] # "build"
        <3>1. /\ dir[source[p]] # Missing /\ ~Written(source[p])
              /\ dir' = [dir EXCEPT ![Copy(p)] = Image(p, dir[source[p]].v, "torn")]
              /\ copied' = [copied EXCEPT ![p] = [dir[source[p]] EXCEPT !.id = p]]
              /\ open' = [open EXCEPT ![p] = source[p]]
              /\ version' = version
            BY <2>2 DEF BeginCopy, Exists
        <3>2. source[p] \in {Target} \cup Stamped /\ source[p] \in Names
            BY <1>0, <1>1, <2>2, StampedNames DEF PlaceInv
        <3>3. dir[source[p]] \in FileType /\ dir[source[p]].v <= version
            BY <1>0, <3>1, <3>2 DEF ShellTypeOK, VersionInv
        <3>4. /\ Image(p, dir[source[p]].v, "torn") \in FileType
              /\ Image(p, dir[source[p]].v, "torn").id = p
              /\ Image(p, dir[source[p]].v, "torn").v = dir[source[p]].v
              /\ Image(p, dir[source[p]].v, "torn").state = "torn"
            BY <3>3 DEF Image, FileType
        <3>5. /\ [dir[source[p]] EXCEPT !.id = p] \in FileType
              /\ [dir[source[p]] EXCEPT !.id = p].id = p
              /\ [dir[source[p]] EXCEPT !.id = p].v = dir[source[p]].v
              /\ [dir[source[p]] EXCEPT !.id = p].state = dir[source[p]].state
            BY <3>3 DEF FileType
        <3>6. version' \in 0..MaxVersion /\ version <= version'
            BY <1>0, <3>1, ImagesAssumption DEF ShellTypeOK
        <3> QED BY <2>2, <3>1, <3>2, <3>3, <3>4, <3>5, <3>6
    <2> QED BY <2>1, <2>2
<1>5. \A q \in Scripts :
        /\ pc'[q] = IF q = p THEN "copying" ELSE pc[q]
        /\ raced'[q] = IF q = p THEN FALSE ELSE raced[q]
        /\ copied'[q] = IF q = p THEN copy ELSE copied[q]
    BY <1>0, <1>2, <1>4 DEF ShellTypeOK
<1>6. \A q \in Scripts : open'[q] = open[q] \/ (q = p /\ kind[p] # "build" /\ open'[q] = source[p])
    BY <1>0, <1>4 DEF ShellTypeOK
<1>7. /\ dir' \in [Names -> FileType \cup {Missing}]
      /\ \A name \in Names : dir'[name] = IF name = Copy(p) THEN file ELSE dir[name]
      /\ dir'[Target] = dir[Target]
      /\ \A name \in Aways : dir'[name] = dir[name]
      /\ \A q \in Scripts :
            /\ dir'[Failed(q)] = dir[Failed(q)]
            /\ dir'[Partial(q)] =
                    IF q = p /\ kind[p] = "build" THEN file ELSE dir[Partial(q)]
            /\ dir'[Restoring(q)] =
                    IF q = p /\ kind[p] = "rollback" THEN file ELSE dir[Restoring(q)]
      /\ \A t \in 0..MaxTime : dir'[Backup(t)] =
                IF kind[p] = "deploy" /\ t = timestamp[p] THEN file ELSE dir[Backup(t)]
    BY <1>0, <1>4, CopyEffect
<1>8. SameSecond => SameSecond'
    BY <1>1, <1>5, SecondStays
<1>9. ~SameSecond' => \A q \in Scripts :
        q # p /\ kind[q] = "deploy" /\ pc[q] # "new" =>
            dir'[Backup(timestamp[q])] = dir[Backup(timestamp[q])]
    BY <1>0, <1>1, <1>7, <1>8, SharedBackup DEF ShellTypeOK
<1>10. file # Missing /\ copy # Missing /\ \A name \in Names : Exists(name) =>
            dir'[name] # Missing
    BY <1>4, <1>7, NoFileType DEF Exists
<1>11. ShellTypeOK'
    <2>1. pc' \in [Scripts -> ShellPlaces] /\ raced' \in [Scripts -> BOOLEAN]
        BY <1>0, <1>2 DEF ShellTypeOK, ShellPlaces
    <2>2. open' \in [Scripts -> {NoFile, Target} \cup Stamped]
        BY <1>0, <1>4 DEF ShellTypeOK
    <2>3. copied' \in [Scripts -> FileType \cup {Missing}] /\ version' \in 0..MaxVersion
        BY <1>0, <1>4 DEF ShellTypeOK
    <2> QED BY <1>0, <1>1, <1>7, <2>1, <2>2, <2>3 DEF ShellTypeOK
<1>12. PlaceInv'
    <2> SUFFICES ASSUME NEW q \in Scripts
                 PROVE  /\ pc'[q] \in {"complete", "publish"} => kind[q] = "build"
                        /\ pc'[q] \in {"attach", "install", "installing"} => kind[q] = "deploy"
                        /\ pc'[q] \in {"move away", "move in"} => kind[q] = "rollback"
                        /\ pc'[q] = "sum" => kind[q] \in {"build", "deploy"}
                        /\ pc'[q] # "new" /\ kind[q] # "build" =>
                                source[q] \in {Target} \cup Stamped
                        /\ pc'[q] # "new" /\ kind[q] = "deploy" => source[q] = Target
                        /\ pc'[q] \in Early => copied'[q] = Missing
                        /\ pc'[q] = "copying" => copied'[q] # Missing
                        /\ copied'[q] # Missing => copied'[q].id = q
        BY <1>1 DEF PlaceInv
    <2>1. CASE q = p
        <3>1. pc[p] # "new" /\ pc'[p] # "new" /\ pc'[p] \notin Early
            BY <1>1, <1>5 DEF Early
        <3>2. /\ kind[p] # "build" => source[p] \in {Target} \cup Stamped
              /\ kind[p] = "deploy" => source[p] = Target
            BY <1>0, <3>1 DEF PlaceInv
        <3> QED BY <1>4, <1>5, <1>10, <2>1, <3>1, <3>2
    <2>2. CASE q # p
        <3>1. pc'[q] = pc[q] /\ copied'[q] = copied[q]
            BY <1>5, <2>2
        <3> QED BY <1>0,  <3>1 DEF PlaceInv
    <2> QED BY <2>1, <2>2
<1>13. UseInv'
    <2>1. vm # NoFile => dir'[vm] # Missing
        BY <1>0, <1>10, StampedNames DEF UseInv, ShellTypeOK
    <2>2. ASSUME NEW q \in Scripts, open'[q] # NoFile PROVE dir'[open'[q]] # Missing
        <3>1. CASE open'[q] = open[q]
            <4>1. open[q] \in Names /\ Exists(open[q])
                BY <1>0, <2>2, <3>1, StampedNames DEF UseInv, ShellTypeOK
            <4> QED BY <1>10, <3>1, <4>1
        <3>2. CASE kind[p] # "build" /\ open'[q] = source[p]
            BY <1>4, <1>10, <3>2, StampedNames DEF Exists
        <3> QED BY <1>6, <3>1, <3>2
    <2>3. ASSUME NEW q \in Scripts, pc'[q] \in {"install", "installing"}
          PROVE  open'[q] \in {NoFile, Target} \cup Aways
        BY <1>0, <1>5, <1>6, <2>3 DEF UseInv
    <2> QED BY <1>1, <2>1, <2>2, <2>3 DEF UseInv, Exists
<1>14. BuildInv'
    <2> SUFFICES ASSUME NEW q \in Scripts, kind[q] = "build"
                 PROVE  /\ pc'[q] \in {"copying", "complete", "verify", "publish"} =>
                                dir'[Partial(q)].id = q
                        /\ pc'[q] \in {"verify", "publish"} => dir'[Partial(q)].state = "whole"
                        /\ pc'[q] = "failed" /\ copied'[q] # Missing => dir'[Failed(q)].id = q
        BY <1>1 DEF BuildInv
    <2>1. CASE q = p
        BY <1>4, <1>5, <1>7, <2>1
    <2>2. CASE q # p
        BY <1>0, <1>5, <1>7, <2>2 DEF BuildInv
    <2> QED BY <2>1, <2>2
<1>15. RestoreInv'
    <2> SUFFICES ASSUME NEW q \in Scripts, kind[q] = "rollback",
                        pc'[q] \in {"verify", "move away", "move in"}
                 PROVE  /\ dir'[Restoring(q)] = copied'[q] /\ copied'[q] # Missing
                        /\ pc'[q] \in {"move away", "move in"} => copied'[q].state # "torn"
        BY <1>1 DEF RestoreInv
    <2>1. CASE q = p
        BY <1>5, <1>7, <2>1
    <2>2. CASE q # p
        BY <1>0, <1>5, <1>7, <2>2 DEF RestoreInv
    <2> QED BY <2>1, <2>2
<1>16. BackupInv'
    <2> SUFFICES ASSUME NEW q \in Scripts, kind[q] = "deploy"
                 PROVE  /\ pc'[q] = "copying" => dir'[Backup(timestamp[q])] # Missing
                        /\ pc'[q] \in Late /\ ~SameSecond' =>
                                dir'[Backup(timestamp[q])] = copied'[q]
        BY <1>1 DEF BackupInv, Exists
    <2>1. CASE q = p
        BY <1>3, <1>5, <1>7, <1>10, <2>1 DEF Late
    <2>2. CASE q # p
        <3>1. pc'[q] = "copying" => dir'[Backup(timestamp[q])] # Missing
            BY <1>0, <1>5, <1>10, <2>2, StampedNames DEF BackupInv, ShellTypeOK
        <3>2. pc'[q] \in Late /\ ~SameSecond' => dir'[Backup(timestamp[q])] = copied'[q]
            BY <1>0, <1>5, <1>8, <1>9, <2>2 DEF BackupInv, Late
        <3> QED BY <3>1, <3>2
    <2> QED BY <2>1, <2>2
<1>17. RaceInv'
    <2> SUFFICES ASSUME NEW q \in Scripts, kind[q] = "deploy", ~raced'[q],
                        pc'[q] \in {"copying", "verify", "sum", "attach", "install"}
                 PROVE  /\ SameContent(dir'[Target], copied'[q])
                        /\ \A r \in Scripts : ~(pc'[r] = "installing" /\ open'[r] = Target)
                        /\ pc'[q] = "install" => open'[q] \in {NoFile, Target}
        BY <1>1 DEF RaceInv, SameContent
    <2>1. CASE q = p
        <3>1. source[p] = Target
            BY <1>0, <1>1, <2>1 DEF PlaceInv
        <3>2. \A r \in Scripts : open[r] = Target => pc[r] = "copying"
            BY <1>4, <2>1, <3>1 DEF Written
        <3>3. SameContent(dir'[Target], copied'[q])
            <4>1. copy.v = dir[Target].v /\ copy.state = dir[Target].state
                BY <1>4, <2>1, <3>1
            <4>2. dir'[Target] = dir[Target] /\ copied'[q] = copy
                BY <1>5, <1>7, <2>1
            <4> QED BY <4>1, <4>2 DEF SameContent
        <3>4. ASSUME NEW r \in Scripts, pc'[r] = "installing", open'[r] = Target
              PROVE FALSE
            BY <1>5, <1>6, <3>2, <3>4
        <3> QED BY <1>5, <2>1, <3>3, <3>4
    <2>2. CASE q # p
        <3>1. /\ pc'[q] = pc[q] /\ raced'[q] = raced[q] /\ copied'[q] = copied[q]
              /\ open'[q] = open[q]
            BY <1>5, <1>6, <2>2
        <3>2. /\ SameContent(dir[Target], copied[q])
              /\ \A r \in Scripts : ~(pc[r] = "installing" /\ open[r] = Target)
              /\ pc[q] = "install" => open[q] \in {NoFile, Target}
            BY <1>0, <3>1 DEF RaceInv
        <3>3. \A r \in Scripts : pc'[r] = "installing" =>
                    pc[r] = "installing" /\ open'[r] = open[r]
            BY <1>5, <1>6
        <3> QED BY <1>7, <3>1, <3>2, <3>3 DEF SameContent
    <2> QED BY <2>1, <2>2
<1>18. VersionInv'
    <2>1. \A name \in Names : dir'[name].v <= version'
        <3>1. \A name \in Names : dir[name].v \in Int /\ version \in Int /\ version' \in Int
            BY <1>0, <1>4, NoFileType DEF ShellTypeOK, FileType
        <3> QED BY <1>0, <1>4, <1>7, <3>1 DEF VersionInv
    <2>2. \A q \in Scripts : copied'[q].v <= version'
        <3>1. \A q \in Scripts : copied[q].v \in Int /\ version \in Int /\ version' \in Int
            BY <1>0, <1>4, NoFileType DEF ShellTypeOK, FileType
        <3> QED BY <1>0, <1>4, <1>5, <3>1 DEF VersionInv
    <2> QED BY <2>1, <2>2 DEF VersionInv
<1>19. HalfInv'
    <2>1. ASSUME NEW name \in Lasting, dir'[name].state = "half"
          PROVE prior[dir'[name].v] # Missing
        <3>1. CASE name # Copy(p)
            BY <1>0, <1>7, <2>1, <3>1, LastingNames DEF HalfInv
        <3>2. CASE name = Copy(p)
            BY <1>4, <1>7, <2>1, <3>2, LastingNames
        <3> QED BY <3>1, <3>2
    <2>2. ASSUME NEW q \in Scripts, kind[q] # "build", copied'[q].state = "half"
          PROVE  prior[copied'[q].v] # Missing
        BY <1>0, <1>4, <1>5, <2>2, LastingNames DEF HalfInv
    <2> QED BY <1>1, <2>1, <2>2 DEF HalfInv
<1>20. PriorInv'
    BY <1>0, <1>1, <1>5, <1>8, <1>9, PriorStays DEF Early
<1>22. FoundInv'
    <2>1. dir[Target] = Missing => \A name \in Stamped : dir'[name] # Missing =>
                dir[name] # Missing
        <3>1. ASSUME NEW name \in Stamped, name = Copy(p) PROVE dir[Target] # Missing
            <4>1. kind[p] = "deploy"
                BY <1>0, <1>3, <3>1, CopyName, ProcessNames
            <4> QED BY <1>0, <1>1, <1>4, <4>1 DEF PlaceInv
        <3> QED BY <1>7, <3>1, StampedNames
    <2> QED BY <1>0, <1>1, <1>5, <1>7, <2>1, FoundStays, StampedNames DEF ShellTypeOK
<1>23. dir'[Target].state # "torn"
    BY <1>0, <1>7
<1> QED BY <1>11, <1>12, <1>13, <1>14, <1>15, <1>16, <1>17, <1>18, <1>19, <1>20, <1>22, <1>23
    DEF ShellInv

-----------------------------------------------------------------------------
(* The steps that rename a file.                                             *)

(* A name that is renamed takes those with it who have the file open.          *)
LEMMA RenameEffect ==
    ASSUME ShellTypeOK, NEW from \in Names, NEW to \in Names, from # to, Rename(from, to)
    PROVE  /\ dir' \in [Names -> FileType \cup {Missing}]
           /\ dir'[to] = dir[from] /\ dir'[from] = Missing
           /\ \A name \in Names : name \notin {from, to} => dir'[name] = dir[name]
           /\ vm' = IF vm = from THEN to ELSE IF vm = to THEN NoFile ELSE vm
           /\ open' \in [Scripts -> {NoFile, Target} \cup Stamped \cup {to}]
           /\ \A q \in Scripts : open'[q] =
                IF open[q] = from THEN to ELSE IF open[q] = to THEN NoFile ELSE open[q]
<1>1. /\ dir' = [dir EXCEPT ![to] = dir[from], ![from] = Missing]
      /\ vm' = IF vm = from THEN to ELSE IF vm = to THEN NoFile ELSE vm
      /\ open' = [q \in Scripts |->
            IF open[q] = from THEN to ELSE IF open[q] = to THEN NoFile ELSE open[q]]
    BY DEF Rename
<1>2. /\ dir' \in [Names -> FileType \cup {Missing}]
      /\ dir'[to] = dir[from] /\ dir'[from] = Missing
      /\ \A name \in Names : name \notin {from, to} => dir'[name] = dir[name]
    BY <1>1 DEF ShellTypeOK
<1>3. /\ open' \in [Scripts -> {NoFile, Target} \cup Stamped \cup {to}]
      /\ \A q \in Scripts : open'[q] =
            IF open[q] = from THEN to ELSE IF open[q] = to THEN NoFile ELSE open[q]
    BY <1>1 DEF ShellTypeOK
<1> QED BY <1>1, <1>2, <1>3

(* A script puts the image it made in the target's place.                      *)
LEMMA PutInPlace ==
    ASSUME ShellInv, NEW p \in Scripts,
           NEW from \in {Partial(p), Restoring(p)}, NEW to \in {"sum", "done"},
           Rename(from, Target), Race(p), pc' = [pc EXCEPT ![p] = to],
           UNCHANGED <<clock, kind, timestamp, source, version, copied, prior, displaced>>,
           dir[from] # Missing, dir[from].state # "torn",
           dir[from].state = "half" => prior[dir[from].v] # Missing,
           pc[p] # "new", kind[p] = "deploy" => FALSE,
           kind[p] = "build" => from = Partial(p),
           kind[p] = "rollback" => from = Restoring(p) /\ to = "done"
    PROVE  ShellInv'
<1>0. /\ ShellTypeOK /\ PlaceInv /\ UseInv /\ BuildInv /\ RestoreInv /\ BackupInv
      /\ RaceInv /\ VersionInv /\ HalfInv /\ PriorInv /\ FoundInv
      /\ dir[Target].state # "torn"
    BY DEF ShellInv
<1>1. /\ from \in Names \ ({Target, NoFile} \cup Stamped) /\ Target \in Names
      /\ dir[from] \in FileType /\ kind[p] \in {"build", "rollback"}
    <2>1. from \in Names \ ({Target, NoFile} \cup Stamped) /\ Target \in Names
        BY ProcessNames, StampedNames
    <2> QED BY <1>0, <2>1, CopyName DEF ShellTypeOK
<1>2. /\ dir' \in [Names -> FileType \cup {Missing}]
      /\ dir'[Target] = dir[from] /\ dir'[from] = Missing
      /\ \A name \in Names : name \notin {from, Target} => dir'[name] = dir[name]
      /\ vm' = IF vm = Target THEN NoFile ELSE vm
      /\ open' \in [Scripts -> {NoFile, Target} \cup Stamped]
      /\ \A q \in Scripts : open'[q] = IF open[q] = Target THEN NoFile ELSE open[q]
    <2>1. /\ dir' \in [Names -> FileType \cup {Missing}]
          /\ dir'[Target] = dir[from] /\ dir'[from] = Missing
          /\ \A name \in Names : name \notin {from, Target} => dir'[name] = dir[name]
          /\ vm' = IF vm = from THEN Target ELSE IF vm = Target THEN NoFile ELSE vm
          /\ open' \in [Scripts -> {NoFile, Target} \cup Stamped \cup {Target}]
          /\ \A q \in Scripts : open'[q] =
                IF open[q] = from THEN Target ELSE IF open[q] = Target THEN NoFile ELSE open[q]
        BY <1>0, <1>1, RenameEffect
    <2>2. vm # from /\ \A q \in Scripts : open[q] # from
        BY <1>0, <1>1, StampedNames DEF ShellTypeOK
    <2> QED BY <2>1, <2>2
<1>3. /\ \A name \in Stamped : dir'[name] = dir[name]
      /\ \A t \in 0..MaxTime :
            dir'[Backup(t)] = dir[Backup(t)] /\ dir'[Displaced(t)] = dir[Displaced(t)]
    <2>1. \A name \in Stamped : dir'[name] = dir[name]
        BY <1>1, <1>2, StampedNames
    <2> QED BY <2>1, StampedNames
<1>4. \A q \in Scripts :
        /\ dir'[Failed(q)] = dir[Failed(q)]
        /\ q # p => dir'[Partial(q)] = dir[Partial(q)] /\ dir'[Restoring(q)] = dir[Restoring(q)]
        /\ dir'[Restoring(q)] \in {Missing, dir[Restoring(q)]}
    <2> SUFFICES ASSUME NEW q \in Scripts
                 PROVE  /\ dir'[Failed(q)] = dir[Failed(q)]
                        /\ q # p => /\ dir'[Partial(q)] = dir[Partial(q)]
                                    /\ dir'[Restoring(q)] = dir[Restoring(q)]
                        /\ dir'[Restoring(q)] \in {Missing, dir[Restoring(q)]}
        OBVIOUS
    <2>1. {Partial(q), Failed(q), Restoring(q)} \subseteq Names \ {Target}
        BY ProcessNames
    <2>2. /\ Failed(q) # from
          /\ q # p => Partial(q) # from /\ Restoring(q) # from
        BY ProcessNames
    <2> QED BY <1>2, <2>1, <2>2
<1>5. \A q \in Scripts :
        /\ pc'[q] = IF q = p THEN to ELSE pc[q]
        /\ q # p => raced'[q]
    BY <1>0 DEF ShellTypeOK, Race
<1>6. SameSecond => SameSecond'
    BY <1>5, SecondStays
<1>7. ShellTypeOK'
    <2>1. pc' \in [Scripts -> ShellPlaces]
        BY <1>0 DEF ShellTypeOK, ShellPlaces, Late
    <2>2. raced' \in [Scripts -> BOOLEAN]
        BY <1>0 DEF Race, ShellTypeOK
    <2>3. vm' \in {NoFile, Target} \cup Aways
        BY <1>0, <1>2 DEF ShellTypeOK
    <2> QED BY <1>0, <1>2, <2>1, <2>2, <2>3 DEF ShellTypeOK
<1>8. PlaceInv'
    <2>1. kind[p] # "build" => source[p] \in {Target} \cup Stamped
        BY <1>0 DEF PlaceInv
    <2> SUFFICES ASSUME NEW q \in Scripts
                 PROVE  /\ pc'[q] \in {"complete", "publish"} => kind[q] = "build"
                        /\ pc'[q] \in {"attach", "install", "installing"} => kind[q] = "deploy"
                        /\ pc'[q] \in {"move away", "move in"} => kind[q] = "rollback"
                        /\ pc'[q] = "sum" => kind[q] \in {"build", "deploy"}
                        /\ pc'[q] # "new" /\ kind[q] # "build" =>
                                source[q] \in {Target} \cup Stamped
                        /\ pc'[q] # "new" /\ kind[q] = "deploy" => source[q] = Target
                        /\ pc'[q] \in Early => copied[q] = Missing
                        /\ pc'[q] = "copying" => copied[q] # Missing
                        /\ copied[q] # Missing => copied[q].id = q
        BY DEF PlaceInv
    <2>2. CASE q = p
        <3>1. copied[p] # Missing => copied[p].id = p
            BY <1>0 DEF PlaceInv
        <3> QED BY <1>1, <1>5, <2>1, <2>2, <3>1 DEF Early
    <2>3. CASE q # p
        <3>1. pc'[q] = pc[q]
            BY <1>5, <2>3
        <3> QED BY <1>0, <3>1 DEF PlaceInv
    <2> QED BY <2>2, <2>3
<1>9. UseInv'
    <2>1. vm' # NoFile => dir'[vm'] # Missing
        BY <1>0, <1>2, <1>3, StampedNames DEF UseInv, ShellTypeOK, Exists
    <2>2. ASSUME NEW q \in Scripts, open'[q] # NoFile PROVE dir'[open'[q]] # Missing
        <3>1. open'[q] = open[q] /\ open[q] \in Stamped
            BY <1>0, <1>2, <2>2 DEF ShellTypeOK
        <3> QED BY <1>0, <1>3, <2>2, <3>1 DEF UseInv, Exists
    <2>3. ASSUME NEW q \in Scripts, pc'[q] \in {"install", "installing"}
          PROVE  open'[q] \in {NoFile, Target} \cup Aways
        BY <1>0, <1>2, <1>5, <2>3 DEF UseInv
    <2> QED BY <2>1, <2>2, <2>3 DEF UseInv, Exists
<1>10. BuildInv'
    BY <1>0, <1>4, <1>5 DEF BuildInv
<1>11. RestoreInv'
    BY <1>0, <1>4, <1>5 DEF RestoreInv
<1>12. BackupInv'
    <2> SUFFICES ASSUME NEW q \in Scripts, kind[q] = "deploy"
                 PROVE  /\ pc'[q] = "copying" => dir'[Backup(timestamp[q])] # Missing
                        /\ pc'[q] \in Late /\ ~SameSecond' =>
                                dir'[Backup(timestamp[q])] = copied[q]
        BY DEF BackupInv, Exists
    <2>1. pc'[q] = pc[q]
        BY <1>1, <1>5
    <2>2. dir'[Backup(timestamp[q])] = dir[Backup(timestamp[q])]
        BY <1>0, <1>3 DEF ShellTypeOK
    <2> QED BY <1>0, <1>6, <2>1, <2>2 DEF BackupInv, Exists
<1>13. RaceInv'
    BY <1>1, <1>5 DEF RaceInv
<1>14. VersionInv'
    <2>1. \A name \in Names : dir'[name] \in {Missing, dir[from], dir[name]}
        BY <1>2
    <2>2. version \in Nat /\ Missing.v <= version
        BY <1>0, NoFileType, ImagesAssumption DEF ShellTypeOK
    <2> QED BY <1>0, <1>1, <2>1, <2>2 DEF VersionInv
<1>15. HalfInv'
    <2>1. ASSUME NEW name \in Lasting, dir'[name].state = "half"
          PROVE prior[dir'[name].v] # Missing
        <3>1. CASE name = Target
            BY <1>2, <2>1, <3>1
        <3>2. CASE name \in Stamped
            BY <1>0, <1>3, <2>1, <3>2 DEF HalfInv
        <3>3. CASE \E q \in Scripts : name = Restoring(q)
            BY <1>0, <1>4, <2>1, <3>3, NoFileType DEF HalfInv
        <3> QED BY <3>1, <3>2, <3>3, LastingNames
    <2> QED BY <1>0, <2>1 DEF HalfInv
<1>16. PriorInv'
    BY <1>0, <1>1, <1>3, <1>5, <1>6, PriorStays DEF ShellTypeOK
<1>18. FoundInv'
    BY <1>2 DEF FoundInv, Exists
<1>19. dir'[Target].state # "torn"
    BY <1>2
<1> QED BY <1>7, <1>8, <1>9, <1>10, <1>11, <1>12, <1>13, <1>14, <1>15, <1>16, <1>18, <1>19
    DEF ShellInv

(* A build is published: its image is whole.                                   *)
LEMMA PublishStep ==
    ASSUME ShellInv, NEW p \in Scripts, Publish(p)
    PROVE  ShellInv'
<1>0. /\ ShellTypeOK /\ PlaceInv /\ UseInv /\ BuildInv /\ RestoreInv /\ BackupInv
      /\ RaceInv /\ VersionInv /\ HalfInv /\ PriorInv /\ FoundInv
      /\ dir[Target].state # "torn"
    BY DEF ShellInv
<1>1. /\ pc[p] = "publish" /\ dir[Partial(p)] # Missing
      /\ pc' = [pc EXCEPT ![p] = "sum"]
      /\ Rename(Partial(p), Target) /\ Race(p)
      /\ UNCHANGED <<clock, kind, timestamp, source, version, copied, prior, displaced>>
    BY DEF Publish, Goto, Exists
<1>2. kind[p] = "build" /\ dir[Partial(p)].state = "whole"
    BY <1>0, <1>1 DEF PlaceInv, BuildInv
<1>3. PICK from \in {Partial(p), Restoring(p)} : from = Partial(p)
    OBVIOUS
<1>4. PICK to \in {"sum", "done"} : to = "sum"
    OBVIOUS
<1> QED BY <1>1, <1>2, <1>3, <1>4, PutInPlace

(* A rollback's image is moved in: it has been found not to be torn.           *)
LEMMA MoveInStep ==
    ASSUME ShellInv, NEW p \in Scripts, MoveIn(p)
    PROVE  ShellInv'
<1>0. /\ ShellTypeOK /\ PlaceInv /\ UseInv /\ BuildInv /\ RestoreInv /\ BackupInv
      /\ RaceInv /\ VersionInv /\ HalfInv /\ PriorInv /\ FoundInv
      /\ dir[Target].state # "torn"
    BY DEF ShellInv
<1>1. /\ pc[p] = "move in" /\ dir[Restoring(p)] # Missing
      /\ pc' = [pc EXCEPT ![p] = "done"]
      /\ Rename(Restoring(p), Target) /\ Race(p)
      /\ UNCHANGED <<clock, kind, timestamp, source, version, copied, prior, displaced>>
    BY DEF MoveIn, Goto, Exists
<1>2. /\ kind[p] = "rollback" /\ dir[Restoring(p)].state # "torn"
      /\ dir[Restoring(p)].state = "half" => prior[dir[Restoring(p)].v] # Missing
    <2>1. kind[p] = "rollback"
        BY <1>0, <1>1 DEF PlaceInv
    <2> QED BY <1>0, <1>1, <2>1 DEF RestoreInv, HalfInv
<1>3. PICK from \in {Partial(p), Restoring(p)} : from = Restoring(p)
    OBVIOUS
<1>4. PICK to \in {"sum", "done"} : to = "done"
    OBVIOUS
<1> QED BY <1>1, <1>2, <1>3, <1>4, PutInPlace

(* A rollback moves the target away: what it found there is under the name it  *)
(* has for it, and what belongs in the target's place under the other.        *)
LEMMA MoveAwayStep ==
    ASSUME ShellInv, NEW p \in Scripts, MoveAway(p)
    PROVE  ShellInv'
<1>0. /\ ShellTypeOK /\ PlaceInv /\ UseInv /\ BuildInv /\ RestoreInv /\ BackupInv
      /\ RaceInv /\ VersionInv /\ HalfInv /\ PriorInv /\ FoundInv
      /\ dir[Target].state # "torn"
    BY DEF ShellInv
<1>1. /\ pc[p] = "move away" /\ dir[Target] # Missing
      /\ Rename(Target, Displaced(timestamp[p])) /\ Race(p)
      /\ UNCHANGED <<clock, kind, timestamp, source, version, copied, prior>>
    BY DEF MoveAway, Goto, Exists
<1>2. /\ pc' = [pc EXCEPT ![p] = "move in"]
      /\ displaced' = [displaced EXCEPT ![p] = dir[Target].id]
    BY DEF MoveAway, Goto
<1>3. PICK away \in Aways : away = Displaced(timestamp[p]) /\ timestamp[p] \in 0..MaxTime
    BY <1>0, StampedNames DEF ShellTypeOK
<1>4. /\ away \in Names /\ away \in Stamped /\ Target \in Names /\ away # Target
      /\ dir[Target] \in FileType /\ kind[p] = "rollback"
    <2>1. away \in Names /\ away \in Stamped /\ Target \in Names /\ away # Target
        BY <1>3, StampedNames
    <2> QED BY <1>0, <1>1, <2>1 DEF ShellTypeOK, PlaceInv
<1>5. /\ dir' \in [Names -> FileType \cup {Missing}]
      /\ dir'[away] = dir[Target] /\ dir'[Target] = Missing
      /\ \A name \in Names : name \notin {away, Target} => dir'[name] = dir[name]
      /\ vm' = IF vm = Target THEN away ELSE IF vm = away THEN NoFile ELSE vm
      /\ open' \in [Scripts -> {NoFile, Target} \cup Stamped \cup {away}]
      /\ \A q \in Scripts : open'[q] =
            IF open[q] = Target THEN away ELSE IF open[q] = away THEN NoFile ELSE open[q]
    <2>1. Rename(Target, away)
        BY <1>1, <1>3
    <2> QED BY <1>0, <1>4, <2>1, RenameEffect
<1>6. /\ \A q \in Scripts :
            /\ pc'[q] = IF q = p THEN "move in" ELSE pc[q]
            /\ displaced'[q] = IF q = p THEN dir[Target].id ELSE displaced[q]
            /\ q # p => raced'[q]
    BY <1>0, <1>1, <1>2 DEF ShellTypeOK, Race
<1>7. /\ \A q \in Scripts :
            /\ dir'[Partial(q)] = dir[Partial(q)] /\ dir'[Failed(q)] = dir[Failed(q)]
            /\ dir'[Restoring(q)] = dir[Restoring(q)]
      /\ \A t \in 0..MaxTime :
            /\ dir'[Backup(t)] = dir[Backup(t)]
            /\ t # timestamp[p] => dir'[Displaced(t)] = dir[Displaced(t)]
    <2>1. ASSUME NEW q \in Scripts
          PROVE  /\ dir'[Partial(q)] = dir[Partial(q)] /\ dir'[Failed(q)] = dir[Failed(q)]
                 /\ dir'[Restoring(q)] = dir[Restoring(q)]
        <3>1. {Partial(q), Failed(q), Restoring(q)} \subseteq Names \ ({Target} \cup Stamped)
            BY ProcessNames
        <3> QED BY <1>4, <1>5, <3>1
    <2>2. ASSUME NEW t \in 0..MaxTime
          PROVE  /\ dir'[Backup(t)] = dir[Backup(t)]
                 /\ t # timestamp[p] => dir'[Displaced(t)] = dir[Displaced(t)]
        <3>1. /\ {Backup(t), Displaced(t)} \subseteq Names \ {Target}
              /\ Backup(t) # away /\ t # timestamp[p] => Displaced(t) # away
            BY <1>3, StampedNames
        <3> QED BY <1>5, <3>1, <1>3, StampedNames
    <2> QED BY <2>1, <2>2
<1>8. SameSecond => SameSecond'
    BY <1>1, <1>6, SecondStays
<1>9. ShellTypeOK'
    <2>1. pc' \in [Scripts -> ShellPlaces] /\ raced' \in [Scripts -> BOOLEAN]
        BY <1>0, <1>1, <1>2 DEF ShellTypeOK, ShellPlaces, Late, Race
    <2>2. vm' \in {NoFile, Target} \cup Aways
        BY <1>0, <1>5 DEF ShellTypeOK
    <2>3. open' \in [Scripts -> {NoFile, Target} \cup Stamped]
        BY <1>4, <1>5
    <2>4. displaced' \in [Scripts -> Scripts \cup {"original", "nobody"}]
        <3>1. dir[Target].id \in Scripts \cup {"original", "nobody"}
            BY <1>4 DEF FileType
        <3> QED BY <1>0, <1>2, <3>1 DEF ShellTypeOK
    <2> QED BY <1>0, <1>1, <1>5, <2>1, <2>2, <2>3, <2>4 DEF ShellTypeOK
<1>10. PlaceInv'
    <2>1. source[p] \in {Target} \cup Stamped
        BY <1>0, <1>1, <1>4 DEF PlaceInv
    <2> SUFFICES ASSUME NEW q \in Scripts
                 PROVE  /\ pc'[q] \in {"complete", "publish"} => kind[q] = "build"
                        /\ pc'[q] \in {"attach", "install", "installing"} => kind[q] = "deploy"
                        /\ pc'[q] \in {"move away", "move in"} => kind[q] = "rollback"
                        /\ pc'[q] = "sum" => kind[q] \in {"build", "deploy"}
                        /\ pc'[q] # "new" /\ kind[q] # "build" =>
                                source[q] \in {Target} \cup Stamped
                        /\ pc'[q] # "new" /\ kind[q] = "deploy" => source[q] = Target
                        /\ pc'[q] \in Early => copied[q] = Missing
                        /\ pc'[q] = "copying" => copied[q] # Missing
                        /\ copied[q] # Missing => copied[q].id = q
        BY <1>1 DEF PlaceInv
    <2>2. CASE q = p
        <3>1. copied[p] # Missing => copied[p].id = p
            BY <1>0 DEF PlaceInv
        <3> QED BY <1>4, <1>6, <2>1, <2>2, <3>1 DEF Early
    <2>3. CASE q # p
        <3>1. pc'[q] = pc[q]
            BY <1>6, <2>3
        <3> QED BY <1>0, <3>1 DEF PlaceInv
    <2> QED BY <2>2, <2>3
<1>11. UseInv'
    <2>1. ASSUME NEW name \in Names, name # Target, dir[name] # Missing
          PROVE dir'[name] # Missing
        BY <1>1, <1>5, <2>1
    <2>2. vm' # NoFile => dir'[vm'] # Missing
        <3>1. vm # NoFile => vm \in Names /\ dir[vm] # Missing
            BY <1>0, StampedNames DEF UseInv, Exists, ShellTypeOK
        <3> QED BY <1>1, <1>5, <2>1, <3>1
    <2>3. ASSUME NEW q \in Scripts, open'[q] # NoFile PROVE dir'[open'[q]] # Missing
        <3>1. open[q] # NoFile => open[q] \in Names /\ dir[open[q]] # Missing
            BY <1>0, StampedNames DEF UseInv, Exists, ShellTypeOK
        <3> QED BY <1>1, <1>5, <2>1, <2>3, <3>1
    <2>4. ASSUME NEW q \in Scripts, pc'[q] \in {"install", "installing"}
          PROVE  open'[q] \in {NoFile, Target} \cup Aways
        BY <1>0, <1>5, <1>6, <2>4 DEF UseInv
    <2> QED BY <2>2, <2>3, <2>4 DEF UseInv, Exists
<1>12. BuildInv'
    <2> SUFFICES ASSUME NEW q \in Scripts, kind[q] = "build"
                 PROVE  /\ pc'[q] \in {"copying", "complete", "verify", "publish"} =>
                                dir'[Partial(q)].id = q
                        /\ pc'[q] \in {"verify", "publish"} => dir'[Partial(q)].state = "whole"
                        /\ pc'[q] = "failed" /\ copied[q] # Missing => dir'[Failed(q)].id = q
        BY <1>1 DEF BuildInv
    <2>1. pc'[q] = pc[q]
        BY <1>4, <1>6
    <2> QED BY <1>0, <1>7, <2>1 DEF BuildInv
<1>13. RestoreInv'
    <2> SUFFICES ASSUME NEW q \in Scripts, kind[q] = "rollback",
                        pc'[q] \in {"verify", "move away", "move in"}
                 PROVE  /\ dir'[Restoring(q)] = copied[q] /\ copied[q] # Missing
                        /\ pc'[q] \in {"move away", "move in"} => copied[q].state # "torn"
        BY <1>1 DEF RestoreInv
    <2>1. pc[q] \in {"verify", "move away", "move in"} /\ (q = p => pc[q] = "move away")
        BY <1>1, <1>6
    <2> QED BY <1>0, <1>6, <1>7, <2>1 DEF RestoreInv
<1>14. BackupInv'
    <2> SUFFICES ASSUME NEW q \in Scripts, kind[q] = "deploy"
                 PROVE  /\ pc'[q] = "copying" => dir'[Backup(timestamp[q])] # Missing
                        /\ pc'[q] \in Late /\ ~SameSecond' =>
                                dir'[Backup(timestamp[q])] = copied[q]
        BY <1>1 DEF BackupInv, Exists
    <2>1. pc'[q] = pc[q]
        BY <1>4, <1>6
    <2>2. dir'[Backup(timestamp[q])] = dir[Backup(timestamp[q])]
        BY <1>0, <1>7 DEF ShellTypeOK
    <2> QED BY <1>0, <1>8, <2>1, <2>2 DEF BackupInv, Exists
<1>15. RaceInv'
    BY <1>1, <1>4, <1>6 DEF RaceInv
<1>16. VersionInv'
    <2>1. \A name \in Names : dir'[name] \in {Missing, dir[Target], dir[name]}
        BY <1>5
    <2>2. version \in Nat /\ Missing.v <= version
        BY <1>0, NoFileType, ImagesAssumption DEF ShellTypeOK
    <2> QED BY <1>0, <1>1, <1>4, <2>1, <2>2 DEF VersionInv
<1>17. HalfInv'
    <2>1. ASSUME NEW name \in Lasting, dir'[name].state = "half"
          PROVE prior[dir'[name].v] # Missing
        <3>1. name \in Names /\ Target \in Lasting
            BY <2>1, LastingNames
        <3>2. dir'[name] \in {Missing, dir[Target], dir[name]}
            BY <1>5, <3>1
        <3> QED BY <1>0, <2>1, <3>1, <3>2, NoFileType DEF HalfInv
    <2> QED BY <1>0, <1>1, <2>1 DEF HalfInv
<1>18. PriorInv'
    BY <1>0, <1>1, <1>4, <1>6, <1>7, <1>8, PriorStays DEF ShellTypeOK
<1>20. FoundInv'
    <2>1. /\ dir'[Restoring(p)] = copied[p] /\ copied[p] # Missing /\ copied[p].state # "torn"
          /\ dir'[Displaced(timestamp[p])] # Missing /\ pc'[p] = "move in"
        BY <1>0, <1>1, <1>3, <1>4, <1>5, <1>6, <1>7 DEF RestoreInv
    <2> QED BY <1>1, <1>4, <2>1 DEF FoundInv, Exists
<1>21. dir'[Target].state # "torn"
    BY <1>5, NoFileType
<1> QED BY <1>9, <1>10, <1>11, <1>12, <1>13, <1>14, <1>15, <1>16, <1>17, <1>18, <1>20, <1>21
    DEF ShellInv

(* Anything fails: what a build has begun is put aside.                        *)
LEMMA FailStep ==
    ASSUME ShellInv, NEW p \in Scripts, Fail(p)
    PROVE  ShellInv'
<1>0. /\ ShellTypeOK /\ PlaceInv /\ UseInv /\ BuildInv /\ RestoreInv /\ BackupInv
      /\ RaceInv /\ VersionInv /\ HalfInv /\ PriorInv /\ FoundInv
      /\ dir[Target].state # "torn"
    BY DEF ShellInv
<1>1. /\ pc[p] \notin {"new", "done", "failed", "unsummed", "killed"}
      /\ UNCHANGED <<clock, kind, timestamp, source, version, copied, raced, prior,
                     displaced>>
    BY DEF Fail, Running, history
<1>2. PICK to \in {"unsummed", "failed"} :
        /\ pc' = [pc EXCEPT ![p] = to]
        /\ to = "unsummed" <=> kind[p] = "build" /\ pc[p] = "sum"
    BY DEF Fail
<1>3. \A q \in Scripts : pc'[q] = IF q = p THEN to ELSE pc[q]
    BY <1>0, <1>2 DEF ShellTypeOK
<1>4. /\ {Partial(p), Failed(p)} \subseteq Names \ ({Target, NoFile} \cup Stamped)
      /\ Partial(p) # Failed(p)
    BY ProcessNames
<1>5. /\ dir' \in [Names -> FileType \cup {Missing}] /\ vm' = vm
      /\ open' \in [Scripts -> {NoFile, Target} \cup Stamped]
      /\ \A q \in Scripts : open'[q] \in {open[q], NoFile}
      /\ \A name \in Names : name \notin {Partial(p), Failed(p)} => dir'[name] = dir[name]
      /\ \A name \in Names : dir'[name] \in {Missing, dir[Partial(p)], dir[name]}
      /\ kind[p] = "build" /\ dir[Partial(p)] # Missing => dir'[Failed(p)] = dir[Partial(p)]
    <2>1. CASE kind[p] = "build" /\ Exists(Partial(p))
        <3>1. Rename(Partial(p), Failed(p))
            BY <2>1 DEF Fail
        <3>2. /\ dir' \in [Names -> FileType \cup {Missing}]
              /\ dir'[Failed(p)] = dir[Partial(p)] /\ dir'[Partial(p)] = Missing
              /\ \A name \in Names : name \notin {Partial(p), Failed(p)} =>
                      dir'[name] = dir[name]
              /\ vm' = IF vm = Partial(p) THEN Failed(p)
                      ELSE IF vm = Failed(p) THEN NoFile ELSE vm
              /\ open' \in [Scripts -> {NoFile, Target} \cup Stamped \cup {Failed(p)}]
              /\ \A q \in Scripts : open'[q] =
                    IF open[q] = Partial(p) THEN Failed(p)
                    ELSE IF open[q] = Failed(p) THEN NoFile ELSE open[q]
            BY <1>0, <1>4, <3>1, RenameEffect
        <3>3. vm \notin {Partial(p), Failed(p)} /\ \A q \in Scripts : open[q] \notin {Partial(p), Failed(p)}
            BY <1>0, <1>4, StampedNames DEF ShellTypeOK
        <3>4. vm' = vm /\ \A q \in Scripts : open'[q] = open[q]
            BY <3>2, <3>3
        <3>5. open' \in [Scripts -> {NoFile, Target} \cup Stamped]
            BY <1>0, <3>2, <3>4 DEF ShellTypeOK
        <3>6. \A name \in Names : dir'[name] \in {Missing, dir[Partial(p)], dir[name]}
            BY <3>2
        <3> QED BY <3>2, <3>4, <3>5, <3>6
    <2>2. CASE ~(kind[p] = "build" /\ Exists(Partial(p)))
        <3>1. open' = [open EXCEPT ![p] = NoFile] /\ dir' = dir /\ vm' = vm
            BY <2>2 DEF Fail
        <3>2. /\ open' \in [Scripts -> {NoFile, Target} \cup Stamped]
              /\ \A q \in Scripts : open'[q] \in {open[q], NoFile}
            BY <1>0, <3>1 DEF ShellTypeOK
        <3> QED BY <1>0, <2>2, <3>1, <3>2 DEF ShellTypeOK, Exists
    <2> QED BY <2>1, <2>2
<1>6. /\ \A name \in Stamped \cup {Target} : dir'[name] = dir[name]
      /\ \A q \in Scripts :
            /\ dir'[Restoring(q)] = dir[Restoring(q)]
            /\ q # p => dir'[Partial(q)] = dir[Partial(q)] /\ dir'[Failed(q)] = dir[Failed(q)]
      /\ \A t \in 0..MaxTime :
            dir'[Backup(t)] = dir[Backup(t)] /\ dir'[Displaced(t)] = dir[Displaced(t)]
    <2>1. \A name \in Stamped \cup {Target} : dir'[name] = dir[name]
        BY <1>4, <1>5, StampedNames
    <2>2. ASSUME NEW q \in Scripts
          PROVE  /\ dir'[Restoring(q)] = dir[Restoring(q)]
                 /\ q # p =>
                         dir'[Partial(q)] = dir[Partial(q)] /\ dir'[Failed(q)] = dir[Failed(q)]
        <3>1. {Partial(q), Failed(q), Restoring(q)} \subseteq Names
            BY ProcessNames
        <3>2. /\ Restoring(q) \notin {Partial(p), Failed(p)}
              /\ q # p => {Partial(q), Failed(q)} \cap {Partial(p), Failed(p)} = {}
            BY ProcessNames
        <3> QED BY <1>5, <3>1, <3>2
    <2>3. \A t \in 0..MaxTime :
            dir'[Backup(t)] = dir[Backup(t)] /\ dir'[Displaced(t)] = dir[Displaced(t)]
        BY <2>1, StampedNames
    <2> QED BY <2>1, <2>2, <2>3
<1>7. SameSecond => SameSecond'
    BY <1>1, <1>3, SecondStays
<1>8. ShellTypeOK'
    <2>1. pc' \in [Scripts -> ShellPlaces]
        BY <1>0, <1>2 DEF ShellTypeOK, ShellPlaces
    <2> QED BY <1>0, <1>1, <1>5, <2>1 DEF ShellTypeOK
<1>9. PlaceInv'
    <2>1. pc[p] # "new" /\ pc'[p] \in {"unsummed", "failed"}
        BY <1>1, <1>3
    <2> SUFFICES ASSUME NEW q \in Scripts
                 PROVE  /\ pc'[q] \in {"complete", "publish"} => kind[q] = "build"
                        /\ pc'[q] \in {"attach", "install", "installing"} => kind[q] = "deploy"
                        /\ pc'[q] \in {"move away", "move in"} => kind[q] = "rollback"
                        /\ pc'[q] = "sum" => kind[q] \in {"build", "deploy"}
                        /\ pc'[q] # "new" /\ kind[q] # "build" =>
                                source[q] \in {Target} \cup Stamped
                        /\ pc'[q] # "new" /\ kind[q] = "deploy" => source[q] = Target
                        /\ pc'[q] \in Early => copied[q] = Missing
                        /\ pc'[q] = "copying" => copied[q] # Missing
                        /\ copied[q] # Missing => copied[q].id = q
        BY <1>1 DEF PlaceInv
    <2>2. CASE q = p
        <3>1. /\ kind[p] # "build" => source[p] \in {Target} \cup Stamped
              /\ kind[p] = "deploy" => source[p] = Target
              /\ copied[p] # Missing => copied[p].id = p
            BY <1>0, <2>1 DEF PlaceInv
        <3> QED BY <2>1, <2>2, <3>1 DEF Early
    <2>3. CASE q # p
        <3>1. pc'[q] = pc[q]
            BY <1>3, <2>3
        <3> QED BY <1>0, <3>1 DEF PlaceInv
    <2> QED BY <2>2, <2>3
<1>10. UseInv'
    <2>1. vm # NoFile => dir'[vm] # Missing
        BY <1>0, <1>6, StampedNames DEF UseInv, ShellTypeOK, Exists
    <2>2. ASSUME NEW q \in Scripts, open'[q] # NoFile PROVE dir'[open'[q]] # Missing
        <3>1. open'[q] = open[q] /\ open[q] \in Stamped \cup {Target}
            BY <1>0, <1>5, <2>2 DEF ShellTypeOK
        <3> QED BY <1>0, <1>6, <2>2, <3>1 DEF UseInv, Exists
    <2>3. ASSUME NEW q \in Scripts, pc'[q] \in {"install", "installing"}
          PROVE  open'[q] \in {NoFile, Target} \cup Aways
        <3>1. open'[q] \in {open[q], NoFile} /\ pc[q] \in {"install", "installing"}
            BY <1>3, <1>5, <2>3
        <3> QED BY <1>0, <3>1 DEF UseInv
    <2> QED BY <1>5, <2>1, <2>2, <2>3 DEF UseInv, Exists
<1>11. BuildInv'
    <2> SUFFICES ASSUME NEW q \in Scripts, kind[q] = "build"
                 PROVE  /\ pc'[q] \in {"copying", "complete", "verify", "publish"} =>
                                dir'[Partial(q)].id = q
                        /\ pc'[q] \in {"verify", "publish"} => dir'[Partial(q)].state = "whole"
                        /\ pc'[q] = "failed" /\ copied[q] # Missing => dir'[Failed(q)].id = q
        BY <1>1 DEF BuildInv
    <2>1. CASE q = p
        <3>1. ASSUME to = "failed", copied[p] # Missing PROVE dir'[Failed(p)].id = p
            <4>1. pc[p] \in {"copying", "complete", "verify", "publish"}
                <5>1. pc[p] \in {"copying"} \cup Late
                    BY <1>0, <1>1, <3>1 DEF ShellTypeOK, ShellPlaces, PlaceInv
                <5>2. pc[p] # "sum"
                    BY <1>2, <2>1, <3>1
                <5> QED BY <1>0, <2>1, <5>1, <5>2 DEF Late, PlaceInv
            <4>2. dir[Partial(p)].id = p
                BY <1>0, <2>1, <4>1 DEF BuildInv
            <4>3. dir[Partial(p)] # Missing
                BY <4>2, NoFileType
            <4> QED BY <1>5, <2>1, <4>2, <4>3
        <3> QED BY <1>3, <2>1, <3>1
    <2>2. CASE q # p
        BY <1>0, <1>3, <1>6, <2>2 DEF BuildInv
    <2> QED BY <2>1, <2>2
<1>12. RestoreInv'
    BY <1>0, <1>1, <1>3, <1>6 DEF RestoreInv
<1>13. BackupInv'
    <2> SUFFICES ASSUME NEW q \in Scripts, kind[q] = "deploy"
                 PROVE  /\ pc'[q] = "copying" => dir'[Backup(timestamp[q])] # Missing
                        /\ pc'[q] \in Late /\ ~SameSecond' =>
                                dir'[Backup(timestamp[q])] = copied[q]
        BY <1>1 DEF BackupInv, Exists
    <2>1. pc'[q] = pc[q] \/ pc'[q] \notin {"copying"} \cup Late
        BY <1>3 DEF Late
    <2>2. dir'[Backup(timestamp[q])] = dir[Backup(timestamp[q])]
        BY <1>0, <1>6 DEF ShellTypeOK
    <2> QED BY <1>0, <1>7, <2>1, <2>2 DEF BackupInv, Exists
<1>14. RaceInv'
    <2> SUFFICES ASSUME NEW q \in Scripts, kind[q] = "deploy", ~raced[q],
                        pc'[q] \in {"copying", "verify", "sum", "attach", "install"}
                 PROVE  /\ SameContent(dir'[Target], copied[q])
                        /\ \A r \in Scripts : ~(pc'[r] = "installing" /\ open'[r] = Target)
                        /\ pc'[q] = "install" => open'[q] \in {NoFile, Target}
        BY <1>1 DEF RaceInv, SameContent
    <2>1. pc'[q] = pc[q]
        BY <1>3
    <2>2. /\ SameContent(dir[Target], copied[q])
          /\ \A r \in Scripts : ~(pc[r] = "installing" /\ open[r] = Target)
          /\ pc[q] = "install" => open[q] \in {NoFile, Target}
        BY <1>0, <2>1 DEF RaceInv
    <2>3. \A r \in Scripts :
            pc'[r] = "installing" /\ open'[r] = Target =>
                        pc[r] = "installing" /\ open[r] = Target
        BY <1>3, <1>5, StampedNames
    <2> QED BY <1>5, <1>6, <2>1, <2>2, <2>3
<1>15. VersionInv'
    <2>1. version \in Nat /\ Missing.v <= version
        BY <1>0, NoFileType, ImagesAssumption DEF ShellTypeOK
    <2> QED BY <1>0, <1>1, <1>4, <1>5, <2>1 DEF VersionInv
<1>16. HalfInv'
    <2>1. \A name \in Lasting : dir'[name] = dir[name]
        BY <1>6, LastingNames
    <2> QED BY <1>0, <1>1, <2>1 DEF HalfInv
<1>17. PriorInv'
    BY <1>0, <1>1, <1>3, <1>6, <1>7, PriorStays DEF ShellTypeOK, Early
<1>19. FoundInv'
    BY <1>0, <1>1, <1>2, <1>3, <1>6, FoundStays DEF ShellTypeOK
<1>20. dir'[Target].state # "torn"
    BY <1>0, <1>6
<1> QED BY <1>8, <1>9, <1>10, <1>11, <1>12, <1>13, <1>14, <1>15, <1>16, <1>17, <1>19, <1>20
    DEF ShellInv

-----------------------------------------------------------------------------
(* The steps that write the target, or what was the target.                    *)

(* One file gets a content, and keeps its name and its identity.               *)
LEMMA WriteEffect ==
    ASSUME ShellTypeOK, NEW name \in {Target} \cup Aways, NEW file \in FileType,
           dir[name] # Missing, file.id = dir[name].id,
           dir' = [dir EXCEPT ![name] = file]
    PROVE  /\ dir' \in [Names -> FileType \cup {Missing}]
           /\ \A n \in Names : dir'[n] = IF n = name THEN file ELSE dir[n]
           /\ \A n \in Names : dir'[n] # Missing <=> dir[n] # Missing
           /\ \A q \in Scripts :
                /\ dir'[Partial(q)] = dir[Partial(q)] /\ dir'[Failed(q)] = dir[Failed(q)]
                /\ dir'[Restoring(q)] = dir[Restoring(q)]
           /\ \A t \in 0..MaxTime :
                /\ dir'[Backup(t)] = dir[Backup(t)]
                /\ dir'[Displaced(t)].id = dir[Displaced(t)].id
                /\ dir'[Displaced(t)] # Missing <=> dir[Displaced(t)] # Missing
<1>1. name \in Names
    BY StampedNames
<1>2. /\ dir' \in [Names -> FileType \cup {Missing}]
      /\ \A n \in Names : dir'[n] = IF n = name THEN file ELSE dir[n]
    BY <1>1 DEF ShellTypeOK
<1>3. \A n \in Names : dir'[n] # Missing <=> dir[n] # Missing
    BY <1>2, NoFileType
<1>4. ASSUME NEW q \in Scripts
      PROVE  /\ dir'[Partial(q)] = dir[Partial(q)] /\ dir'[Failed(q)] = dir[Failed(q)]
             /\ dir'[Restoring(q)] = dir[Restoring(q)]
    <2>1. {Partial(q), Failed(q), Restoring(q)} \subseteq Names \ ({Target} \cup Aways)
        BY ProcessNames, StampedNames
    <2> QED BY <1>2, <2>1
<1>5. ASSUME NEW t \in 0..MaxTime
      PROVE  /\ dir'[Backup(t)] = dir[Backup(t)]
             /\ dir'[Displaced(t)].id = dir[Displaced(t)].id
             /\ dir'[Displaced(t)] # Missing <=> dir[Displaced(t)] # Missing
    <2>1. Backup(t) \in Names /\ Backup(t) # name /\ Displaced(t) \in Names
        BY StampedNames
    <2> QED BY <1>2, <1>3, <2>1
<1> QED BY <1>2, <1>3, <1>4, <1>5

(* A new content: its number is new.                                          *)
LEMMA ContentEffect ==
    ASSUME ShellTypeOK, NEW name \in {Target} \cup Aways, NEW state \in {"torn", "half", "whole"},
           dir[name] # Missing, NewContent(name, dir[name].id, state)
    PROVE  /\ version' = version + 1 /\ version' \in 1..MaxVersion /\ version \in Nat
           /\ \E file \in FileType :
                /\ dir' = [dir EXCEPT ![name] = file]
                /\ file.id = dir[name].id /\ file.v = version + 1 /\ file.state = state
<1>1. /\ version < MaxVersion /\ version' = version + 1
      /\ dir' = [dir EXCEPT ![name] = Image(dir[name].id, version + 1, state)]
    BY DEF NewContent
<1>2. version' \in 1..MaxVersion /\ version \in Nat
    BY <1>1, ImagesAssumption DEF ShellTypeOK
<1>3. dir[name] \in FileType
    BY StampedNames DEF ShellTypeOK
<1>4. /\ Image(dir[name].id, version + 1, state) \in FileType
      /\ Image(dir[name].id, version + 1, state).id = dir[name].id
      /\ Image(dir[name].id, version + 1, state).v = version + 1
      /\ Image(dir[name].id, version + 1, state).state = state
    BY <1>1, <1>2, <1>3 DEF Image, FileType
<1> QED BY <1>1, <1>2, <1>4

(* What holds whoever writes: the places of the scripts go on, and the file    *)
(* that is written keeps its identity.                                        *)
LEMMA WriteStep ==
    ASSUME ShellInv,
           \/ dir' = dir
           \/ \E name \in {Target} \cup Aways, file \in FileType :
                /\ dir[name] # Missing /\ file.id = dir[name].id /\ file.v <= version'
                /\ file.state # "torn" \/ file.state = dir[name].state
                /\ dir' = [dir EXCEPT ![name] = file],
           version' \in 0..MaxVersion, version <= version',
           UNCHANGED <<clock, vm, kind, timestamp, source, copied, displaced>>,
           pc' \in [Scripts -> ShellPlaces],
           \A q \in Scripts : pc'[q] = pc[q] \/
                /\ pc[q] \in {"install", "installing"}
                /\ pc'[q] \in {"installing", "done"} /\ (pc'[q] = "done" => open'[q] = NoFile),
           open' \in [Scripts -> {NoFile, Target} \cup Stamped],
           \A q \in Scripts : open'[q] \in {open[q], NoFile},
           raced' \in [Scripts -> BOOLEAN],
           prior' \in [0..MaxVersion -> FileType \cup {Missing, Unknown}],
           RaceInv', HalfInv', PriorInv'
    PROVE  ShellInv'
<1>0. /\ ShellTypeOK /\ PlaceInv /\ UseInv /\ BuildInv /\ RestoreInv /\ BackupInv
      /\ RaceInv /\ VersionInv /\ HalfInv /\ PriorInv /\ FoundInv
      /\ dir[Target].state # "torn"
    BY DEF ShellInv
<1>1. /\ dir' \in [Names -> FileType \cup {Missing}]
      /\ \A n \in Names : dir'[n] # Missing <=> dir[n] # Missing
      /\ \A n \in Names : dir'[n] = dir[n] \/ dir'[n].v <= version'
      /\ dir'[Target].state # "torn"
      /\ \A q \in Scripts :
            /\ dir'[Partial(q)] = dir[Partial(q)] /\ dir'[Failed(q)] = dir[Failed(q)]
            /\ dir'[Restoring(q)] = dir[Restoring(q)]
      /\ \A t \in 0..MaxTime :
            /\ dir'[Backup(t)] = dir[Backup(t)]
            /\ dir'[Displaced(t)].id = dir[Displaced(t)].id
            /\ dir'[Displaced(t)] # Missing <=> dir[Displaced(t)] # Missing
    <2>1. CASE dir' = dir
        BY <1>0, <2>1 DEF ShellTypeOK
    <2>2. CASE dir' # dir
        <3>1. PICK name \in {Target} \cup Aways, file \in FileType :
                /\ dir[name] # Missing /\ file.id = dir[name].id /\ file.v <= version'
                /\ file.state # "torn" \/ file.state = dir[name].state
                /\ dir' = [dir EXCEPT ![name] = file]
            BY <2>2
        <3>2. /\ dir' \in [Names -> FileType \cup {Missing}]
              /\ \A n \in Names : dir'[n] = IF n = name THEN file ELSE dir[n]
              /\ \A n \in Names : dir'[n] # Missing <=> dir[n] # Missing
              /\ \A q \in Scripts :
                    /\ dir'[Partial(q)] = dir[Partial(q)] /\ dir'[Failed(q)] = dir[Failed(q)]
                    /\ dir'[Restoring(q)] = dir[Restoring(q)]
              /\ \A t \in 0..MaxTime :
                    /\ dir'[Backup(t)] = dir[Backup(t)]
                    /\ dir'[Displaced(t)].id = dir[Displaced(t)].id
                    /\ dir'[Displaced(t)] # Missing <=> dir[Displaced(t)] # Missing
            BY <1>0, <3>1, WriteEffect
        <3>3. dir'[Target].state # "torn"
            BY <1>0, <3>1, <3>2, StampedNames
        <3>4. \A n \in Names : dir'[n] = dir[n] \/ dir'[n].v <= version'
            BY <3>1, <3>2
        <3> QED BY <3>2, <3>3, <3>4
    <2> QED BY <2>1, <2>2
<1>2. \A q \in Scripts : pc'[q] = pc[q] \/
        (kind[q] = "deploy" /\ pc[q] \in Late /\ pc'[q] \in {"installing", "done"}
            /\ pc[q] \in {"install", "installing"})
    BY <1>0 DEF PlaceInv, Late
<1>3. SameSecond => SameSecond'
    BY <1>2, SecondStays
<1>4. ShellTypeOK'
    BY <1>0, <1>1 DEF ShellTypeOK
<1>5. PlaceInv'
    <2> SUFFICES ASSUME NEW q \in Scripts
                 PROVE  /\ pc'[q] \in {"complete", "publish"} => kind[q] = "build"
                        /\ pc'[q] \in {"attach", "install", "installing"} => kind[q] = "deploy"
                        /\ pc'[q] \in {"move away", "move in"} => kind[q] = "rollback"
                        /\ pc'[q] = "sum" => kind[q] \in {"build", "deploy"}
                        /\ pc'[q] # "new" /\ kind[q] # "build" =>
                                source[q] \in {Target} \cup Stamped
                        /\ pc'[q] # "new" /\ kind[q] = "deploy" => source[q] = Target
                        /\ pc'[q] \in Early => copied[q] = Missing
                        /\ pc'[q] = "copying" => copied[q] # Missing
                        /\ copied[q] # Missing => copied[q].id = q
        BY DEF PlaceInv
    <2>1. CASE pc'[q] = pc[q]
        BY <1>0, <2>1 DEF PlaceInv
    <2>2. CASE pc'[q] # pc[q]
        <3>1. kind[q] = "deploy" /\ pc[q] # "new" /\ pc'[q] \in {"installing", "done"}
            BY <1>2, <2>2 DEF Late
        <3>2. source[q] = Target /\ (copied[q] # Missing => copied[q].id = q)
            BY <1>0, <3>1 DEF PlaceInv
        <3> QED BY <3>1, <3>2 DEF Early
    <2> QED BY <2>1, <2>2
<1>6. UseInv'
    <2>1. vm # NoFile => dir'[vm] # Missing
        BY <1>0, <1>1, StampedNames DEF UseInv, ShellTypeOK, Exists
    <2>2. ASSUME NEW q \in Scripts, open'[q] # NoFile PROVE dir'[open'[q]] # Missing
        <3>1. open'[q] = open[q] /\ open[q] \in Names
            BY <1>0, <2>2, StampedNames DEF ShellTypeOK
        <3> QED BY <1>0, <1>1, <2>2, <3>1 DEF UseInv, Exists
    <2>3. ASSUME NEW q \in Scripts, pc'[q] \in {"install", "installing"}
          PROVE  open'[q] \in {NoFile, Target} \cup Aways
        <3>1. pc[q] \in {"install", "installing"}
            BY <1>2, <2>3
        <3> QED BY <1>0, <3>1 DEF UseInv
    <2> QED BY <2>1, <2>2, <2>3 DEF UseInv, Exists
<1>7. BuildInv'
    <2> SUFFICES ASSUME NEW q \in Scripts, kind[q] = "build"
                 PROVE  /\ pc'[q] \in {"copying", "complete", "verify", "publish"} =>
                                dir'[Partial(q)].id = q
                        /\ pc'[q] \in {"verify", "publish"} => dir'[Partial(q)].state = "whole"
                        /\ pc'[q] = "failed" /\ copied[q] # Missing => dir'[Failed(q)].id = q
        BY DEF BuildInv
    <2>1. pc'[q] = pc[q]
        BY <1>2
    <2> QED BY <1>0, <1>1, <2>1 DEF BuildInv
<1>8. RestoreInv'
    BY <1>0, <1>1, <1>2 DEF RestoreInv
<1>9. BackupInv'
    <2> SUFFICES ASSUME NEW q \in Scripts, kind[q] = "deploy"
                 PROVE  /\ pc'[q] = "copying" => dir'[Backup(timestamp[q])] # Missing
                        /\ pc'[q] \in Late /\ ~SameSecond' =>
                                dir'[Backup(timestamp[q])] = copied[q]
        BY DEF BackupInv, Exists
    <2>1. /\ pc'[q] = "copying" => pc[q] = "copying"
          /\ pc'[q] \in Late => pc[q] \in Late
        BY <1>2
    <2>2. dir'[Backup(timestamp[q])] = dir[Backup(timestamp[q])]
        BY <1>0, <1>1 DEF ShellTypeOK
    <2> QED BY <1>0, <1>3, <2>1, <2>2 DEF BackupInv, Exists
<1>10. VersionInv'
    <2>1. \A n \in Names : dir[n].v \in Int /\ version \in Int /\ version' \in Int
        BY <1>0, NoFileType DEF ShellTypeOK, FileType
    <2>2. \A q \in Scripts : copied[q].v \in Int
        BY <1>0, NoFileType DEF ShellTypeOK, FileType
    <2>3. \A n \in Names : dir'[n].v <= version'
        BY <1>0, <1>1, <2>1 DEF VersionInv
    <2>4. \A q \in Scripts : copied'[q].v <= version'
        <3>1. \A q \in Scripts : copied[q].v <= version
            BY <1>0 DEF VersionInv
        <3>2. version \in Int /\ version' \in Int
            BY <1>0 DEF ShellTypeOK
        <3> QED BY <2>2, <3>1, <3>2
    <2> QED BY <2>3, <2>4 DEF VersionInv
<1>12. FoundInv'
    <2>1. dir'[Target] = Missing =>
            /\ dir[Target] = Missing
            /\ \A n \in Stamped : dir'[n] # Missing => dir[n] # Missing
        BY <1>1, StampedNames
    <2>2. \A q \in Scripts :
            kind[q] = "rollback" =>
                /\ pc'[q] = pc[q] /\ dir'[Restoring(q)] = dir[Restoring(q)]
                /\ dir[Displaced(timestamp[q])] # Missing =>
                        dir'[Displaced(timestamp[q])] # Missing
        BY <1>0, <1>1, <1>2 DEF ShellTypeOK
    <2> QED BY <1>0, <2>1, <2>2, FoundStays
<1>13. dir'[Target].state # "torn"
    BY <1>1
<1> QED BY <1>4, <1>5, <1>6, <1>7, <1>8, <1>9, <1>10, <1>12, <1>13 DEF ShellInv

(* The guest writes its disk.                                               *)
LEMMA VmWriteStep ==
    ASSUME ShellInv, VmWrite
    PROVE  ShellInv'
<1>0. /\ ShellTypeOK /\ PlaceInv /\ UseInv /\ BuildInv /\ RestoreInv /\ BackupInv
      /\ RaceInv /\ VersionInv /\ HalfInv /\ PriorInv /\ FoundInv
      /\ dir[Target].state # "torn"
    BY DEF ShellInv
<1>1. /\ vm # NoFile /\ NewContent(vm, dir[vm].id, dir[vm].state)
      /\ prior' = [prior EXCEPT ![version + 1] = prior[dir[vm].v]]
      /\ raced' = [p \in Scripts |-> raced[p] \/ vm = Target]
      /\ UNCHANGED <<clock, vm, pc, kind, timestamp, source, open, copied, displaced>>
    BY DEF VmWrite, scriptVars
<1>2. vm \in {Target} \cup Aways /\ vm \in Names /\ dir[vm] # Missing /\ dir[vm] \in FileType
    BY <1>0, <1>1, StampedNames DEF ShellTypeOK, UseInv, Exists
<1>3. dir[vm].state \in {"torn", "half", "whole"} /\ dir[vm].v \in 0..MaxVersion
    BY <1>2 DEF FileType
<1>4. PICK name \in {Target} \cup Aways, state \in {"torn", "half", "whole"} :
        name = vm /\ state = dir[vm].state
    BY <1>2, <1>3
<1>5. /\ version' = version + 1 /\ version' \in 1..MaxVersion /\ version \in Nat
      /\ \E file \in FileType :
            /\ dir' = [dir EXCEPT ![name] = file]
            /\ file.id = dir[name].id /\ file.v = version + 1 /\ file.state = state
    BY <1>0, <1>1, <1>2, <1>4, ContentEffect
<1>6. PICK file \in FileType :
        /\ dir' = [dir EXCEPT ![name] = file]
        /\ file.id = dir[name].id /\ file.v = version + 1 /\ file.state = state
    BY <1>5
<1>7. /\ \A n \in Names : dir'[n] = IF n = name THEN file ELSE dir[n]
      /\ \A t \in 0..MaxTime : dir'[Backup(t)] = dir[Backup(t)]
    BY <1>0, <1>2, <1>4, <1>6, WriteEffect
<1>8. /\ \A p \in Scripts : raced'[p] <=> raced[p] \/ vm = Target
      /\ \A v \in 0..MaxVersion :
            prior'[v] = IF v = version + 1 THEN prior[dir[vm].v] ELSE prior[v]
      /\ raced' \in [Scripts -> BOOLEAN]
      /\ prior' \in [0..MaxVersion -> FileType \cup {Missing, Unknown}]
    BY <1>0, <1>1, <1>3 DEF ShellTypeOK
<1>9. RaceInv'
    <2>1. vm # Target => dir'[Target] = dir[Target]
        BY <1>4, <1>7, StampedNames
    <2> QED BY <1>0, <1>1, <1>8, <2>1 DEF RaceInv, SameContent
<1>10. HalfInv'
    <2>1. ASSUME NEW n \in Lasting, dir'[n].state = "half"
          PROVE prior'[dir'[n].v] # Missing
        <3>1. n \in Names
            BY <2>1, LastingNames
        <3>2. CASE n = name
            <4>1. dir'[n] = file /\ file.state = dir[name].state /\ file.v = version + 1
                BY <1>4, <1>6, <1>7, <3>1, <3>2
            <4>2. prior[dir[name].v] # Missing
                BY <1>0, <2>1, <3>2, <4>1 DEF HalfInv
            <4>3. prior'[version + 1] = prior[dir[name].v]
                BY <1>4, <1>5, <1>8
            <4> QED BY <1>5, <4>1, <4>2, <4>3
        <3>3. CASE n # name
            <4>1. dir'[n] = dir[n] /\ dir[n] \in FileType
                BY <1>0, <1>7, <2>1, <3>1, <3>3, NoFileType DEF ShellTypeOK
            <4>2. dir[n].v \in 0..MaxVersion /\ dir[n].v <= version
                BY <1>0, <3>1, <4>1 DEF FileType, VersionInv
            <4> QED BY <1>0, <1>5, <1>8, <2>1, <4>1, <4>2 DEF HalfInv
        <3> QED BY <3>2, <3>3
    <2>2. ASSUME NEW p \in Scripts, kind[p] # "build", copied[p].state = "half"
          PROVE  prior'[copied[p].v] # Missing
        <3>1. copied[p] \in FileType
            BY <1>0, <2>2, NoFileType DEF ShellTypeOK
        <3>2. copied[p].v \in 0..MaxVersion /\ copied[p].v <= version
            BY <1>0, <3>1 DEF FileType, VersionInv
        <3> QED BY <1>0, <1>5, <1>8, <2>2, <3>2 DEF HalfInv
    <2>3. kind' = kind /\ copied' = copied
        BY <1>1
    <2> QED BY <2>1, <2>2, <2>3 DEF HalfInv
<1>11. PriorInv'
    <2>1. SameSecond => SameSecond'
        BY <1>1, SecondStays
    <2>2. \A v \in 0..MaxVersion : \E u \in 0..MaxVersion : prior'[v] = prior[u]
        BY <1>3, <1>8
    <2> QED BY <1>0, <1>1, <1>7, <2>1, <2>2, PriorStays DEF ShellTypeOK
<1>12. pc' \in [Scripts -> ShellPlaces] /\ open' \in [Scripts -> {NoFile, Target} \cup Stamped]
    BY <1>0, <1>1 DEF ShellTypeOK
<1>13. /\ version' \in 0..MaxVersion /\ version <= version' /\ file.v <= version'
       /\ dir[name] # Missing
    BY <1>2, <1>4, <1>5, <1>6
<1> QED BY <1>1, <1>4, <1>6, <1>8, <1>9, <1>10, <1>11, <1>12, <1>13, WriteStep

(* The payload is begun: what it is written over is known, and in the backup,   *)
(* unless another has written the target meanwhile.                           *)
LEMMA BeginInstallStep ==
    ASSUME ShellInv, NEW p \in Scripts, BeginInstall(p)
    PROVE  ShellInv'
<1>0. /\ ShellTypeOK /\ PlaceInv /\ UseInv /\ BuildInv /\ RestoreInv /\ BackupInv
      /\ RaceInv /\ VersionInv /\ HalfInv /\ PriorInv /\ FoundInv
      /\ dir[Target].state # "torn"
    BY DEF ShellInv
<1>1. /\ pc[p] = "install" /\ open[p] # NoFile
      /\ NewContent(open[p], dir[open[p]].id, "half") /\ Race(p)
      /\ UNCHANGED <<clock, vm, kind, timestamp, source, open, copied, displaced>>
    BY DEF BeginInstall, Goto
<1>2. /\ pc' = [pc EXCEPT ![p] = "installing"]
      /\ prior' = [prior EXCEPT ![version + 1] = IF raced[p] THEN Unknown ELSE dir[open[p]]]
    BY DEF BeginInstall, Goto
<1>3. PICK name \in {Target} \cup Aways :
        /\ name = open[p] /\ name \in Names
        /\ dir[name] # Missing /\ dir[name] \in FileType
    BY <1>0, <1>1, StampedNames DEF ShellTypeOK, UseInv, Exists
<1>4. PICK was \in FileType \cup {Unknown} : was = IF raced[p] THEN Unknown ELSE dir[name]
    BY <1>3
<1>5. /\ version' = version + 1 /\ version' \in 1..MaxVersion /\ version \in Nat
      /\ \E file \in FileType :
            /\ dir' = [dir EXCEPT ![name] = file]
            /\ file.id = dir[name].id /\ file.v = version + 1 /\ file.state = "half"
    <2>1. PICK state \in {"torn", "half", "whole"} : state = "half"
        OBVIOUS
    <2>2. NewContent(name, dir[name].id, state)
        BY <1>1, <1>3, <2>1
    <2> QED BY <1>0, <1>3, <2>1, <2>2, ContentEffect
<1>6. PICK file \in FileType :
        /\ dir' = [dir EXCEPT ![name] = file]
        /\ file.id = dir[name].id /\ file.v = version + 1 /\ file.state = "half"
    BY <1>5
<1>7. /\ \A n \in Names : dir'[n] = IF n = name THEN file ELSE dir[n]
      /\ \A t \in 0..MaxTime : dir'[Backup(t)] = dir[Backup(t)]
    BY <1>0, <1>3, <1>6, WriteEffect
<1>8. /\ \A q \in Scripts : pc'[q] = IF q = p THEN "installing" ELSE pc[q]
      /\ \A q \in Scripts : raced'[q] <=> raced[q] \/ q # p
      /\ raced' \in [Scripts -> BOOLEAN]
    BY <1>0, <1>1, <1>2 DEF ShellTypeOK, Race
<1>9. /\ \A v \in 0..MaxVersion : prior'[v] = IF v = version + 1 THEN was ELSE prior[v]
      /\ prior' \in [0..MaxVersion -> FileType \cup {Missing, Unknown}]
    <2>1. prior' = [prior EXCEPT ![version + 1] = was]
        BY <1>2, <1>3, <1>4
    <2> QED BY <1>0, <2>1 DEF ShellTypeOK
<1>10. RaceInv'
    BY <1>8 DEF RaceInv
<1>11. HalfInv'
    <2>1. ASSUME NEW n \in Lasting, dir'[n].state = "half"
          PROVE prior'[dir'[n].v] # Missing
        <3>1. n \in Names
            BY <2>1, LastingNames
        <3>2. CASE n = name
            BY <1>4, <1>5, <1>6, <1>7, <1>9, <3>1, <3>2, NoFileType
        <3>3. CASE n # name
            <4>1. dir'[n] = dir[n] /\ dir[n] \in FileType
                BY <1>0, <1>7, <2>1, <3>1, <3>3, NoFileType DEF ShellTypeOK
            <4>2. dir[n].v \in 0..MaxVersion /\ dir[n].v <= version
                BY <1>0, <3>1, <4>1 DEF FileType, VersionInv
            <4> QED BY <1>0, <1>5, <1>9, <2>1, <4>1, <4>2 DEF HalfInv
        <3> QED BY <3>2, <3>3
    <2>2. ASSUME NEW q \in Scripts, kind[q] # "build", copied[q].state = "half"
          PROVE  prior'[copied[q].v] # Missing
        <3>1. copied[q] \in FileType
            BY <1>0, <2>2, NoFileType DEF ShellTypeOK
        <3>2. copied[q].v \in 0..MaxVersion /\ copied[q].v <= version
            BY <1>0, <3>1 DEF FileType, VersionInv
        <3> QED BY <1>0, <1>5, <1>9, <2>2, <3>2 DEF HalfInv
    <2> QED BY <1>1, <2>1, <2>2 DEF HalfInv
<1>12. SameSecond => SameSecond'
    BY <1>1, <1>8, SecondStays
<1>13. PriorInv'
    <2> SUFFICES ASSUME NEW v \in 0..MaxVersion, prior'[v] \notin {Missing, Unknown}, ~SameSecond'
                 PROVE  \E q \in Scripts :
                            /\ kind[q] = "deploy" /\ pc'[q] \notin Early \cup {"copying"}
                            /\ dir'[Backup(timestamp[q])] = copied[q]
                            /\ SameContent(copied[q], prior'[v])
        BY <1>1 DEF PriorInv, SameContent
    <2>1. CASE v = version + 1
        <3>1. kind[p] = "deploy" /\ ~raced[p] /\ was = dir[name] /\ prior'[v] = dir[name]
            BY <1>0, <1>1, <1>4, <1>9, <2>1 DEF PlaceInv
        <3>2. name = Target /\ SameContent(dir[Target], copied[p])
            BY <1>0, <1>1, <1>3, <3>1 DEF RaceInv
        <3>3. dir'[Backup(timestamp[p])] = copied[p]
            BY <1>0, <1>1, <1>7, <1>12, <3>1 DEF BackupInv, ShellTypeOK, Late
        <3> QED BY <1>8, <3>1, <3>2, <3>3 DEF SameContent, Early
    <2>2. CASE v # version + 1
        <3>1. PICK q \in Scripts :
                /\ kind[q] = "deploy" /\ pc[q] \notin Early \cup {"copying"}
                /\ dir[Backup(timestamp[q])] = copied[q]
                /\ SameContent(copied[q], prior[v])
            BY <1>0, <1>9, <1>12, <2>2 DEF PriorInv
        <3>2. pc'[q] \notin Early \cup {"copying"} /\ prior'[v] = prior[v]
            BY <1>8, <1>9, <2>2, <3>1 DEF Early
        <3>3. dir'[Backup(timestamp[q])] = copied[q]
            BY <1>0, <1>7, <3>1 DEF ShellTypeOK
        <3> QED BY <3>1, <3>2, <3>3
    <2> QED BY <2>1, <2>2
<1>14. pc' \in [Scripts -> ShellPlaces] /\ open' \in [Scripts -> {NoFile, Target} \cup Stamped]
    BY <1>0, <1>1, <1>2 DEF ShellTypeOK, ShellPlaces, Late
<1>15. version' \in 0..MaxVersion /\ version <= version' /\ file.v <= version'
    BY <1>5, <1>6
<1>16. \A q \in Scripts : open'[q] = open[q] /\ (pc'[q] = pc[q] \/
            (pc[q] \in {"install", "installing"} /\ pc'[q] = "installing"))
    BY <1>1, <1>8
<1> QED BY <1>1, <1>3, <1>6, <1>8, <1>9, <1>10, <1>11, <1>13, <1>14, <1>15, <1>16, WriteStep

(* The payload is complete.                                                  *)
LEMMA EndInstallStep ==
    ASSUME ShellInv, NEW p \in Scripts, EndInstall(p)
    PROVE  ShellInv'
<1>0. /\ ShellTypeOK /\ PlaceInv /\ UseInv /\ BuildInv /\ RestoreInv /\ BackupInv
      /\ RaceInv /\ VersionInv /\ HalfInv /\ PriorInv /\ FoundInv
      /\ dir[Target].state # "torn"
    BY DEF ShellInv
<1>1. /\ pc[p] = "installing"
      /\ UNCHANGED <<clock, vm, kind, timestamp, source, version, copied, raced, prior,
                     displaced>>
    BY DEF EndInstall, Goto, history
<1>2. /\ pc' = [pc EXCEPT ![p] = "done"] /\ open' = [open EXCEPT ![p] = NoFile]
      /\ dir' = IF open[p] = NoFile THEN dir ELSE [dir EXCEPT ![open[p]].state = "whole"]
    BY DEF EndInstall, Goto
<1>3. /\ \A q \in Scripts :
            /\ pc'[q] = IF q = p THEN "done" ELSE pc[q]
            /\ open'[q] = IF q = p THEN NoFile ELSE open[q]
      /\ pc' \in [Scripts -> ShellPlaces]
      /\ open' \in [Scripts -> {NoFile, Target} \cup Stamped]
    BY <1>0, <1>2 DEF ShellTypeOK, ShellPlaces
<1>4. \/ dir' = dir
      \/ \E name \in {Target} \cup Aways, file \in FileType :
            /\ name = open[p] /\ dir[name] # Missing /\ file.id = dir[name].id
            /\ file.v <= version /\ file.state = "whole"
            /\ dir' = [dir EXCEPT ![name] = file]
    <2>1. CASE open[p] = NoFile
        BY <1>2, <2>1
    <2>2. CASE open[p] # NoFile
        <3>1. PICK name \in {Target} \cup Aways :
                /\ name = open[p] /\ name \in Names
                /\ dir[name] # Missing /\ dir[name] \in FileType
            BY <1>0, <1>1, <2>2, StampedNames DEF ShellTypeOK, UseInv, Exists
        <3>2. PICK file \in FileType :
                /\ file = Restated(dir[name], "whole") /\ file.id = dir[name].id
                /\ file.v = dir[name].v /\ file.state = "whole"
            BY <3>1, RestatedFile
        <3>3. dir' = [dir EXCEPT ![name] = file]
            BY <1>2, <2>2, <3>1, <3>2 DEF Restated
        <3>4. file.v <= version
            BY <1>0, <3>1, <3>2 DEF VersionInv
        <3> QED BY <3>1, <3>2, <3>3, <3>4
    <2> QED BY <2>1, <2>2
<1>5. /\ \A n \in Names : dir'[n] = dir[n] \/ (n = open[p] /\ dir'[n].state = "whole")
      /\ \A t \in 0..MaxTime : dir'[Backup(t)] = dir[Backup(t)]
    <2>1. CASE dir' = dir
        BY <2>1
    <2>2. CASE dir' # dir
        <3>1. PICK name \in {Target} \cup Aways, file \in FileType :
                /\ name = open[p] /\ dir[name] # Missing /\ file.id = dir[name].id
                /\ file.v <= version /\ file.state = "whole"
                /\ dir' = [dir EXCEPT ![name] = file]
            BY <1>4, <2>2
        <3>2. /\ \A n \in Names : dir'[n] = IF n = name THEN file ELSE dir[n]
              /\ \A t \in 0..MaxTime : dir'[Backup(t)] = dir[Backup(t)]
            BY <1>0, <3>1, WriteEffect
        <3> QED BY <3>1, <3>2
    <2> QED BY <2>1, <2>2
<1>6. RaceInv'
    <2> SUFFICES ASSUME NEW q \in Scripts, kind[q] = "deploy", ~raced[q],
                        pc'[q] \in {"copying", "verify", "sum", "attach", "install"}
                 PROVE  /\ SameContent(dir'[Target], copied[q])
                        /\ \A r \in Scripts : ~(pc'[r] = "installing" /\ open'[r] = Target)
                        /\ pc'[q] = "install" => open'[q] \in {NoFile, Target}
        BY <1>1 DEF RaceInv, SameContent
    <2>1. pc'[q] = pc[q] /\ open'[q] = open[q]
        BY <1>3
    <2>2. /\ SameContent(dir[Target], copied[q])
          /\ \A r \in Scripts : ~(pc[r] = "installing" /\ open[r] = Target)
          /\ pc[q] = "install" => open[q] \in {NoFile, Target}
        BY <1>0, <2>1 DEF RaceInv
    <2>3. dir'[Target] = dir[Target]
        BY <1>1, <1>5, <2>2, StampedNames
    <2>4. \A r \in Scripts :
            pc'[r] = "installing" => pc[r] = "installing" /\ open'[r] = open[r]
        BY <1>3
    <2> QED BY <2>1, <2>2, <2>3, <2>4
<1>7. HalfInv'
    <2>1. \A n \in Lasting : dir'[n].state = "half" => dir'[n] = dir[n]
        BY <1>5, LastingNames
    <2> QED BY <1>0, <1>1, <2>1 DEF HalfInv
<1>8. PriorInv'
    <2>1. SameSecond => SameSecond'
        BY <1>1, <1>3, SecondStays
    <2> QED BY <1>0, <1>1, <1>3, <1>5, <2>1, PriorStays DEF ShellTypeOK, Early
<1>9. \A q \in Scripts : /\ open'[q] \in {open[q], NoFile}
                         /\ pc'[q] = pc[q] \/
                             /\ pc[q] \in {"install", "installing"}
                             /\ pc'[q] \in {"installing", "done"}
                             /\ pc'[q] = "done" => open'[q] = NoFile
    BY <1>1, <1>3
<1>10. /\ version' \in 0..MaxVersion /\ version <= version'
       /\ raced' \in [Scripts -> BOOLEAN]
       /\ prior' \in [0..MaxVersion -> FileType \cup {Missing, Unknown}]
    BY <1>0, <1>1 DEF ShellTypeOK
<1>11. \/ dir' = dir
       \/ \E name \in {Target} \cup Aways, file \in FileType :
            /\ dir[name] # Missing /\ file.id = dir[name].id /\ file.v <= version'
            /\ file.state # "torn" \/ file.state = dir[name].state
            /\ dir' = [dir EXCEPT ![name] = file]
    BY <1>1, <1>4
<1> QED BY <1>1, <1>3, <1>6, <1>7, <1>8, <1>9, <1>10, <1>11, WriteStep

-----------------------------------------------------------------------------
(* The invariant of the shell scripts.                                        *)

(* Nothing has begun.                                                       *)
LEMMA ShellInit ==
    ASSUME Init
    PROVE  ShellInv
<1>1. /\ clock = 1 /\ vm = NoFile /\ version = 1
      /\ pc = [p \in Scripts |-> "new"] /\ kind = [p \in Scripts |-> "build"]
      /\ timestamp = [p \in Scripts |-> 0] /\ source = [p \in Scripts |-> NoFile]
      /\ open = [p \in Scripts |-> NoFile] /\ copied = [p \in Scripts |-> Missing]
      /\ raced = [p \in Scripts |-> FALSE] /\ prior = [v \in 0..MaxVersion |-> Missing]
      /\ displaced = [p \in Scripts |-> "nobody"]
    BY DEF Init
<1>2. PICK found \in {{}, {Target}, {Target, Backup(0)}} :
        dir = [name \in Names |->
                IF name \notin found THEN Missing
                ELSE Image("original", IF name = Target THEN 1 ELSE 0, "whole")]
    BY DEF Init
<1>3. /\ dir \in [Names -> FileType \cup {Missing}]
      /\ \A name \in Names :
            /\ dir[name] = Missing \/ name \in found
            /\ name \in found => dir[name] # Missing
            /\ dir[name].state \in {"missing", "whole"} /\ dir[name].v <= 1
    <2>1. /\ Image("original", 0, "whole") \in FileType
          /\ Image("original", 1, "whole") \in FileType
          /\ Image("original", 0, "whole").v = 0 /\ Image("original", 1, "whole").v = 1
          /\ Image("original", 0, "whole").state = "whole"
          /\ Image("original", 1, "whole").state = "whole"
        BY ImagesAssumption DEF Image, FileType
    <2>2. \A name \in Names :
            \/ name \notin found /\ dir[name] = Missing
            \/ name \in found /\ name = Target /\ dir[name] = Image("original", 1, "whole")
            \/ name \in found /\ name # Target /\ dir[name] = Image("original", 0, "whole")
        BY <1>2
    <2>3. \A name \in Names : dir[name] \in FileType \cup {Missing}
        BY <2>1, <2>2
    <2>4. dir \in [Names -> FileType \cup {Missing}]
        BY <1>2, <2>3
    <2> QED BY <2>1, <2>2, <2>4, NoFileType
<1>4. ShellTypeOK
    <2>1. 1 \in 0..MaxTime /\ 0 \in 0..MaxTime /\ 1 \in 0..MaxVersion
        BY ImagesAssumption
    <2> QED BY <1>1, <1>3, <2>1 DEF ShellTypeOK, ShellPlaces, Early, Kinds
<1>5. PlaceInv /\ UseInv /\ BuildInv /\ RestoreInv /\ RaceInv
    BY <1>1 DEF PlaceInv, UseInv, BuildInv, RestoreInv, RaceInv
<1>6. BackupInv /\ PriorInv
    BY <1>1 DEF BackupInv, PriorInv, Late
<1>7. VersionInv /\ HalfInv
    BY <1>1, <1>3, LastingNames, NoFileType DEF VersionInv, HalfInv
<1>8. FoundInv
    <2>1. ASSUME NEW name \in Stamped, dir[name] # Missing PROVE dir[Target] # Missing
        <3>1. name \in found
            BY <1>3, <2>1, StampedNames
        <3>2. Target \in found
            BY <3>1
        <3> QED BY <1>3, <3>2, StampedNames
    <2> QED BY <2>1 DEF FoundInv, Exists
<1>9. dir[Target].state # "torn"
    BY <1>3, StampedNames
<1> QED BY <1>4, <1>5, <1>6, <1>7, <1>8, <1>9 DEF ShellInv

(* No step of the VM and of the scripts breaks it.                            *)
LEMMA ShellNext ==
    ASSUME ShellInv, Next
    PROVE  ShellInv'
<1>1. CASE Tick \/ VmStart \/ VmStop
    <2>1. ShellTypeOK
        BY DEF ShellInv
    <2>2. UNCHANGED <<dir, scriptVars, version, history>>
        BY <1>1 DEF Tick, VmStart, VmStop
    <2>3. clock' \in 0..MaxTime
        BY <1>1, <2>1, ImagesAssumption DEF Tick, VmStart, VmStop, ShellTypeOK
    <2>4. vm' \in {vm, NoFile} \/ (vm' = Target /\ Exists(Target))
        BY <1>1 DEF Tick, VmStart, VmStop
    <2> QED BY <2>2, <2>3, <2>4, IdleStep
<1>2. CASE VmWrite
    BY <1>2, VmWriteStep
<1>3. ASSUME NEW p \in Scripts, ScriptNext(p)
      PROVE  ShellInv'
    <2>1. CASE \E k \in Kinds : Start(p, k)
        BY <2>1, StartStep
    <2>2. CASE Check(p) \/ BeginCopy(p) \/ EndCopy(p) \/ Complete(p) \/ Verify(p) \/ Sum(p)
        BY <2>2, CheckStep, BeginCopyStep, EndCopyStep, CompleteStep
    <2>3. CASE Publish(p) \/ Attach(p) \/ BeginInstall(p) \/ EndInstall(p)
        BY <2>3, PublishStep, AttachStep, BeginInstallStep, EndInstallStep
    <2>4. CASE MoveAway(p) \/ MoveIn(p) \/ Fail(p) \/ Kill(p)
        BY <2>4, MoveAwayStep, MoveInStep, FailStep, KillStep
    <2> QED BY <1>3, <2>1, <2>2, <2>3, <2>4 DEF ScriptNext
<1> QED BY <1>1, <1>2, <1>3 DEF Next

(* What the invariant says of the three properties.                           *)
LEMMA ShellImplies ==
    ASSUME ShellInv
    PROVE  TargetIsSound /\ TargetIsFound /\ DeploymentCanBeUndone
<1>0. /\ ShellTypeOK /\ PlaceInv /\ UseInv /\ BuildInv /\ RestoreInv /\ BackupInv
      /\ RaceInv /\ VersionInv /\ HalfInv /\ PriorInv /\ FoundInv
      /\ dir[Target].state # "torn"
    BY DEF ShellInv
<1>1. TargetIsSound
    BY <1>0, LastingNames DEF HalfInv, TargetIsSound
<1>2. TargetIsFound
    BY <1>0 DEF TargetIsFound, FoundInv, SameContent, Exists
<1>3. DeploymentCanBeUndone
    <2> SUFFICES ASSUME NEW v \in 0..MaxVersion, prior[v] \notin {Missing, Unknown}, ~SameSecond
                 PROVE  \E t \in 0..MaxTime : SameContent(dir[Backup(t)], prior[v])
        BY DEF DeploymentCanBeUndone
    <2>1. PICK p \in Scripts :
            /\ dir[Backup(timestamp[p])] = copied[p]
            /\ SameContent(copied[p], prior[v])
        BY <1>0 DEF PriorInv
    <2>2. timestamp[p] \in 0..MaxTime
        BY <1>0 DEF ShellTypeOK
    <2> QED BY <2>1, <2>2
<1> QED BY <1>1, <1>2, <1>3

-----------------------------------------------------------------------------
(* All steps.                                                              *)

(* No run has begun anything.                                               *)
LEMMA InitInv == BuilderInit => IInv
<1> SUFFICES ASSUME BuilderInit PROVE IInv
    OBVIOUS
<1>1. \A p \in Scripts : pc[p] = "new" /\ copied[p] = Missing
    BY DEF BuilderInit, Init
<1>2. BuilderTypeOK
    <2>1. dir \in [Names -> ImageType]
        <3>1. PICK found \in {{}, {Target}, {Target, Backup(0)}} :
                dir = [name \in Names |->
                        IF name \notin found THEN Missing
                        ELSE Image("original", IF name = Target THEN 1 ELSE 0, "whole")]
            BY DEF BuilderInit, Init
        <3>2. /\ Image("original", 1, "whole") \in ImageType
              /\ Image("original", 0, "whole") \in ImageType
            BY DEF Image, ImageType
        <3>3. ASSUME NEW name \in Names
              PROVE  (IF name \notin found THEN Missing
                      ELSE Image("original", IF name = Target THEN 1 ELSE 0, "whole")) \in ImageType
            BY <3>2, MissingType
        <3> QED BY <3>1, <3>3
    <2>2. copied \in [Scripts -> ImageType]
        BY MissingType DEF BuilderInit, Init
    <2>3. pc \in [Scripts -> BuilderPlaces] /\ version \in Int
        BY DEF BuilderInit, Init, BuilderPlaces
    <2>4. loaded \in [Hives -> Scripts \cup {NoOne}] /\ mounted \in SUBSET Scripts
        BY DEF BuilderInit
    <2>5. /\ flags \in [Scripts -> SUBSET {"SYSTEM", "BCD", "image"}]
          /\ refused \in [Scripts -> SUBSET {"SYSTEM", "BCD", "image"}]
        BY DEF BuilderInit
    <2> QED BY <2>1, <2>2, <2>3, <2>4, <2>5 DEF BuilderTypeOK
<1>3. \A h \in Hives : loaded[h] = NoOne
    BY DEF BuilderInit
<1>4. HiveInv
    <2>1. \A h \in Hives, p \in Scripts :
            /\ loaded[h] # p /\ h \notin flags[p]
            /\ pc[p] \notin {Edit(h), Unload(h)} /\ pc[p] \notin PastHive(h)
        BY <1>1, <1>3, NoRun DEF BuilderInit, Edit, Unload, PastHive
    <2> QED BY <2>1 DEF HiveInv
<1>5. MountInv /\ LinuxInv
    BY <1>3 DEF BuilderInit, MountInv, LinuxInv
<1>6. PartialInv /\ KeptInv
    BY <1>1 DEF PartialInv, KeptInv, Working, Finished
<1>7. ShellInv
    BY ShellInit DEF BuilderInit
<1>8. QuietInv
    <2>1. /\ \A p \in Scripts : kind[p] = "build"
          /\ \A v \in 0..MaxVersion : prior[v] = Missing
        BY DEF BuilderInit, Init
    <2>2. dir[Target].state \in {"whole", "missing"}
        BY StampedNames DEF BuilderInit, Init, Image, Missing
    <2>3. ~Exists(Target) => \A name \in Stamped : ~Exists(name)
        BY <1>1, <1>7 DEF ShellInv, FoundInv
    <2> QED BY <2>1, <2>2, <2>3 DEF QuietInv
<1> QED BY <1>2, <1>4, <1>5, <1>6, <1>7, <1>8 DEF BuilderInit, IInv, WindowsInv

(* The only step of the Windows builder that puts a file under the target's     *)
(* name puts a whole one there; the others leave it, and the backups, alone.   *)
LEMMA QuietStep ==
    ASSUME WindowsInv, QuietInv, NEW p \in Scripts, BuilderStep(p)
    PROVE  QuietInv'
<1>0. BuilderTypeOK /\ PartialInv
    BY DEF WindowsInv
<1>1. kind' = kind /\ prior' = prior
    BY DEF BuilderStep, CheckOutput, CreateDisk, MountImage, CopyIn, Dismount, MoveItem,
        HashOutput, FinallyDismount, FinallyMove, Die, LoadHive, EditHive, UnloadHive,
        FinallyUnload, CommandFails, Steady
<1>2. /\ {Partial(p), Failed(p)} \subseteq Names \ ({Target} \cup Stamped)
      /\ Target \in Names /\ Stamped \subseteq Names /\ Target \notin Stamped
    BY ProcessNames, StampedNames
<1>3. /\ \A name \in Stamped : dir'[name] = dir[name]
      /\ dir'[Target] = dir[Target] \/ (dir'[Target].state = "whole" /\ dir'[Target].id = p)
    <2>1. CASE CreateDisk(p) \/ CopyIn(p)
        <3>1. \A name \in Names : name # Partial(p) => dir'[name] = dir[name]
            BY <1>0, <2>1 DEF CreateDisk, CopyIn, NewContent, BuilderTypeOK
        <3> QED BY <1>2, <3>1
    <2>2. CASE MoveItem(p)
        <3>1. /\ pc[p] = "publish"
              /\ dir' = [dir EXCEPT ![Target] = dir[Partial(p)], ![Partial(p)] = Missing]
            BY <2>2 DEF MoveItem, Goto
        <3>2. dir[Partial(p)].state = "whole" /\ dir[Partial(p)].id = p
            BY <1>0, <3>1 DEF PartialInv, Finished
        <3>3. /\ dir'[Target] = dir[Partial(p)]
              /\ \A name \in Names : name \notin {Target, Partial(p)} => dir'[name] = dir[name]
            BY <1>0, <1>2, <3>1 DEF BuilderTypeOK
        <3> QED BY <1>2, <3>2, <3>3
    <2>3. CASE FinallyMove(p)
        <3>1. \A name \in Names : name \notin {Partial(p), Failed(p)} => dir'[name] = dir[name]
            BY <1>0, <2>3 DEF FinallyMove, BuilderTypeOK
        <3> QED BY <1>2, <3>1
    <2>4. CASE dir' = dir
        BY <2>4
    <2> QED BY <2>1, <2>2, <2>3, <2>4 DEF BuilderStep, CheckOutput, MountImage, Dismount,
            HashOutput, FinallyDismount, Die, LoadHive, EditHive, UnloadHive,
            FinallyUnload, CommandFails, FilesUnchanged
<1>4. dir'[Target] = Missing => dir[Target] = Missing
    BY <1>3, NoFileType
<1> QED BY <1>1, <1>3, <1>4 DEF QuietInv, Exists

(* A run's step keeps what holds on Windows, and touches its own hives only.   *)
LEMMA RunStep ==
    ASSUME WindowsInv, NEW p \in Scripts, BuilderStep(p)
    PROVE  WindowsInv' /\ Owned
<1>1. ASSUME NEW h \in Hives,
             LoadHive(p, h) \/ EditHive(p, h) \/ UnloadHive(p, h) \/ FinallyUnload(p, h)
      PROVE  WindowsInv' /\ Owned
    BY <1>1, LoadStep, EditStep, UnloadStep, FinallyUnloadStep
<1>2. CASE CheckOutput(p) \/ CreateDisk(p) \/ MountImage(p) \/ CopyIn(p) \/ Dismount(p)
    BY <1>2, CheckOutputStep, CreateStep, MountStep, CopyInStep, DismountStep
<1>3. CASE MoveItem(p) \/ HashOutput(p) \/ FinallyDismount(p) \/ FinallyMove(p) \/ Die(p)
    BY <1>3, MoveItemStep, HashStep, FinallyDismountStep, FinallyMoveStep, DieStep
<1> QED BY <1>1, <1>2, <1>3, CommandFailsStep DEF BuilderStep

(* Every step keeps the invariant, and changes a run's own hives only.         *)
LEMMA NextInv == IInv /\ [BuilderNext]_builderVars => IInv' /\ (Owned \/ UNCHANGED builderVars)
<1> SUFFICES ASSUME IInv, [BuilderNext]_builderVars
             PROVE  IInv' /\ (Owned \/ UNCHANGED builderVars)
    OBVIOUS
<1>1. CASE host = "linux" /\ Next /\ UNCHANGED windowsVars
    <2>1. UNCHANGED <<host, loaded, mounted>>
        BY <1>1 DEF windowsVars, held
    <2>2. ShellInv'
        BY <1>1, ShellNext DEF IInv
    <2> QED BY <1>1, <2>1, <2>2 DEF IInv, LinuxInv, Owned
<1>2. CASE host = "windows" /\ \E p \in Scripts : BuilderStep(p)
    <2>1. PICK p \in Scripts : BuilderStep(p)
        BY <1>2
    <2>2. WindowsInv' /\ Owned
        BY <1>2, <2>1, RunStep DEF IInv
    <2>3. QuietInv'
        BY <1>2, <2>1, QuietStep DEF IInv
    <2>4. host' = host
        BY <2>1 DEF BuilderStep, CheckOutput, CreateDisk, MountImage, CopyIn,
           Dismount, MoveItem,
            HashOutput, FinallyDismount, FinallyMove, Die, LoadHive, EditHive, UnloadHive,
            FinallyUnload, CommandFails, Steady
    <2> QED BY <1>2, <2>2, <2>3, <2>4 DEF IInv
<1>3. CASE UNCHANGED builderVars
    <2>1. UNCHANGED <<host, loaded, mounted, flags, refused, pc, dir, copied, version>>
        BY <1>3 DEF builderVars, windowsVars, held, vars, scriptVars, history
    <2>2. LinuxInv => LinuxInv'
        BY <2>1 DEF LinuxInv
    <2>3. WindowsInv => WindowsInv'
        <3>1. BuilderTypeOK => BuilderTypeOK'
            BY <2>1 DEF BuilderTypeOK
        <3>2. HiveInv => HiveInv'
            BY <2>1 DEF HiveInv
        <3>3. MountInv => MountInv'
            BY <2>1 DEF MountInv
        <3>4. PartialInv => PartialInv'
            BY <2>1 DEF PartialInv
        <3>5. KeptInv => KeptInv'
            BY <2>1 DEF KeptInv, Kept
        <3> QED BY <3>1, <3>2, <3>3, <3>4, <3>5 DEF WindowsInv
    <2>4. ShellInv => ShellInv'
        <3>1. UNCHANGED <<clock, vm, dir, scriptVars, version, history>>
            BY <1>3 DEF builderVars, vars
        <3>2. ShellInv => clock' \in 0..MaxTime
            BY <3>1 DEF ShellInv, ShellTypeOK
        <3> QED BY <3>1, <3>2, IdleStep
    <2>5. QuietInv => QuietInv'
        <3>1. UNCHANGED <<kind, dir, prior>>
            BY <1>3 DEF builderVars, vars, scriptVars, history
        <3> QED BY <3>1 DEF QuietInv, Exists
    <2> QED BY <1>3, <2>1, <2>2, <2>3, <2>4, <2>5 DEF IInv
<1> QED BY <1>1, <1>2, <1>3 DEF BuilderNext

-----------------------------------------------------------------------------
(* The theorems.                                                           *)

(* The inductive invariant holds in every reachable state.                    *)
THEOREM Invariance == BuilderSpec => []IInv
BY InitInv, NextInv, PTL DEF BuilderSpec

(* Around the shell scripts every file is a whole, half or torn image or none,  *)
(* and what a VM or a script has open exists, whatever is renamed under it.    *)
THEOREM TypeCorrect == BuilderSpec => [](host = "linux" => TypeOK)
<1>1. IInv => (host = "linux" => TypeOK)
    <2> SUFFICES ASSUME ShellTypeOK, UseInv PROVE TypeOK
        BY DEF IInv, ShellInv
    <2>1. Target \in Names /\ Aways \subseteq Names /\ Stamped \subseteq Names
        BY DEF Names, Stamped, Aways
    <2>2. vm \in {NoFile} \cup {name \in Names : Exists(name)}
        BY <2>1 DEF ShellTypeOK, UseInv
    <2>3. open \in [Scripts -> {NoFile} \cup {name \in Names : Exists(name)}]
        BY <2>1 DEF ShellTypeOK, UseInv
    <2> QED BY <2>2, <2>3 DEF ShellTypeOK, FileType, TypeOK
<1> QED BY <1>1, Invariance, PTL

(* The finally blocks give back the hives and the mounted image, whatever      *)
(* threw where; what is left is what a command refused to give back.          *)
THEOREM GivenBack == BuilderSpec => []OnlyRefusedStays
<1>1. IInv => OnlyRefusedStays
    <2>1. CASE host = "linux"
        BY <2>1, NoRun DEF IInv, LinuxInv, OnlyRefusedStays
    <2>2. CASE host = "windows"
        <3>1. \A h \in Hives : "ended" \in PastHive(h)
            BY LatePlaces
        <3> QED BY <2>2, <3>1 DEF IInv, WindowsInv, HiveInv, MountInv, OnlyRefusedStays
    <2> QED BY <2>1, <2>2 DEF IInv
<1> QED BY <1>1, Invariance, PTL

(* No run loses the image it began, and none replaces that of another.         *)
THEOREM ImageKept == BuilderSpec => []BuildIsKept
<1>1. IInv => BuildIsKept
    BY DEF IInv, WindowsInv, KeptInv, Kept, BuildIsKept
<1> QED BY <1>1, Invariance, PTL

(* A run loads a hive only under a free name, and unloads only its own: every  *)
(* change of a hive's registration is made by the run that has it, or gets it. *)
THEOREM OwnHives == BuilderSpec => HiveOwner
<1>1. IInv /\ [BuilderNext]_builderVars => [Owned]_builderVars
    BY NextInv
<1>2. BuilderSpec => [][Owned]_builderVars
    BY <1>1, Invariance, PTL DEF BuilderSpec
<1>3. HiveOwner <=> [][Owned]_builderVars
    BY DEF HiveOwner, Owned
<1> QED BY <1>2, <1>3, PTL

(* What the invariant says of the image files, on either host.                *)
LEMMA FilesSafe == IInv => TargetIsSound /\ TargetIsFound /\ DeploymentCanBeUndone
<1>1. ASSUME WindowsInv, QuietInv PROVE TargetIsSound /\ TargetIsFound /\ DeploymentCanBeUndone
    <2>1. TargetIsSound
        BY <1>1 DEF QuietInv, TargetIsSound
    <2>2. TargetIsFound
        BY <1>1 DEF QuietInv, TargetIsFound
    <2>3. DeploymentCanBeUndone
        BY <1>1 DEF QuietInv, DeploymentCanBeUndone
    <2> QED BY <2>1, <2>2, <2>3
<1> QED BY <1>1, ShellImplies DEF IInv

(* No stop of a script, at any step, leaves a torn file or a half-built system *)
(* under the target's name: what is half there is the work of a payload that   *)
(* has been written over something.                                         *)
THEOREM TargetSound == BuilderSpec => []TargetIsSound
BY FilesSafe, Invariance, PTL

(* A target vanishes only between the two moves of a rollback, and then both    *)
(* images are found under their names.                                       *)
THEOREM TargetFound == BuilderSpec => []TargetIsFound
BY FilesSafe, Invariance, PTL

(* Unless two deployments were started in one second: whatever the scripts and  *)
(* the VM do, and wherever they stop, what a payload was written over is still  *)
(* in a backup, or another had written the target since the backup was made.    *)
THEOREM Undoable == BuilderSpec => []DeploymentCanBeUndone
BY FilesSafe, Invariance, PTL

===============================================================================
