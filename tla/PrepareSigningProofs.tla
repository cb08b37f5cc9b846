-------------------------- MODULE PrepareSigningProofs --------------------------
(* Proofs, for any number of stages, attempts and applications, of the safety *)
(* properties of PrepareSigning.                                             *)
EXTENDS PrepareSigning, TLAPS

-----------------------------------------------------------------------------
(* The inductive invariant.                                                *)

(* The places of the preparation after the boot, while the VM may run and     *)
(* then while the host installs what the guest left.                         *)
Collecting == {"check", "patch", "keep", "install", "set aside", "replace", "clean"}

(* The VM has the image only while the host script waits for it, or has given *)
(* up; a guest that is off neither runs nor has anything to read, and it ran  *)
(* the command no more often than the host typed it.                         *)
OwnerInv ==
    /\ mounted => host \notin Resting \cup {"boot", "wait"}
    /\ vm # "off" => host \in {"wait", "failed"} /\ ~mounted
    /\ vm = "off" => command = "none" /\ typed = 0
    /\ command # "none" => SYSTEM # NoHive
    /\ runs + typed <= sends

(* A marker that is found was written in this attempt, by a guest that had a  *)
(* hive to run on.                                                          *)
MarkerInv ==
    /\ host \in {"stage", "boot"} => ~readied
    /\ host \in {"boot", "wait"} \cup Collecting /\ marker = "ready" => readied
    /\ host \in Collecting \ {"check"} => readied
    /\ readied /\ host \in {"wait"} \cup (Collecting \ {"replace"}) => SYSTEM # NoHive

(* The hive a script is about to move or to replace has its counterpart under *)
(* another name.                                                            *)
HiveInv ==
    /\ target # NoHive => target.of = "generated"
    /\ SYSTEM = NoHive => target # NoHive /\ (win4 # NoHive \/ used # NoHive)
    /\ host = "copy hive" => SYSTEM # NoHive
    /\ host = "replace" => SYSTEM = NoHive
    /\ host \in {"apply wim", "move generated", "move stock"} => win4 # NoHive
    /\ host = "move generated" => SYSTEM.of = "generated"
    /\ host \in {"move stock", "require", "set aside", "replace"} => target # NoHive
    /\ applied => target # NoHive \/ SYSTEM.of = "generated"
    /\ applied /\ host \in {"clean", "done"} => SYSTEM.of = "generated"

(* The stock hive, as long as the generated system is applied once.           *)
StockHiveInv ==
    /\ host \in {"copy hive", "apply wim"} => applications > 0
    /\ applications = 0 => SYSTEM.of = "stock" /\ target = NoHive
    /\ applications = 1 =>
          /\ \E hive \in {SYSTEM, win4, used} : hive.of = "stock"
          /\ SYSTEM # NoHive /\ target # NoHive => "stock" \in {SYSTEM.of, win4.of}
          /\ host = "copy hive" => SYSTEM.of = "stock"
          /\ host \in {"apply wim", "move generated", "move stock"} => win4.of = "stock"

(* The boot store that was installed when the preparation began.             *)
StoreInv ==
    /\ host \in {"stage", "boot", "wait", "check", "patch", "keep", "install"} => BCD = begun
    /\ host = "install" => kept = BCD
    /\ begun = Stock => Stock \in {BCD, kept}
    /\ host \in {"keep", "install"} => store >= PatchStage

(* What a single run of the command, from its start to its end, leaves.       *)
CompleteInv ==
    /\ command # "none" \/ readied => runs >= 1
    /\ runs = 1 /\ readied => command \in {"shutdown", "none"}
    /\ runs = 1 /\ (command = "ready" \/ readied)
            /\ host \in {"wait", "check", "patch", "keep", "install", "set aside", "replace"} =>
          /\ store = Stages
          /\ IF target # NoHive THEN target.edited ELSE SYSTEM.edited
    /\ runs = 1 /\ host \in {"set aside", "replace", "clean", "done"} => BCD = Stages
    /\ runs = 1 /\ host \in {"clean", "done"} => SYSTEM.edited

IInv ==
    /\ TypeOK /\ OwnerInv /\ MarkerInv /\ HiveInv /\ StockHiveInv /\ StoreInv
    /\ CompleteInv

-----------------------------------------------------------------------------
(* Initially, and step by step.                                            *)

(* Whose hive a file holds tells whether it holds one.                        *)
LEMMA HiveOwner ==
    /\ NoHive \in HiveFile /\ NoHive.of = "none"
    /\ Hive("generated", FALSE) \in HiveFile /\ Hive("generated", FALSE).of = "generated"
    /\ \A hive \in HiveFile : hive # NoHive <=> hive.of \in {"stock", "generated"}
<1>1. NoHive.of = "none" /\ NoHive \in HiveFile
  BY DEF NoHive, Hive, HiveFile
<1>2. /\ Hive("generated", FALSE) \in HiveFile
      /\ Hive("generated", FALSE).of = "generated"
  BY DEF Hive, HiveFile
<1>3. ASSUME NEW hive \in HiveFile, hive # NoHive
      PROVE hive.of \in {"stock", "generated"}
  BY <1>3 DEF HiveFile
<1> QED
  BY <1>1, <1>2, <1>3

(* A hive that is edited stays the hive it was.                              *)
LEMMA EditedHive ==
    ASSUME NEW hive \in HiveFile, hive # NoHive
    PROVE  /\ Edited(hive) \in HiveFile /\ Edited(hive) # NoHive
           /\ Edited(hive).of = hive.of /\ Edited(hive).edited
<1>1. hive \in [of : {"stock", "generated"}, edited : BOOLEAN]
  BY DEF HiveFile
<1>2. /\ Edited(hive) \in [of : {"stock", "generated"}, edited : BOOLEAN]
      /\ Edited(hive).of = hive.of /\ Edited(hive).edited
  BY <1>1 DEF Edited
<1> QED
  BY <1>2, HiveOwner DEF HiveFile

(* The places that are named.                                                *)
LEMMA PlaceNames ==
    /\ "idle" \in Places /\ "applied" \in Places /\ "done" \in Places /\ "failed" \in Places
    /\ "copy hive" \in Places /\ "apply wim" \in Places /\ "move generated" \in Places
    /\ "move stock" \in Places /\ "require" \in Places
    /\ "stage" \in Places /\ "boot" \in Places /\ "wait" \in Places /\ "check" \in Places
    /\ "patch" \in Places /\ "keep" \in Places /\ "install" \in Places
    /\ "set aside" \in Places /\ "replace" \in Places /\ "clean" \in Places
BY DEF Places, Resting, ApplyPlaces, PreparePlaces

(* A script fails where one runs, but not in the wait for the VM.             *)
LEMMA FailEffect ==
    ASSUME Fail
    PROVE  /\ host \notin Resting \cup {"wait"} /\ host' = "failed" /\ mounted' = FALSE
           /\ UNCHANGED <<sends, attempts, guestVars, applyVars, files>>
<1>1. PICK place \in (ApplyPlaces \cup PreparePlaces) \ {"wait"} : HostStep(place, "failed")
  BY DEF Fail
<1>2. host = place /\ host' = "failed" /\ UNCHANGED <<sends, attempts, guestVars, applyVars>>
  BY <1>1 DEF HostStep
<1>3. place \notin Resting \cup {"wait"}
  BY DEF Resting, ApplyPlaces, PreparePlaces
<1> QED
  BY <1>2, <1>3 DEF Fail

(* The command edits the target hive, if there is one, otherwise the system's. *)
LEMMA ImportEffect ==
    ASSUME TypeOK, OwnerInv, Import
    PROVE  /\ vm # "off" /\ store = Stages /\ command = "bcdedit" /\ command' = "ready"
           /\ UNCHANGED <<host, mounted, sends, attempts, vm, typed, runs, readied, begun,
                          applications, applied, marker, store, BCD, kept, win4, used>>
           /\ SYSTEM # NoHive /\ SYSTEM' # NoHive /\ (target' = NoHive <=> target = NoHive)
           /\ SYSTEM' \in HiveFile /\ target' \in HiveFile
           /\ SYSTEM'.of = SYSTEM.of /\ target'.of = target.of
           /\ IF target # NoHive THEN target'.edited /\ SYSTEM' = SYSTEM
                                 ELSE SYSTEM'.edited /\ target' = target
<1>1. /\ vm # "off" /\ store = Stages /\ command = "bcdedit" /\ command' = "ready"
      /\ UNCHANGED <<host, mounted, sends, attempts, vm, typed, runs, readied, begun,
                     applications, applied, marker, store, BCD, kept, win4, used>>
  BY DEF Import, GuestStep, hostVars, applyVars, stores
<1>2. SYSTEM # NoHive /\ SYSTEM \in HiveFile /\ target \in HiveFile
  BY <1>1 DEF OwnerInv, TypeOK
<1>3. CASE target # NoHive
  <2>1. target' = Edited(target) /\ SYSTEM' = SYSTEM
    BY <1>3 DEF Import
  <2> QED
    BY <1>1, <1>2, <1>3, <2>1, EditedHive
<1>4. CASE target = NoHive
  <2>1. SYSTEM' = Edited(SYSTEM) /\ target' = target
    BY <1>4 DEF Import
  <2> QED
    BY <1>1, <1>2, <1>4, <2>1, EditedHive
<1> QED
  BY <1>3, <1>4

(* The counters count.                                                       *)
LEMMA Counters ==
    ASSUME TypeOK
    PROVE  runs \in Nat /\ typed \in Nat /\ sends \in Nat /\ applications \in Nat
<1>1. /\ runs \in 0..MaxSends /\ typed \in 0..MaxSends /\ sends \in 0..MaxSends
      /\ applications \in 0..MaxApplications
  BY DEF TypeOK
<1> QED
  BY <1>1, PrepareAssumption

(* The image as it came, and no script run yet.                              *)
LEMMA InitInv == Init => IInv
<1> SUFFICES ASSUME Init PROVE IInv
  OBVIOUS
<1> USE PrepareAssumption DEF Init
<1>1. TypeOK
  <2>1. Hive("stock", FALSE) \in HiveFile
    BY DEF HiveFile, Hive
  <2>2. /\ SYSTEM \in HiveFile /\ target \in HiveFile /\ win4 \in HiveFile
        /\ used \in HiveFile /\ host \in Places
    BY <2>1, PlaceNames, HiveOwner
  <2>3. /\ sends \in 0..MaxSends /\ typed \in 0..MaxSends /\ runs \in 0..MaxSends
        /\ attempts \in 0..MaxAttempts /\ applications \in 0..MaxApplications
    OBVIOUS
  <2>4. /\ store \in {Absent} \cup 0..Stages /\ BCD \in {Stock} \cup 0..Stages
        /\ kept \in {Absent, Stock} \cup 0..Stages /\ begun \in {Stock} \cup 0..Stages
    OBVIOUS
  <2>5. /\ mounted \in BOOLEAN /\ readied \in BOOLEAN /\ applied \in BOOLEAN
        /\ vm \in {"off", "on", "down"} /\ marker \in {"absent", "ready", "failed"}
        /\ command \in {"none", "copy-template", "bcdedit", "ready", "shutdown"}
    OBVIOUS
  <2> HIDE DEF Init
  <2> QED
    BY <2>2, <2>3, <2>4, <2>5 DEF TypeOK
<1>2. OwnerInv /\ MarkerInv /\ StoreInv /\ CompleteInv
  BY DEF OwnerInv, MarkerInv, StoreInv, CompleteInv, Collecting, Hive, NoHive, Resting
<1>3. HiveInv /\ StockHiveInv
  BY DEF HiveInv, StockHiveInv, Hive, NoHive
<1> QED
  BY <1>1, <1>2, <1>3 DEF IInv

(* Every variable keeps its type.                                            *)
LEMMA TypeStep == IInv /\ [Next]_vars => TypeOK'
<1> SUFFICES ASSUME IInv, [Next]_vars PROVE TypeOK'
  OBVIOUS
<1> USE PrepareAssumption DEF TypeOK, hostVars, guestVars, hives, applyVars, stores,
        files
<1>0. TypeOK /\ OwnerInv /\ StoreInv
  BY DEF IInv
<1>1. CASE Apply
  <2>1. host' \in Places
    BY <1>1, PlaceNames DEF Apply
  <2>2. /\ mounted' = TRUE /\ applications < MaxApplications
        /\ applications' = applications + 1
        /\ UNCHANGED <<sends, attempts, vm, typed, command, runs, readied, begun,
                         applied, marker, store, SYSTEM, target, win4, used, BCD, kept>>
    BY <1>1 DEF Apply
  <2>3. mounted' \in BOOLEAN /\ applications' \in 0..MaxApplications
    BY <1>0, <2>2
  <2>4. UNCHANGED <<sends, attempts, vm, typed, command, runs, readied, begun,
                    applied, marker, store, SYSTEM, target, win4, used, BCD, kept>>
    BY <2>2
  <2> QED
    BY <1>0, <2>1, <2>3, <2>4
<1>2. CASE CopyHive
  <2>1. host' \in Places
    BY <1>2, PlaceNames DEF CopyHive, ApplyStep
  <2>2. /\ win4' \in HiveFile
        /\ UNCHANGED <<mounted, sends, attempts, vm, typed, command, runs, readied,
                         begun, applications, applied, marker, store, SYSTEM, target, used,
                         BCD, kept>>
    BY <1>0, <1>2 DEF CopyHive, ApplyStep
  <2> QED
    BY <1>0, <2>1, <2>2
<1>3. CASE ApplyWim
  <2>1. host' \in Places
    BY <1>3, PlaceNames DEF ApplyWim, ApplyStep
  <2>2. /\ SYSTEM' \in HiveFile
        /\ UNCHANGED <<mounted, sends, attempts, vm, typed, command, runs, readied,
                         begun, applications, applied, marker, store, target, win4, used,
                         BCD, kept>>
    BY <1>0, <1>3, HiveOwner DEF ApplyWim, ApplyStep
  <2> QED
    BY <1>0, <2>1, <2>2
<1>4. CASE MoveGenerated
  <2>1. host' \in Places
    BY <1>4, PlaceNames DEF MoveGenerated, ApplyStep
  <2>2. /\ SYSTEM' \in HiveFile /\ target' \in HiveFile
        /\ UNCHANGED <<mounted, sends, attempts, vm, typed, command, runs, readied,
                         begun, applications, applied, marker, store, win4, used, BCD, kept>>
    BY <1>0, <1>4, HiveOwner DEF MoveGenerated, ApplyStep
  <2> QED
    BY <1>0, <2>1, <2>2
<1>5. CASE MoveStock
  <2>1. host' \in Places
    BY <1>5, PlaceNames DEF MoveStock, ApplyStep
  <2>2. /\ SYSTEM' \in HiveFile /\ win4' \in HiveFile
        /\ UNCHANGED <<mounted, sends, attempts, vm, typed, command, runs, readied,
                         begun, applications, applied, marker, store, target, used, BCD,
                         kept>>
    BY <1>0, <1>5, HiveOwner DEF MoveStock, ApplyStep
  <2> QED
    BY <1>0, <2>1, <2>2
<1>6. CASE Require
  BY <1>0, <1>6, PlaceNames DEF Require, ApplyStep
<1>7. CASE Start
  <2>1. host' \in Places
    BY <1>7, PlaceNames DEF Start
  <2>2. attempts < MaxAttempts /\ attempts' = attempts + 1
    BY <1>7 DEF Start
  <2>3. attempts' \in 0..MaxAttempts
    BY <1>0, <2>2
  <2>4. /\ mounted' \in BOOLEAN /\ readied' \in BOOLEAN
        /\ sends' = 0 /\ runs' = 0 /\ begun' = BCD
    BY <1>7 DEF Start
  <2>5. sends' \in 0..MaxSends /\ runs' \in 0..MaxSends
    BY <2>4
  <2>6. UNCHANGED <<vm, typed, command, applications, applied, marker, store, SYSTEM,
                    target, win4, used, BCD, kept>>
    BY <1>7 DEF Start
  <2>7. begun' \in {Stock} \cup 0..Stages
    BY <1>0, <2>4
  <2> QED
    BY <1>0, <2>1, <2>3, <2>4, <2>5, <2>6, <2>7
<1>8. CASE Stage
  BY <1>0, <1>8, PlaceNames DEF Stage
<1>9. CASE Boot
  BY <1>0, <1>9, PlaceNames DEF Boot
<1>10. CASE RunCommand
  BY <1>0, <1>10 DEF RunCommand, OwnerInv
<1>11. CASE CopyTemplate
  BY <1>0, <1>11 DEF CopyTemplate, GuestStep
<1>12. CASE BcdEdit
  BY <1>0, <1>12 DEF BcdEdit, Absent, GuestStep
<1>13. CASE Import
  <2>1. /\ command' = "ready" /\ SYSTEM' \in HiveFile /\ target' \in HiveFile
        /\ UNCHANGED <<host, mounted, sends, attempts, vm, typed, runs, readied, begun,
                       applications, applied, marker, store, BCD, kept, win4, used>>
    BY <1>0, <1>13, ImportEffect
  <2> QED
    BY <1>0, <2>1
<1>14. CASE MarkReady
  BY <1>0, <1>14 DEF MarkReady, GuestStep
<1>15. CASE MarkFailed
  BY <1>0, <1>15 DEF MarkFailed, GuestStep
<1>16. CASE Shutdown
  BY <1>0, <1>16 DEF Shutdown, GuestStep
<1>17. CASE PowerOff
  BY <1>0, <1>17 DEF PowerOff
<1>18. CASE Send
  BY <1>0, <1>18 DEF Send, OwnerInv
<1>19. CASE TimeOut
  BY <1>0, <1>19, PlaceNames DEF TimeOut
<1>20. CASE Collect
  BY <1>0, <1>20, PlaceNames DEF Collect
<1>21. CASE Check
  BY <1>0, <1>21, PlaceNames DEF Check, HostStep
<1>22. CASE Patch
  <2>1. host' \in Places
    BY <1>22, PlaceNames DEF Patch, HostStep
  <2>2. UNCHANGED <<mounted, sends, attempts, vm, typed, command, runs, readied,
                         begun, applications, applied, marker, store, SYSTEM, target, win4,
                         used, BCD, kept>>
    BY <1>0, <1>22 DEF Patch, HostStep
  <2> QED
    BY <1>0, <2>1, <2>2
<1>23. CASE Keep
  BY <1>0, <1>23, PlaceNames DEF Keep, HostStep
<1>24. CASE Install
  <2>1. host' \in Places
    BY <1>24, PlaceNames DEF Install, HostStep
  <2>2. /\ host = "install" /\ BCD' = store
        /\ UNCHANGED <<mounted, sends, attempts, vm, typed, command, runs, readied,
                         begun, applications, applied, marker, store, SYSTEM, target, win4,
                         used, kept>>
    BY <1>24 DEF Install, HostStep
  <2>3. BCD' \in 0..Stages
    BY <1>0, <2>2 DEF StoreInv, Absent
  <2> QED
    BY <1>0, <2>1, <2>2, <2>3
<1>25. CASE SetAside
  <2>1. host' \in Places
    BY <1>25, PlaceNames DEF SetAside, HostStep
  <2>2. /\ SYSTEM' \in HiveFile /\ used' \in HiveFile
        /\ UNCHANGED <<mounted, sends, attempts, vm, typed, command, runs, readied,
                         begun, applications, applied, marker, store, target, win4, BCD,
                         kept>>
    BY <1>0, <1>25, HiveOwner DEF SetAside, HostStep
  <2> QED
    BY <1>0, <2>1, <2>2
<1>26. CASE Replace
  <2>1. host' \in Places
    BY <1>26, PlaceNames DEF Replace, HostStep
  <2>2. /\ SYSTEM' \in HiveFile /\ target' \in HiveFile
        /\ UNCHANGED <<mounted, sends, attempts, vm, typed, command, runs, readied,
                         begun, applications, applied, marker, store, win4, used, BCD, kept>>
    BY <1>0, <1>26, HiveOwner DEF Replace, HostStep
  <2> QED
    BY <1>0, <2>1, <2>2
<1>27. CASE Clean
  BY <1>0, <1>27, PlaceNames DEF Clean, Absent, HostStep
<1>28. CASE Fail
  BY <1>0, <1>28, PlaceNames, FailEffect
<1>29. CASE UNCHANGED vars
  BY <1>0, <1>29 DEF vars
<1> QED
  BY <1>1, <1>2, <1>3, <1>4, <1>5, <1>6, <1>7, <1>8, <1>9, <1>10, <1>11,
     <1>12, <1>13, <1>14, <1>15, <1>16, <1>17, <1>18, <1>19, <1>20, <1>21,
     <1>22, <1>23, <1>24, <1>25, <1>26, <1>27, <1>28, <1>29 DEF Next,
     HostNext, GuestNext

(* The VM and the host keep off the image in turn.                           *)
LEMMA OwnerStep == IInv /\ [Next]_vars => OwnerInv'
<1> SUFFICES ASSUME IInv, [Next]_vars PROVE OwnerInv'
  OBVIOUS
<1> USE PrepareAssumption DEF TypeOK, OwnerInv, hostVars, guestVars, hives, applyVars,
        stores, files, Resting, Collecting
<1>0. TypeOK /\ OwnerInv /\ MarkerInv /\ HiveInv
  BY DEF IInv
<1>1. CASE Apply
  BY <1>0, <1>1 DEF Apply
<1>2. CASE CopyHive
  BY <1>0, <1>2 DEF CopyHive, ApplyStep
<1>3. CASE ApplyWim
  BY <1>0, <1>3 DEF ApplyWim, ApplyStep
<1>4. CASE MoveGenerated
  BY <1>0, <1>4 DEF MoveGenerated, ApplyStep
<1>5. CASE MoveStock
  BY <1>0, <1>5 DEF MoveStock, ApplyStep
<1>6. CASE Require
  BY <1>0, <1>6 DEF Require, ApplyStep
<1>7. CASE Start
  BY <1>0, <1>7 DEF Start
<1>8. CASE Stage
  BY <1>0, <1>8 DEF Stage
<1>9. CASE Boot
  BY <1>0, <1>9 DEF Boot
<1>10. CASE RunCommand
  BY <1>0, <1>10 DEF RunCommand
<1>11. CASE CopyTemplate
  BY <1>0, <1>11 DEF CopyTemplate, GuestStep
<1>12. CASE BcdEdit
  BY <1>0, <1>12 DEF BcdEdit, GuestStep
<1>13. CASE Import
  BY <1>0, <1>13, ImportEffect
<1>14. CASE MarkReady
  BY <1>0, <1>14 DEF MarkReady, GuestStep
<1>15. CASE MarkFailed
  BY <1>0, <1>15 DEF MarkFailed, GuestStep
<1>16. CASE Shutdown
  BY <1>0, <1>16 DEF Shutdown, GuestStep
<1>17. CASE PowerOff
  BY <1>0, <1>17 DEF PowerOff
<1>18. CASE Send
  <2>1. /\ vm # "off" /\ host = "wait" /\ sends' = sends + 1
        /\ typed' = typed \/ typed' = typed + 1
        /\ UNCHANGED <<host, mounted, vm, command, SYSTEM, runs>>
    BY <1>18 DEF Send
  <2>2. runs' + typed' <= sends'
    BY <1>0, <2>1
  <2> QED
    BY <1>0, <2>1, <2>2
<1>19. CASE TimeOut
  BY <1>0, <1>19 DEF TimeOut
<1>20. CASE Collect
  BY <1>0, <1>20 DEF Collect
<1>21. CASE Check
  BY <1>0, <1>21 DEF Check, HostStep
<1>22. CASE Patch
  BY <1>0, <1>22 DEF Patch, HostStep
<1>23. CASE Keep
  BY <1>0, <1>23 DEF Keep, HostStep
<1>24. CASE Install
  BY <1>0, <1>24 DEF Install, HostStep
<1>25. CASE SetAside
  BY <1>0, <1>25 DEF SetAside, HostStep
<1>26. CASE Replace
  BY <1>0, <1>26 DEF Replace, HostStep
<1>27. CASE Clean
  BY <1>0, <1>27 DEF Clean, HostStep
<1>28. CASE Fail
  BY <1>0, <1>28, FailEffect
<1>29. CASE UNCHANGED vars
  BY <1>0, <1>29 DEF vars
<1> QED
  BY <1>1, <1>2, <1>3, <1>4, <1>5, <1>6, <1>7, <1>8, <1>9, <1>10, <1>11,
     <1>12, <1>13, <1>14, <1>15, <1>16, <1>17, <1>18, <1>19, <1>20, <1>21,
     <1>22, <1>23, <1>24, <1>25, <1>26, <1>27, <1>28, <1>29 DEF Next,
     HostNext, GuestNext

(* The marker is that of this attempt.                                       *)
LEMMA MarkerStep == IInv /\ [Next]_vars => MarkerInv'
<1> SUFFICES ASSUME IInv, [Next]_vars PROVE MarkerInv'
  OBVIOUS
<1> USE PrepareAssumption DEF OwnerInv, MarkerInv, hostVars, guestVars, hives,
        applyVars, stores, files, Resting, Collecting
<1>0. TypeOK /\ OwnerInv /\ MarkerInv /\ HiveInv
  BY DEF IInv
<1>1. CASE Apply
  BY <1>0, <1>1 DEF Apply
<1>2. CASE CopyHive
  BY <1>0, <1>2 DEF CopyHive, ApplyStep
<1>3. CASE ApplyWim
  BY <1>0, <1>3 DEF ApplyWim, ApplyStep
<1>4. CASE MoveGenerated
  BY <1>0, <1>4 DEF MoveGenerated, ApplyStep
<1>5. CASE MoveStock
  BY <1>0, <1>5 DEF MoveStock, ApplyStep
<1>6. CASE Require
  BY <1>0, <1>6 DEF Require, ApplyStep
<1>7. CASE Start
  BY <1>0, <1>7 DEF Start
<1>8. CASE Stage
  BY <1>0, <1>8 DEF Stage
<1>9. CASE Boot
  <2>1. /\ host = "boot" /\ host' = "wait" /\ vm = "off"
        /\ UNCHANGED <<mounted, marker, readied, SYSTEM>>
    BY <1>0, <1>9 DEF Boot
  <2> QED
    BY <1>0, <2>1
<1>10. CASE RunCommand
  BY <1>0, <1>10 DEF RunCommand
<1>11. CASE CopyTemplate
  BY <1>0, <1>11 DEF CopyTemplate, GuestStep
<1>12. CASE BcdEdit
  BY <1>0, <1>12 DEF BcdEdit, GuestStep
<1>13. CASE Import
  BY <1>0, <1>13, ImportEffect
<1>14. CASE MarkReady
  BY <1>0, <1>14 DEF MarkReady, GuestStep
<1>15. CASE MarkFailed
  BY <1>0, <1>15 DEF MarkFailed, GuestStep
<1>16. CASE Shutdown
  BY <1>0, <1>16 DEF Shutdown, GuestStep
<1>17. CASE PowerOff
  BY <1>0, <1>17 DEF PowerOff
<1>18. CASE Send
  BY <1>0, <1>18 DEF Send
<1>19. CASE TimeOut
  BY <1>0, <1>19 DEF TimeOut
<1>20. CASE Collect
  BY <1>0, <1>20 DEF Collect
<1>21. CASE Check
  BY <1>0, <1>21 DEF Check, HostStep
<1>22. CASE Patch
  BY <1>0, <1>22 DEF Patch, HostStep
<1>23. CASE Keep
  BY <1>0, <1>23 DEF Keep, HostStep
<1>24. CASE Install
  BY <1>0, <1>24 DEF Install, HostStep
<1>25. CASE SetAside
  BY <1>0, <1>25 DEF SetAside, HostStep
<1>26. CASE Replace
  BY <1>0, <1>26 DEF Replace, HostStep, HiveInv
<1>27. CASE Clean
  BY <1>0, <1>27 DEF Clean, HostStep
<1>28. CASE Fail
  BY <1>0, <1>28, FailEffect
<1>29. CASE UNCHANGED vars
  BY <1>0, <1>29 DEF vars
<1> QED
  BY <1>1, <1>2, <1>3, <1>4, <1>5, <1>6, <1>7, <1>8, <1>9, <1>10, <1>11,
     <1>12, <1>13, <1>14, <1>15, <1>16, <1>17, <1>18, <1>19, <1>20, <1>21,
     <1>22, <1>23, <1>24, <1>25, <1>26, <1>27, <1>28, <1>29 DEF Next,
     HostNext, GuestNext

(* A hive is never moved away without another.                               *)
LEMMA HiveStep == IInv /\ [Next]_vars => HiveInv'
<1> SUFFICES ASSUME IInv, [Next]_vars PROVE HiveInv'
  OBVIOUS
<1> USE PrepareAssumption DEF OwnerInv, HiveInv, hostVars, guestVars, hives,
        applyVars, stores, files, Resting, Collecting
<1>0. TypeOK /\ OwnerInv /\ MarkerInv /\ HiveInv
  BY DEF IInv
<1>1. CASE Apply
  BY <1>0, <1>1 DEF Apply
<1>2. CASE CopyHive
  BY <1>0, <1>2 DEF CopyHive, ApplyStep
<1>3. CASE ApplyWim
  BY <1>0, <1>3, HiveOwner DEF ApplyWim, ApplyStep, TypeOK
<1>4. CASE MoveGenerated
  BY <1>0, <1>4, HiveOwner DEF MoveGenerated, ApplyStep, TypeOK
<1>5. CASE MoveStock
  BY <1>0, <1>5 DEF MoveStock, ApplyStep
<1>6. CASE Require
  BY <1>0, <1>6 DEF Require, ApplyStep
<1>7. CASE Start
  BY <1>0, <1>7 DEF Start
<1>8. CASE Stage
  BY <1>0, <1>8 DEF Stage
<1>9. CASE Boot
  BY <1>0, <1>9 DEF Boot
<1>10. CASE RunCommand
  BY <1>0, <1>10 DEF RunCommand
<1>11. CASE CopyTemplate
  BY <1>0, <1>11 DEF CopyTemplate, GuestStep
<1>12. CASE BcdEdit
  BY <1>0, <1>12 DEF BcdEdit, GuestStep
<1>13. CASE Import
  <2>1. /\ host' = host /\ applied' = applied /\ win4' = win4 /\ used' = used
        /\ SYSTEM # NoHive /\ SYSTEM' # NoHive /\ (target' = NoHive <=> target = NoHive)
        /\ SYSTEM'.of = SYSTEM.of /\ target'.of = target.of
        /\ host \in {"wait", "failed"}
    BY <1>0, <1>13, ImportEffect
  <2> QED
    BY <1>0, <2>1
<1>14. CASE MarkReady
  BY <1>0, <1>14 DEF MarkReady, GuestStep
<1>15. CASE MarkFailed
  <2>1. UNCHANGED <<host, SYSTEM, target, win4, used, applied>>
    BY <1>15 DEF MarkFailed, GuestStep
  <2> QED
    BY <1>0, <2>1
<1>16. CASE Shutdown
  BY <1>0, <1>16 DEF Shutdown, GuestStep
<1>17. CASE PowerOff
  BY <1>0, <1>17 DEF PowerOff
<1>18. CASE Send
  BY <1>0, <1>18 DEF Send
<1>19. CASE TimeOut
  BY <1>0, <1>19 DEF TimeOut
<1>20. CASE Collect
  BY <1>0, <1>20 DEF Collect
<1>21. CASE Check
  BY <1>0, <1>21 DEF Check, HostStep
<1>22. CASE Patch
  BY <1>0, <1>22 DEF Patch, HostStep
<1>23. CASE Keep
  BY <1>0, <1>23 DEF Keep, HostStep
<1>24. CASE Install
  BY <1>0, <1>24 DEF Install, HostStep
<1>25. CASE SetAside
  BY <1>0, <1>25, HiveOwner DEF SetAside, HostStep, MarkerInv
<1>26. CASE Replace
  BY <1>0, <1>26, HiveOwner DEF Replace, HostStep, MarkerInv, TypeOK
<1>27. CASE Clean
  BY <1>0, <1>27 DEF Clean, HostStep
<1>28. CASE Fail
  <2>1. host' = "failed" /\ UNCHANGED <<SYSTEM, target, win4, used, applied>>
    BY <1>28, FailEffect
  <2> QED
    BY <1>0, <2>1
<1>29. CASE UNCHANGED vars
  BY <1>0, <1>29 DEF vars
<1> QED
  BY <1>1, <1>2, <1>3, <1>4, <1>5, <1>6, <1>7, <1>8, <1>9, <1>10, <1>11,
     <1>12, <1>13, <1>14, <1>15, <1>16, <1>17, <1>18, <1>19, <1>20, <1>21,
     <1>22, <1>23, <1>24, <1>25, <1>26, <1>27, <1>28, <1>29 DEF Next,
     HostNext, GuestNext

(* The stock hive stays in the image.                                        *)
LEMMA StockHiveStep == IInv /\ [Next]_vars => StockHiveInv'
<1> SUFFICES ASSUME IInv, [Next]_vars PROVE StockHiveInv'
  OBVIOUS
<1> USE PrepareAssumption DEF OwnerInv, StockHiveInv, hostVars, guestVars, hives,
        applyVars, stores, files, Resting, Collecting
<1>0. TypeOK /\ OwnerInv /\ MarkerInv /\ HiveInv /\ StockHiveInv
  BY DEF IInv
<1>1. CASE Apply
  <2>1. applications' = applications + 1
    BY <1>1 DEF Apply
  <2>2. applications \in Nat
    BY <1>0, Counters
  <2>3. applications' > 0 /\ applications' # 0 /\ (applications' = 1 => applications = 0)
    BY <2>1, <2>2
  <2>4. applications = 0 => SYSTEM.of = "stock" /\ target = NoHive
    BY <1>0
  <2>5. /\ host' = "copy hive" /\ SYSTEM # NoHive
        /\ UNCHANGED <<SYSTEM, target, win4, used>>
    BY <1>1 DEF Apply
  <2> QED
    BY <2>3, <2>4, <2>5
<1>2. CASE CopyHive
  BY <1>0, <1>2 DEF CopyHive, ApplyStep
<1>3. CASE ApplyWim
  <2>1. /\ host = "apply wim" /\ host' = "move generated"
        /\ applications' = applications /\ target' = target /\ win4' = win4 /\ used' = used
    BY <1>3 DEF ApplyWim, ApplyStep
  <2>2. applications # 0 /\ (applications = 1 => win4.of = "stock")
    <3>1. applications > 0 /\ (applications = 1 => win4.of = "stock")
      BY <1>0, <2>1
    <3>2. applications \in Nat
      BY <1>0, Counters
    <3> QED
      BY <3>1, <3>2
  <2>3. host' \notin {"copy hive"} /\ applications' > 0
    BY <1>0, <2>1
  <2> QED
    BY <2>1, <2>2, <2>3
<1>4. CASE MoveGenerated
  BY <1>0, <1>4, HiveOwner DEF MoveGenerated, ApplyStep, HiveInv, TypeOK
<1>5. CASE MoveStock
  BY <1>0, <1>5, HiveOwner DEF MoveStock, ApplyStep, HiveInv, TypeOK
<1>6. CASE Require
  BY <1>0, <1>6 DEF Require, ApplyStep
<1>7. CASE Start
  BY <1>0, <1>7 DEF Start
<1>8. CASE Stage
  BY <1>0, <1>8 DEF Stage
<1>9. CASE Boot
  BY <1>0, <1>9 DEF Boot
<1>10. CASE RunCommand
  BY <1>0, <1>10 DEF RunCommand
<1>11. CASE CopyTemplate
  BY <1>0, <1>11 DEF CopyTemplate, GuestStep
<1>12. CASE BcdEdit
  BY <1>0, <1>12 DEF BcdEdit, GuestStep
<1>13. CASE Import
  BY <1>0, <1>13, ImportEffect
<1>14. CASE MarkReady
  BY <1>0, <1>14 DEF MarkReady, GuestStep
<1>15. CASE MarkFailed
  BY <1>0, <1>15 DEF MarkFailed, GuestStep
<1>16. CASE Shutdown
  BY <1>0, <1>16 DEF Shutdown, GuestStep
<1>17. CASE PowerOff
  BY <1>0, <1>17 DEF PowerOff
<1>18. CASE Send
  BY <1>0, <1>18 DEF Send
<1>19. CASE TimeOut
  BY <1>0, <1>19 DEF TimeOut
<1>20. CASE Collect
  BY <1>0, <1>20 DEF Collect
<1>21. CASE Check
  BY <1>0, <1>21 DEF Check, HostStep
<1>22. CASE Patch
  BY <1>0, <1>22 DEF Patch, HostStep
<1>23. CASE Keep
  BY <1>0, <1>23 DEF Keep, HostStep
<1>24. CASE Install
  BY <1>0, <1>24 DEF Install, HostStep
<1>25. CASE SetAside
  <2>1. SYSTEM # NoHive /\ target # NoHive
    BY <1>0, <1>25 DEF SetAside, HostStep, MarkerInv, HiveInv
  <2>2. /\ host' = "replace" /\ used' = SYSTEM /\ SYSTEM' = NoHive
        /\ UNCHANGED <<applications, target, win4>>
    BY <1>25 DEF SetAside, HostStep
  <2> QED
    BY <1>0, <2>1, <2>2
<1>26. CASE Replace
  <2>1. SYSTEM = NoHive /\ target # NoHive
    BY <1>0, <1>26 DEF Replace, HostStep, HiveInv
  <2>2. /\ host' = "clean" /\ SYSTEM' = target /\ target' = NoHive
        /\ UNCHANGED <<applications, win4, used>>
    BY <1>26 DEF Replace, HostStep
  <2> QED
    BY <1>0, <2>1, <2>2, HiveOwner
<1>27. CASE Clean
  BY <1>0, <1>27 DEF Clean, HostStep
<1>28. CASE Fail
  BY <1>0, <1>28, FailEffect
<1>29. CASE UNCHANGED vars
  BY <1>0, <1>29 DEF vars
<1> QED
  BY <1>1, <1>2, <1>3, <1>4, <1>5, <1>6, <1>7, <1>8, <1>9, <1>10, <1>11,
     <1>12, <1>13, <1>14, <1>15, <1>16, <1>17, <1>18, <1>19, <1>20, <1>21,
     <1>22, <1>23, <1>24, <1>25, <1>26, <1>27, <1>28, <1>29 DEF Next,
     HostNext, GuestNext

(* The installed store is kept before it is replaced.                        *)
LEMMA StoreStep == IInv /\ [Next]_vars => StoreInv'
<1> SUFFICES ASSUME IInv, [Next]_vars PROVE StoreInv'
  OBVIOUS
<1> USE PrepareAssumption DEF OwnerInv, StoreInv, hostVars, guestVars, hives,
        applyVars, stores, files, Resting, Collecting
<1>0. TypeOK /\ OwnerInv /\ StoreInv
  BY DEF IInv
<1>1. CASE Apply
  BY <1>0, <1>1 DEF Apply
<1>2. CASE CopyHive
  BY <1>0, <1>2 DEF CopyHive, ApplyStep
<1>3. CASE ApplyWim
  BY <1>0, <1>3 DEF ApplyWim, ApplyStep
<1>4. CASE MoveGenerated
  BY <1>0, <1>4 DEF MoveGenerated, ApplyStep
<1>5. CASE MoveStock
  BY <1>0, <1>5 DEF MoveStock, ApplyStep
<1>6. CASE Require
  BY <1>0, <1>6 DEF Require, ApplyStep
<1>7. CASE Start
  BY <1>0, <1>7 DEF Start
<1>8. CASE Stage
  BY <1>0, <1>8 DEF Stage
<1>9. CASE Boot
  BY <1>0, <1>9 DEF Boot
<1>10. CASE RunCommand
  BY <1>0, <1>10 DEF RunCommand
<1>11. CASE CopyTemplate
  BY <1>0, <1>11 DEF CopyTemplate, GuestStep
<1>12. CASE BcdEdit
  BY <1>0, <1>12 DEF BcdEdit, GuestStep
<1>13. CASE Import
  BY <1>0, <1>13, ImportEffect
<1>14. CASE MarkReady
  BY <1>0, <1>14 DEF MarkReady, GuestStep
<1>15. CASE MarkFailed
  BY <1>0, <1>15 DEF MarkFailed, GuestStep
<1>16. CASE Shutdown
  BY <1>0, <1>16 DEF Shutdown, GuestStep
<1>17. CASE PowerOff
  BY <1>0, <1>17 DEF PowerOff
<1>18. CASE Send
  BY <1>0, <1>18 DEF Send
<1>19. CASE TimeOut
  BY <1>0, <1>19 DEF TimeOut
<1>20. CASE Collect
  BY <1>0, <1>20 DEF Collect
<1>21. CASE Check
  BY <1>0, <1>21 DEF Check, HostStep
<1>22. CASE Patch
  BY <1>0, <1>22 DEF Patch, HostStep
<1>23. CASE Keep
  BY <1>0, <1>23 DEF Keep, HostStep
<1>24. CASE Install
  BY <1>0, <1>24 DEF Install, HostStep
<1>25. CASE SetAside
  BY <1>0, <1>25 DEF SetAside, HostStep
<1>26. CASE Replace
  BY <1>0, <1>26 DEF Replace, HostStep
<1>27. CASE Clean
  BY <1>0, <1>27 DEF Clean, HostStep
<1>28. CASE Fail
  BY <1>0, <1>28, FailEffect
<1>29. CASE UNCHANGED vars
  BY <1>0, <1>29 DEF vars
<1> QED
  BY <1>1, <1>2, <1>3, <1>4, <1>5, <1>6, <1>7, <1>8, <1>9, <1>10, <1>11,
     <1>12, <1>13, <1>14, <1>15, <1>16, <1>17, <1>18, <1>19, <1>20, <1>21,
     <1>22, <1>23, <1>24, <1>25, <1>26, <1>27, <1>28, <1>29 DEF Next,
     HostNext, GuestNext

(* A single run of the command leaves what the host installs.                *)
LEMMA CompleteStep == IInv /\ [Next]_vars => CompleteInv'
<1> SUFFICES ASSUME IInv, [Next]_vars PROVE CompleteInv'
  OBVIOUS
<1> USE PrepareAssumption DEF OwnerInv, CompleteInv, hostVars, guestVars, hives,
        applyVars, stores, files, Resting, Collecting
<1>0. TypeOK /\ OwnerInv /\ MarkerInv /\ HiveInv /\ CompleteInv
  BY DEF IInv
<1>1. CASE Apply
  BY <1>0, <1>1 DEF Apply
<1>2. CASE CopyHive
  BY <1>0, <1>2 DEF CopyHive, ApplyStep
<1>3. CASE ApplyWim
  BY <1>0, <1>3 DEF ApplyWim, ApplyStep
<1>4. CASE MoveGenerated
  BY <1>0, <1>4 DEF MoveGenerated, ApplyStep
<1>5. CASE MoveStock
  BY <1>0, <1>5 DEF MoveStock, ApplyStep
<1>6. CASE Require
  BY <1>0, <1>6 DEF Require, ApplyStep
<1>7. CASE Start
  BY <1>0, <1>7 DEF Start
<1>8. CASE Stage
  BY <1>0, <1>8 DEF Stage
<1>9. CASE Boot
  <2>1. /\ host = "boot" /\ host' = "wait" /\ ~readied /\ command = "none"
        /\ UNCHANGED <<command, runs, readied, store, SYSTEM, target, BCD>>
    BY <1>0, <1>9 DEF Boot, MarkerInv
  <2> QED
    BY <1>0, <2>1
<1>10. CASE RunCommand
  <2>1. /\ host' = host /\ host \in {"wait", "failed"} /\ command' = "copy-template"
        /\ runs' = runs + 1
        /\ UNCHANGED <<readied, store, SYSTEM, target, BCD>>
    BY <1>0, <1>10 DEF RunCommand
  <2>2. runs \in Nat
    BY <1>0, Counters
  <2>3. runs' >= 1 /\ (runs' = 1 => runs = 0)
    BY <2>1, <2>2
  <2>4. runs = 0 => ~readied
    BY <1>0, <2>2
  <2> QED
    BY <2>1, <2>3, <2>4
<1>11. CASE CopyTemplate
  BY <1>0, <1>11 DEF CopyTemplate, GuestStep
<1>12. CASE BcdEdit
  BY <1>0, <1>12 DEF BcdEdit, GuestStep
<1>13. CASE Import
  <2>1. /\ host' = host /\ host \in {"wait", "failed"} /\ store = Stages
        /\ command = "bcdedit" /\ command' = "ready"
        /\ UNCHANGED <<runs, readied, store, BCD>>
        /\ (target' = NoHive <=> target = NoHive)
        /\ IF target # NoHive THEN target'.edited ELSE SYSTEM'.edited
    BY <1>0, <1>13, ImportEffect
  <2>2. runs = 1 => ~readied
    BY <1>0, <2>1
  <2> QED
    BY <1>0, <2>1, <2>2
<1>14. CASE MarkReady
  BY <1>0, <1>14 DEF MarkReady, GuestStep
<1>15. CASE MarkFailed
  BY <1>0, <1>15 DEF MarkFailed, GuestStep
<1>16. CASE Shutdown
  BY <1>0, <1>16 DEF Shutdown, GuestStep
<1>17. CASE PowerOff
  BY <1>0, <1>17 DEF PowerOff
<1>18. CASE Send
  BY <1>0, <1>18 DEF Send
<1>19. CASE TimeOut
  BY <1>0, <1>19 DEF TimeOut
<1>20. CASE Collect
  BY <1>0, <1>20 DEF Collect
<1>21. CASE Check
  BY <1>0, <1>21 DEF Check, HostStep
<1>22. CASE Patch
  BY <1>0, <1>22 DEF Patch, HostStep
<1>23. CASE Keep
  BY <1>0, <1>23 DEF Keep, HostStep
<1>24. CASE Install
  <2>1. /\ host = "install" /\ BCD' = store /\ readied
        /\ host' = IF target # NoHive THEN "set aside" ELSE "clean"
        /\ UNCHANGED <<command, runs, readied, store, SYSTEM, target>>
    BY <1>0, <1>24 DEF Install, HostStep, MarkerInv
  <2> QED
    BY <1>0, <2>1
<1>25. CASE SetAside
  <2>1. /\ host = "set aside" /\ host' = "replace" /\ target # NoHive /\ readied
        /\ UNCHANGED <<command, runs, readied, store, BCD, target>>
    BY <1>0, <1>25 DEF SetAside, HostStep, MarkerInv, HiveInv
  <2> QED
    BY <1>0, <2>1
<1>26. CASE Replace
  <2>1. /\ host = "replace" /\ host' = "clean" /\ target # NoHive /\ readied
        /\ SYSTEM' = target
        /\ UNCHANGED <<command, runs, readied, store, BCD>>
    BY <1>0, <1>26 DEF Replace, HostStep, MarkerInv, HiveInv
  <2> QED
    BY <1>0, <2>1
<1>27. CASE Clean
  BY <1>0, <1>27 DEF Clean, HostStep
<1>28. CASE Fail
  <2>1. /\ host' = "failed"
        /\ UNCHANGED <<command, runs, readied, store, BCD, SYSTEM, target>>
    BY <1>28, FailEffect
  <2> QED
    BY <1>0, <2>1
<1>29. CASE UNCHANGED vars
  BY <1>0, <1>29 DEF vars
<1> QED
  BY <1>1, <1>2, <1>3, <1>4, <1>5, <1>6, <1>7, <1>8, <1>9, <1>10, <1>11,
     <1>12, <1>13, <1>14, <1>15, <1>16, <1>17, <1>18, <1>19, <1>20, <1>21,
     <1>22, <1>23, <1>24, <1>25, <1>26, <1>27, <1>28, <1>29 DEF Next,
     HostNext, GuestNext

-----------------------------------------------------------------------------
(* The invariant holds, and what follows from it.                           *)

(* The inductive invariant holds in every state.                            *)
THEOREM Invariance == Spec => []IInv
<1>1. IInv /\ [Next]_vars => IInv'
  BY TypeStep, OwnerStep, MarkerStep, HiveStep, StockHiveStep, StoreStep, CompleteStep
     DEF IInv
<1> QED
  BY InitInv, <1>1, PTL DEF Spec

(* Every variable of the two scripts and of the guest has its type: the guest  *)
(* never runs a command more often than it was typed.                        *)
THEOREM TypeCorrect == Spec => []TypeOK
<1>1. IInv => TypeOK
  BY DEF IInv
<1> QED
  BY Invariance, <1>1, PTL

(* attach_image and the qcow2 lock: host and guest never have the image's      *)
(* volumes open together, in any number of attempts.                         *)
THEOREM SingleOwner == Spec => []OneOwner
<1>1. IInv => OneOwner
  BY DEF IInv, OneOwner, OwnerInv, Resting
<1> QED
  BY Invariance, <1>1, PTL

(* The marker the host acts on was written by the guest it has just run: the   *)
(* one of an earlier attempt was removed before the boot.                    *)
THEOREM MarkerFresh == Spec => []MarkerIsFresh
<1>1. IInv => MarkerIsFresh
  BY DEF IInv, MarkerIsFresh, MarkerInv, Collecting
<1> QED
  BY Invariance, <1>1, PTL

(* Wherever either script stops, an image without a SYSTEM hive still has the  *)
(* generated one and the one it replaced; the stock hive survives a single   *)
(* application.                                                             *)
THEOREM HiveKept == Spec => []HiveNeverLost
<1>1. ASSUME IInv PROVE HiveNeverLost
  <2>1. TypeOK /\ HiveInv /\ StockHiveInv
    BY <1>1 DEF IInv
  <2>2. SYSTEM = NoHive => target.of = "generated" /\ (win4 # NoHive \/ used # NoHive)
    BY <2>1 DEF HiveInv
  <2>3. applications \in Nat
    BY <2>1, Counters
  <2>4. ASSUME applications <= 1
        PROVE \E hive \in {SYSTEM, win4, used} : hive.of = "stock"
    <3>1. applications = 0 \/ applications = 1
      BY <2>3, <2>4
    <3> QED
      BY <2>1, <3>1 DEF StockHiveInv
  <2> QED
    BY <2>2, <2>4 DEF HiveNeverLost
<1> QED
  BY Invariance, <1>1, PTL

(* An installed stock boot store is kept aside before it is replaced, whatever *)
(* attempts had failed before.                                              *)
THEOREM StoreKept == Spec => []StockStoreKept
<1>1. IInv => StockStoreKept
  BY DEF IInv, StockStoreKept, StoreInv
<1> QED
  BY Invariance, <1>1, PTL

(* A single run of the command, from its start to its end, is installed whole. *)
THEOREM SingleRunComplete == Spec => []OnceIsComplete
<1>1. IInv => OnceIsComplete
  BY DEF IInv, OnceIsComplete, CompleteInv, HiveInv
<1> QED
  BY Invariance, <1>1, PTL
===============================================================================
