---------------------------- MODULE NbdAttachProofs ----------------------------
(***************************************************************************)
(* What NbdAttach promises of its cleanup, proved for every number of      *)
(* scripts, devices and runs: a script that has ended has left nothing but *)
(* what umount and qemu-nbd refused it, whatever the other scripts did to  *)
(* its device in the meantime.                                             *)
(***************************************************************************)
EXTENDS NbdAttach, TLAPS

(* Where the variable nbd of a script names the device it uses.               *)
Chosen == {"connect", "wait", "mount", "write", "disconnect"}

(* An image is on the device its script remembers and has not disconnected    *)
(* yet, or on one whose disconnection failed when a run of the script ended.  *)
DeviceInv ==
    \A s \in Scripts, d \in NbdDevices : device[d] = s =>
        \/ <<s, d>> \in refused
        \/ nbd[s] = d /\ at[s] \in {"wait", "mount", "write", "umount", "disconnect"}

(* A script has something mounted only between the mount and the unmount, or   *)
(* after one that failed, and it is the volume of an image.                  *)
MountInv ==
    \A s \in Scripts :
        /\ mounted[s] # None =>
              \/ at[s] \in {"write", "umount"}
              \/ s \in stuck /\ at[s] \in {"disconnect", "ended"}
        /\ at[s] = "write" => mounted[s] \in Scripts

ChosenInv == \A s \in Scripts : at[s] \in Chosen => nbd[s] \in NbdDevices

(* The inductive invariant. *)
IInv == TypeOK /\ DeviceInv /\ MountInv /\ ChosenInv

-----------------------------------------------------------------------------
(* At the start nothing is connected and nothing mounted.                     *)
LEMMA InitInv == Init => IInv
<1> SUFFICES ASSUME Init PROVE IInv
    OBVIOUS
<1>1. TypeOK
    BY AttachAssumption DEF Init, TypeOK, Places
<1>2. DeviceInv /\ MountInv /\ ChosenInv
    BY AttachAssumption DEF Init, DeviceInv, MountInv, ChosenInv, Chosen
<1> QED BY <1>1, <1>2 DEF IInv

(* Every step keeps the invariant.                                          *)
LEMMA NextInv == IInv /\ [Next]_vars => IInv'
<1> SUFFICES ASSUME IInv, [Next]_vars PROVE IInv'
    OBVIOUS
<1>0. TypeOK /\ DeviceInv /\ MountInv /\ ChosenInv
    BY DEF IInv
<1> USE <1>0, AttachAssumption DEF Goto, Places, Chosen, outcomeVars
<1>1. ASSUME NEW s \in Scripts, Start(s) PROVE IInv'
    <2>1. TypeOK'
        BY <1>1 DEF Start, TypeOK
    <2>2. DeviceInv'
        BY <1>1 DEF Start, TypeOK, DeviceInv, ChosenInv
    <2>3. MountInv'
        BY <1>1 DEF Start, TypeOK, MountInv, ChosenInv
    <2>4. ChosenInv'
        BY <1>1 DEF Start, TypeOK, ChosenInv
    <2> QED BY <2>1, <2>2, <2>3, <2>4 DEF IInv
<1>2. ASSUME NEW s \in Scripts, Choose(s) PROVE IInv'
    <2>1. TypeOK'
        BY <1>2 DEF Choose, TypeOK
    <2>2. DeviceInv'
        BY <1>2 DEF Choose, TypeOK, DeviceInv, ChosenInv
    <2>3. MountInv'
        BY <1>2 DEF Choose, TypeOK, MountInv, ChosenInv
    <2>4. ChosenInv'
        BY <1>2 DEF Choose, TypeOK, ChosenInv
    <2> QED BY <2>1, <2>2, <2>3, <2>4 DEF IInv
<1>3. ASSUME NEW s \in Scripts, Connect(s) PROVE IInv'
    <2>1. TypeOK'
        BY <1>3 DEF Connect, TypeOK
    <2>2. DeviceInv'
        BY <1>3 DEF Connect, TypeOK, DeviceInv, ChosenInv
    <2>3. MountInv'
        BY <1>3 DEF Connect, TypeOK, MountInv, ChosenInv
    <2>4. ChosenInv'
        BY <1>3 DEF Connect, TypeOK, ChosenInv
    <2> QED BY <2>1, <2>2, <2>3, <2>4 DEF IInv
<1>4. ASSUME NEW s \in Scripts, Wait(s) PROVE IInv'
    <2>1. TypeOK'
        BY <1>4 DEF Wait, TypeOK
    <2>2. DeviceInv'
        BY <1>4 DEF Wait, TypeOK, DeviceInv, ChosenInv
    <2>3. MountInv'
        BY <1>4 DEF Wait, TypeOK, MountInv, ChosenInv
    <2>4. ChosenInv'
        BY <1>4 DEF Wait, TypeOK, ChosenInv
    <2> QED BY <2>1, <2>2, <2>3, <2>4 DEF IInv
<1>5. ASSUME NEW s \in Scripts, Mount(s) PROVE IInv'
    <2>1. TypeOK'
        BY <1>5 DEF Mount, TypeOK, ChosenInv, MountInv
    <2>2. DeviceInv'
        BY <1>5 DEF Mount, TypeOK, DeviceInv, ChosenInv
    <2>3. MountInv'
        <3>1. at'[s] = "write" /\ mounted'[s] \in Scripts /\ UNCHANGED stuck
            BY <1>5 DEF Mount, TypeOK, ChosenInv
        <3>2. \A q \in Scripts \ {s} : at'[q] = at[q] /\ mounted'[q] = mounted[q]
            BY <1>5 DEF Mount, TypeOK
        <3> QED BY <3>1, <3>2 DEF MountInv
    <2>4. ChosenInv'
        BY <1>5 DEF Mount, TypeOK, ChosenInv
    <2> QED BY <2>1, <2>2, <2>3, <2>4 DEF IInv
<1>6. ASSUME NEW s \in Scripts, Write(s) PROVE IInv'
    <2>1. TypeOK'
        BY <1>6 DEF Write, TypeOK, ChosenInv, MountInv
    <2>2. DeviceInv'
        BY <1>6 DEF Write, TypeOK, DeviceInv, ChosenInv
    <2>3. MountInv'
        BY <1>6 DEF Write, TypeOK, MountInv, ChosenInv
    <2>4. ChosenInv'
        BY <1>6 DEF Write, TypeOK, ChosenInv
    <2> QED BY <2>1, <2>2, <2>3, <2>4 DEF IInv
<1>7. ASSUME NEW s \in Scripts, Fail(s) PROVE IInv'
    <2>1. TypeOK'
        BY <1>7 DEF Fail, TypeOK
    <2>2. DeviceInv'
        BY <1>7 DEF Fail, TypeOK, DeviceInv, ChosenInv
    <2>3. MountInv'
        BY <1>7 DEF Fail, TypeOK, MountInv, ChosenInv
    <2>4. ChosenInv'
        BY <1>7 DEF Fail, TypeOK, ChosenInv
    <2> QED BY <2>1, <2>2, <2>3, <2>4 DEF IInv
<1>8. ASSUME NEW s \in Scripts, Umount(s) PROVE IInv'
    <2>1. TypeOK'
        BY <1>8 DEF Umount, AfterUmount, TypeOK
    <2>2. DeviceInv'
        BY <1>8 DEF Umount, AfterUmount, TypeOK, DeviceInv, ChosenInv, NbdDevices
    <2>3. MountInv'
        BY <1>8 DEF Umount, AfterUmount, TypeOK, MountInv, ChosenInv
    <2>4. ChosenInv'
        BY <1>8 DEF Umount, AfterUmount, TypeOK, ChosenInv
    <2> QED BY <2>1, <2>2, <2>3, <2>4 DEF IInv
<1>12. ASSUME NEW s \in Scripts, UmountFails(s) PROVE IInv'
    <2>1. TypeOK'
        BY <1>12 DEF UmountFails, AfterUmount, TypeOK
    <2>2. DeviceInv'
        BY <1>12 DEF UmountFails, AfterUmount, TypeOK, DeviceInv, ChosenInv, NbdDevices
    <2>3. MountInv'
        BY <1>12 DEF UmountFails, AfterUmount, TypeOK, MountInv, ChosenInv
    <2>4. ChosenInv'
        BY <1>12 DEF UmountFails, AfterUmount, TypeOK, ChosenInv
    <2> QED BY <2>1, <2>2, <2>3, <2>4 DEF IInv
<1>9. ASSUME NEW s \in Scripts, Disconnect(s) PROVE IInv'
    <2>1. TypeOK'
        BY <1>9 DEF Disconnect, TypeOK
    <2>2. DeviceInv'
        <3>1. nbd[s] \in NbdDevices /\ UNCHANGED nbd
            BY <1>9 DEF Disconnect, ChosenInv
        <3>2. device'[nbd[s]] = None /\ \A d \in NbdDevices \ {nbd[s]} : device'[d] = device[d]
            BY <1>9, <3>1 DEF Disconnect, TypeOK
        <3>3. \A q \in Scripts \ {s} : at'[q] = at[q]
            BY <1>9 DEF Disconnect, TypeOK
        <3>4. \A q \in Scripts, d \in NbdDevices : device'[d] = q => d # nbd[s] /\ device[d] = q
            BY <3>2, <3>1, <1>9 DEF TypeOK
        <3>5. \A q \in Scripts, d \in NbdDevices : d # nbd[s] /\ <<q, d>> \in refused => <<q, d>> \in refused'
            BY <1>9 DEF Disconnect
        <3> QED BY <3>1, <3>3, <3>4, <3>5 DEF DeviceInv
    <2>3. MountInv'
        BY <1>9 DEF Disconnect, TypeOK, MountInv, ChosenInv
    <2>4. ChosenInv'
        BY <1>9 DEF Disconnect, TypeOK, ChosenInv
    <2> QED BY <2>1, <2>2, <2>3, <2>4 DEF IInv
<1>13. ASSUME NEW s \in Scripts, DisconnectFails(s) PROVE IInv'
    <2>1. TypeOK'
        BY <1>13 DEF DisconnectFails, TypeOK, ChosenInv
    <2>2. DeviceInv'
        BY <1>13 DEF DisconnectFails, TypeOK, DeviceInv, ChosenInv
    <2>3. MountInv'
        BY <1>13 DEF DisconnectFails, TypeOK, MountInv, ChosenInv
    <2>4. ChosenInv'
        BY <1>13 DEF DisconnectFails, TypeOK, ChosenInv
    <2> QED BY <2>1, <2>2, <2>3, <2>4 DEF IInv
<1>10. ASSUME NEW d \in NbdDevices, PublishSize(d) PROVE IInv'
    <2>1. TypeOK'
        BY <1>10 DEF PublishSize, TypeOK
    <2>2. DeviceInv' /\ MountInv' /\ ChosenInv'
        BY <1>10 DEF PublishSize, DeviceInv, MountInv, ChosenInv
    <2> QED BY <2>1, <2>2 DEF IInv
<1>11. CASE UNCHANGED vars
    BY <1>11 DEF vars, IInv, TypeOK, DeviceInv, MountInv, ChosenInv
<1> QED
    BY <1>1, <1>2, <1>3, <1>4, <1>5, <1>6, <1>7, <1>8, <1>9, <1>10, <1>11,
       <1>12, <1>13 DEF Next, ScriptStep

-----------------------------------------------------------------------------
(* The inductive invariant holds in every reachable state.                    *)
THEOREM Invariance == Spec => []IInv
BY InitInv, NextInv, PTL DEF Spec

(* Every variable stays in its type, and only a connected device has a size.   *)
THEOREM TypeCorrect == Spec => []TypeOK
<1>1. IInv => TypeOK
    BY DEF IInv
<1> QED BY <1>1, Invariance, PTL

(* When a script has ended, its image is on no device except one whose         *)
(* disconnection it was refused and nobody has done since, even if another    *)
(* script took its device from it or lost the race for it; and a mount is left *)
(* only by a umount that failed.                                             *)
THEOREM CleanedUp == Spec => []NothingLeftBehind
<1>1. IInv => NothingLeftBehind
    BY DEF IInv, DeviceInv, MountInv, NothingLeftBehind
<1> QED BY <1>1, Invariance, PTL

===============================================================================
