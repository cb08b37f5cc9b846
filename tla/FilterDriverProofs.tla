-------------------------- MODULE FilterDriverProofs --------------------------
(* Proofs, for any number of keyboard stacks and handles, of the safety       *)
(* properties of FilterDriver that TLC checks with two stacks.               *)
EXTENDS FilterDriver, TLAPS

-----------------------------------------------------------------------------
(* The inductive invariant.                                                *)

(* What the driver owns for itself follows from where it is, and in the loop  *)
(* of the unload from whether the control device is still to be visited.      *)
ControlInv ==
    /\ driver \in {"created", "mapped", "linked", "loaded", "unlinked"} => ControlDevice \in owned
    /\ driver \in {"unloaded", "failed"} => ControlDevice \notin owned
    /\ driver \in {"mapped", "linked", "loaded", "unlinked"} => Mapping \in owned
    /\ driver \in {"unloaded", "created", "failed"} => Mapping \notin owned
    /\ driver \in {"unlinked", "deleting"} =>
          /\ ControlDevice \in owned <=> ControlDevice \in remaining
          /\ Mapping \in owned <=> ControlDevice \in remaining
    /\ driver \notin {"unlinked", "deleting"} => remaining = {}
    /\ Link \in owned <=> driver \in {"linked", "loaded"}
    /\ g_ControlExtension <=> driver \in {"loaded", "unlinked"}

(* What it owns for a stack follows from where PnP has brought the stack, and  *)
(* only a loaded driver has stacks that move.                                *)
StackInv ==
    \A s \in Stacks :
        /\ Filter(s) \in owned <=> stack[s] # "absent"
        /\ Attachment(s) \in owned <=> stack[s] \in {"added", "remove", "detach"}
        /\ driver \in {"unlinked", "deleting"} => (Filter(s) \in owned <=> Filter(s) \in remaining)
        /\ stack[s] \in {"absent", "added"} \/ driver = "loaded"
        /\ stack[s] = "absent" \/ driver \in {"loaded", "unlinked", "deleting"}
        /\ above[s] => driver = "loaded" /\ stack[s] \in {"added", "remove", "detach", "delete"}

(* The connect request is handled once for a filter extension, while kbdclass *)
(* is above: the callback saved is the one of kbdclass, and the one the port  *)
(* driver gets is the driver's own.                                          *)
ConnectInv ==
    \A s \in Stacks :
        /\ connecting[s] # "idle" => stack[s] = "added" /\ above[s]
        /\ above[s] /\ ~Connected[s] => connectData[s] = ClassService
        /\ stack[s] \in {"created", "added"} /\ ~above[s] => ~Connected[s]
        /\ connecting[s] \in {"save", "substitute"} => ~Connected[s]
        /\ connecting[s] = "substitute" => UpperConnectData[s] = ClassService
        /\ connecting[s] = "forward" => Connected[s]
        /\ Connected[s] => UpperConnectData[s] = ClassService /\ connectData[s] = OwnService

(* The port driver calls back only through a stack that is being used or      *)
(* whose removal it has not handled yet.                                     *)
CallbackInv ==
    \A s \in Stacks :
        /\ lower[s] = OwnService =>
              Connected[s] /\ above[s] /\ stack[s] \in {"added", "remove"}
        /\ callback[s] # "idle" => lower[s] = OwnService

IInv == TypeOK /\ ControlInv /\ StackInv /\ ConnectInv /\ CallbackInv

-----------------------------------------------------------------------------
(* Initially, and step by step.                                            *)

(* Before DriverEntry there is nothing to take care of.                       *)
LEMMA InitInv == Init => IInv
<1> SUFFICES ASSUME Init PROVE IInv
  OBVIOUS
<1> USE DriverAssumption DEF Init, NoService, ClassService, OwnService
<1>1. TypeOK
  <2>1. /\ 0 \in 0..MaxHandles
        /\ {} \subseteq {ControlDevice, Mapping, Link} \cup {Filter(s) : s \in Stacks}
                            \cup {Attachment(s) : s \in Stacks}
    OBVIOUS
  <2> QED
    BY <2>1 DEF TypeOK
<1>2. ControlInv /\ StackInv
  BY DEF ControlInv, StackInv
<1>3. ConnectInv /\ CallbackInv
  BY DEF ConnectInv, CallbackInv
<1> QED
  BY <1>1, <1>2, <1>3 DEF IInv

(* Every variable keeps its type.                                            *)
LEMMA TypeStep == IInv /\ [Next]_vars => TypeOK'
<1> SUFFICES ASSUME IInv, [Next]_vars PROVE TypeOK'
  OBVIOUS
<1> USE DriverAssumption DEF TypeOK, ConnectInv, driverVars, filterVars, connectVars,
        NoService, ClassService, OwnService
<1>0. TypeOK /\ ControlInv /\ ConnectInv
  BY DEF IInv
<1>1. CASE CreateControl
  BY <1>0, <1>1 DEF CreateControl, EntryStep
<1>2. CASE MapFrameBuffer
  BY <1>0, <1>2 DEF MapFrameBuffer, EntryStep
<1>3. CASE MapFails
  BY <1>0, <1>3 DEF MapFails, EntryStep
<1>4. CASE CreateLink
  BY <1>0, <1>4 DEF CreateLink, EntryStep
<1>5. CASE LinkFails
  BY <1>0, <1>5 DEF LinkFails, EntryStep
<1>6. CASE EntryDone
  BY <1>0, <1>6 DEF EntryDone, EntryStep
<1>7. CASE Reload
  BY <1>0, <1>7 DEF Reload, EntryStep
<1>8. CASE Unload
  BY <1>0, <1>8 DEF Unload
<1>9. CASE ForgetControl
  BY <1>0, <1>9 DEF ForgetControl
<1>10. ASSUME NEW s \in Stacks, DeleteFilter(s) PROVE TypeOK'
  BY <1>0, <1>10 DEF DeleteFilter, Visit
<1>31. CASE DeleteControl
  BY <1>0, <1>31 DEF DeleteControl, Visit
<1>11. CASE Unloaded
  BY <1>0, <1>11 DEF Unloaded
<1>12. CASE OpenHandle
  BY <1>0, <1>12 DEF OpenHandle
<1>13. CASE CloseHandle
  BY <1>0, <1>13 DEF CloseHandle
<1>14. ASSUME NEW s \in Stacks, CreateFilter(s) PROVE TypeOK'
  BY <1>0, <1>14 DEF CreateFilter
<1>15. ASSUME NEW s \in Stacks, Attach(s) PROVE TypeOK'
  BY <1>0, <1>15 DEF Attach
<1>16. ASSUME NEW s \in Stacks, AttachFails(s) PROVE TypeOK'
  BY <1>0, <1>16 DEF AttachFails
<1>17. ASSUME NEW s \in Stacks, ClassAttaches(s) PROVE TypeOK'
  BY <1>0, <1>17 DEF ClassAttaches
<1>18. ASSUME NEW s \in Stacks, Connect(s) PROVE TypeOK'
  BY <1>0, <1>18 DEF Connect, ConnectStep
<1>19. ASSUME NEW s \in Stacks, ConnectRefused(s) PROVE TypeOK'
  BY <1>0, <1>19 DEF ConnectRefused, ConnectStep
<1>20. ASSUME NEW s \in Stacks, SaveUpper(s) PROVE TypeOK'
  BY <1>0, <1>20 DEF SaveUpper, ConnectStep
<1>21. ASSUME NEW s \in Stacks, Substitute(s) PROVE TypeOK'
  BY <1>0, <1>21 DEF Substitute, ConnectStep
<1>22. ASSUME NEW s \in Stacks, ForwardConnect(s) PROVE TypeOK'
  BY <1>0, <1>22 DEF ForwardConnect, ConnectStep
<1>23. ASSUME NEW s \in Stacks, Enter(s) PROVE TypeOK'
  BY <1>0, <1>23 DEF Enter, CallbackStep
<1>24. ASSUME NEW s \in Stacks, Queue(s) PROVE TypeOK'
  BY <1>0, <1>24 DEF Queue, CallbackStep
<1>25. ASSUME NEW s \in Stacks, CallUpper(s) PROVE TypeOK'
  BY <1>0, <1>25 DEF CallUpper, CallbackStep
<1>26. ASSUME NEW s \in Stacks, Remove(s) PROVE TypeOK'
  BY <1>0, <1>26 DEF Remove
<1>27. ASSUME NEW s \in Stacks, RemoveLower(s) PROVE TypeOK'
  BY <1>0, <1>27 DEF RemoveLower
<1>28. ASSUME NEW s \in Stacks, Detach(s) PROVE TypeOK'
  BY <1>0, <1>28 DEF Detach
<1>29. ASSUME NEW s \in Stacks, Delete(s) PROVE TypeOK'
  BY <1>0, <1>29 DEF Delete
<1>30. CASE UNCHANGED vars
  BY <1>0, <1>30 DEF vars
<1> QED
  BY <1>1, <1>2, <1>3, <1>4, <1>5, <1>6, <1>7, <1>8, <1>9, <1>10, <1>11,
     <1>12, <1>13, <1>14, <1>15, <1>16, <1>17, <1>18, <1>19, <1>20, <1>21,
     <1>22, <1>23, <1>24, <1>25, <1>26, <1>27, <1>28, <1>29, <1>30, <1>31 DEF Next,
     EntryNext, UnloadNext, StackNext

(* DriverEntry, its failure paths and the unload take and give back what     *)
(* they should.                                                              *)
LEMMA ControlStep == IInv /\ [Next]_vars => ControlInv'
<1> SUFFICES ASSUME IInv, [Next]_vars PROVE ControlInv'
  OBVIOUS
<1> USE DriverAssumption DEF ControlInv, driverVars, filterVars, connectVars, Filter,
        Attachment, ControlDevice, Mapping, Link
<1>0. TypeOK /\ ControlInv /\ StackInv
  BY DEF IInv
<1>1. CASE CreateControl
  BY <1>0, <1>1 DEF CreateControl, EntryStep
<1>2. CASE MapFrameBuffer
  BY <1>0, <1>2 DEF MapFrameBuffer, EntryStep
<1>3. CASE MapFails
  BY <1>0, <1>3 DEF MapFails, EntryStep
<1>4. CASE CreateLink
  BY <1>0, <1>4 DEF CreateLink, EntryStep
<1>5. CASE LinkFails
  BY <1>0, <1>5 DEF LinkFails, EntryStep
<1>6. CASE EntryDone
  BY <1>0, <1>6 DEF EntryDone, EntryStep
<1>7. CASE Reload
  BY <1>0, <1>7 DEF Reload, EntryStep
<1>8. CASE Unload
  BY <1>0, <1>8 DEF Unload, Devices
<1>9. CASE ForgetControl
  BY <1>0, <1>9 DEF ForgetControl
<1>10. ASSUME NEW s \in Stacks, DeleteFilter(s) PROVE ControlInv'
  BY <1>0, <1>10 DEF DeleteFilter, Visit
<1>31. CASE DeleteControl
  BY <1>0, <1>31 DEF DeleteControl, Visit
<1>11. CASE Unloaded
  BY <1>0, <1>11 DEF Unloaded
<1>12. CASE OpenHandle
  BY <1>0, <1>12 DEF OpenHandle
<1>13. CASE CloseHandle
  BY <1>0, <1>13 DEF CloseHandle
<1>14. ASSUME NEW s \in Stacks, CreateFilter(s) PROVE ControlInv'
  BY <1>0, <1>14 DEF CreateFilter
<1>15. ASSUME NEW s \in Stacks, Attach(s) PROVE ControlInv'
  BY <1>0, <1>15 DEF Attach
<1>16. ASSUME NEW s \in Stacks, AttachFails(s) PROVE ControlInv'
  BY <1>0, <1>16 DEF AttachFails
<1>17. ASSUME NEW s \in Stacks, ClassAttaches(s) PROVE ControlInv'
  BY <1>0, <1>17 DEF ClassAttaches
<1>18. ASSUME NEW s \in Stacks, Connect(s) PROVE ControlInv'
  BY <1>0, <1>18 DEF Connect, ConnectStep
<1>19. ASSUME NEW s \in Stacks, ConnectRefused(s) PROVE ControlInv'
  BY <1>0, <1>19 DEF ConnectRefused, ConnectStep
<1>20. ASSUME NEW s \in Stacks, SaveUpper(s) PROVE ControlInv'
  BY <1>0, <1>20 DEF SaveUpper, ConnectStep
<1>21. ASSUME NEW s \in Stacks, Substitute(s) PROVE ControlInv'
  BY <1>0, <1>21 DEF Substitute, ConnectStep
<1>22. ASSUME NEW s \in Stacks, ForwardConnect(s) PROVE ControlInv'
  BY <1>0, <1>22 DEF ForwardConnect, ConnectStep
<1>23. ASSUME NEW s \in Stacks, Enter(s) PROVE ControlInv'
  BY <1>0, <1>23 DEF Enter, CallbackStep
<1>24. ASSUME NEW s \in Stacks, Queue(s) PROVE ControlInv'
  BY <1>0, <1>24 DEF Queue, CallbackStep
<1>25. ASSUME NEW s \in Stacks, CallUpper(s) PROVE ControlInv'
  BY <1>0, <1>25 DEF CallUpper, CallbackStep
<1>26. ASSUME NEW s \in Stacks, Remove(s) PROVE ControlInv'
  BY <1>0, <1>26 DEF Remove
<1>27. ASSUME NEW s \in Stacks, RemoveLower(s) PROVE ControlInv'
  BY <1>0, <1>27 DEF RemoveLower
<1>28. ASSUME NEW s \in Stacks, Detach(s) PROVE ControlInv'
  BY <1>0, <1>28 DEF Detach
<1>29. ASSUME NEW s \in Stacks, Delete(s) PROVE ControlInv'
  BY <1>0, <1>29 DEF Delete
<1>30. CASE UNCHANGED vars
  BY <1>0, <1>30 DEF vars
<1> QED
  BY <1>1, <1>2, <1>3, <1>4, <1>5, <1>6, <1>7, <1>8, <1>9, <1>10, <1>11,
     <1>12, <1>13, <1>14, <1>15, <1>16, <1>17, <1>18, <1>19, <1>20, <1>21,
     <1>22, <1>23, <1>24, <1>25, <1>26, <1>27, <1>28, <1>29, <1>30, <1>31 DEF Next,
     EntryNext, UnloadNext, StackNext

(* PnP and the unload keep the books of the filter devices.                  *)
LEMMA StackStep == IInv /\ [Next]_vars => StackInv'
<1> SUFFICES ASSUME IInv, [Next]_vars PROVE StackInv'
  OBVIOUS
<1> USE DriverAssumption DEF TypeOK, StackInv, driverVars, filterVars, connectVars,
        Filter, Attachment, ControlDevice, Mapping, Link
<1>0. TypeOK /\ ControlInv /\ StackInv /\ ConnectInv
  BY DEF IInv
<1>1. CASE CreateControl
  BY <1>0, <1>1 DEF CreateControl, EntryStep
<1>2. CASE MapFrameBuffer
  BY <1>0, <1>2 DEF MapFrameBuffer, EntryStep
<1>3. CASE MapFails
  BY <1>0, <1>3 DEF MapFails, EntryStep
<1>4. CASE CreateLink
  BY <1>0, <1>4 DEF CreateLink, EntryStep
<1>5. CASE LinkFails
  BY <1>0, <1>5 DEF LinkFails, EntryStep
<1>6. CASE EntryDone
  BY <1>0, <1>6 DEF EntryDone, EntryStep
<1>7. CASE Reload
  BY <1>0, <1>7 DEF Reload, EntryStep
<1>8. CASE Unload
  BY <1>0, <1>8 DEF Unload, Devices
<1>9. CASE ForgetControl
  BY <1>0, <1>9 DEF ForgetControl
<1>10. ASSUME NEW s \in Stacks, DeleteFilter(s) PROVE StackInv'
  BY <1>0, <1>10 DEF DeleteFilter, Visit
<1>31. CASE DeleteControl
  BY <1>0, <1>31 DEF DeleteControl, Visit
<1>11. CASE Unloaded
  BY <1>0, <1>11 DEF Unloaded
<1>12. CASE OpenHandle
  BY <1>0, <1>12 DEF OpenHandle
<1>13. CASE CloseHandle
  BY <1>0, <1>13 DEF CloseHandle
<1>14. ASSUME NEW s \in Stacks, CreateFilter(s) PROVE StackInv'
  BY <1>0, <1>14 DEF CreateFilter
<1>15. ASSUME NEW s \in Stacks, Attach(s) PROVE StackInv'
  BY <1>0, <1>15 DEF Attach
<1>16. ASSUME NEW s \in Stacks, AttachFails(s) PROVE StackInv'
  BY <1>0, <1>16 DEF AttachFails
<1>17. ASSUME NEW s \in Stacks, ClassAttaches(s) PROVE StackInv'
  BY <1>0, <1>17 DEF ClassAttaches
<1>18. ASSUME NEW s \in Stacks, Connect(s) PROVE StackInv'
  BY <1>0, <1>18 DEF Connect, ConnectStep
<1>19. ASSUME NEW s \in Stacks, ConnectRefused(s) PROVE StackInv'
  BY <1>0, <1>19 DEF ConnectRefused, ConnectStep
<1>20. ASSUME NEW s \in Stacks, SaveUpper(s) PROVE StackInv'
  BY <1>0, <1>20 DEF SaveUpper, ConnectStep
<1>21. ASSUME NEW s \in Stacks, Substitute(s) PROVE StackInv'
  BY <1>0, <1>21 DEF Substitute, ConnectStep
<1>22. ASSUME NEW s \in Stacks, ForwardConnect(s) PROVE StackInv'
  BY <1>0, <1>22 DEF ForwardConnect, ConnectStep
<1>23. ASSUME NEW s \in Stacks, Enter(s) PROVE StackInv'
  BY <1>0, <1>23 DEF Enter, CallbackStep
<1>24. ASSUME NEW s \in Stacks, Queue(s) PROVE StackInv'
  BY <1>0, <1>24 DEF Queue, CallbackStep
<1>25. ASSUME NEW s \in Stacks, CallUpper(s) PROVE StackInv'
  BY <1>0, <1>25 DEF CallUpper, CallbackStep
<1>26. ASSUME NEW s \in Stacks, Remove(s) PROVE StackInv'
  BY <1>0, <1>26 DEF Remove
<1>27. ASSUME NEW s \in Stacks, RemoveLower(s) PROVE StackInv'
  BY <1>0, <1>27 DEF RemoveLower
<1>28. ASSUME NEW s \in Stacks, Detach(s) PROVE StackInv'
  BY <1>0, <1>28 DEF Detach
<1>29. ASSUME NEW s \in Stacks, Delete(s) PROVE StackInv'
  BY <1>0, <1>29 DEF Delete
<1>30. CASE UNCHANGED vars
  BY <1>0, <1>30 DEF vars
<1> QED
  BY <1>1, <1>2, <1>3, <1>4, <1>5, <1>6, <1>7, <1>8, <1>9, <1>10, <1>11,
     <1>12, <1>13, <1>14, <1>15, <1>16, <1>17, <1>18, <1>19, <1>20, <1>21,
     <1>22, <1>23, <1>24, <1>25, <1>26, <1>27, <1>28, <1>29, <1>30, <1>31 DEF Next,
     EntryNext, UnloadNext, StackNext

(* The connect request keeps to its protocol.                                *)
LEMMA ConnectStepInv == IInv /\ [Next]_vars => ConnectInv'
<1> SUFFICES ASSUME IInv, [Next]_vars PROVE ConnectInv'
  OBVIOUS
<1> USE DriverAssumption DEF TypeOK, ConnectInv, StackInv, driverVars, filterVars,
        connectVars, NoService, ClassService, OwnService
<1>0. TypeOK /\ ControlInv /\ StackInv /\ ConnectInv
  BY DEF IInv
<1>1. CASE CreateControl
  BY <1>0, <1>1 DEF CreateControl, EntryStep
<1>2. CASE MapFrameBuffer
  BY <1>0, <1>2 DEF MapFrameBuffer, EntryStep
<1>3. CASE MapFails
  BY <1>0, <1>3 DEF MapFails, EntryStep
<1>4. CASE CreateLink
  BY <1>0, <1>4 DEF CreateLink, EntryStep
<1>5. CASE LinkFails
  BY <1>0, <1>5 DEF LinkFails, EntryStep
<1>6. CASE EntryDone
  BY <1>0, <1>6 DEF EntryDone, EntryStep
<1>7. CASE Reload
  BY <1>0, <1>7 DEF Reload, EntryStep
<1>8. CASE Unload
  BY <1>0, <1>8 DEF Unload
<1>9. CASE ForgetControl
  BY <1>0, <1>9 DEF ForgetControl
<1>10. ASSUME NEW s \in Stacks, DeleteFilter(s) PROVE ConnectInv'
  <2>1. /\ \A t \in Stacks : ~above[t]
        /\ UNCHANGED <<above, connectVars, filterVars, callback>>
    BY <1>0, <1>10 DEF DeleteFilter, Visit, StackInv
  <2>2. \A t \in Stacks : stack'[t] \in {stack[t], "absent"}
    BY <1>0, <1>10 DEF DeleteFilter, Visit
  <2> QED
    BY <1>0, <2>1, <2>2
<1>31. CASE DeleteControl
  BY <1>0, <1>31 DEF DeleteControl, Visit
<1>11. CASE Unloaded
  BY <1>0, <1>11 DEF Unloaded
<1>12. CASE OpenHandle
  BY <1>0, <1>12 DEF OpenHandle
<1>13. CASE CloseHandle
  BY <1>0, <1>13 DEF CloseHandle
<1>14. ASSUME NEW s \in Stacks, CreateFilter(s) PROVE ConnectInv'
  BY <1>0, <1>14 DEF CreateFilter
<1>15. ASSUME NEW s \in Stacks, Attach(s) PROVE ConnectInv'
  BY <1>0, <1>15 DEF Attach
<1>16. ASSUME NEW s \in Stacks, AttachFails(s) PROVE ConnectInv'
  BY <1>0, <1>16 DEF AttachFails
<1>17. ASSUME NEW s \in Stacks, ClassAttaches(s) PROVE ConnectInv'
  BY <1>0, <1>17 DEF ClassAttaches
<1>18. ASSUME NEW s \in Stacks, Connect(s) PROVE ConnectInv'
  BY <1>0, <1>18 DEF Connect, ConnectStep
<1>19. ASSUME NEW s \in Stacks, ConnectRefused(s) PROVE ConnectInv'
  BY <1>0, <1>19 DEF ConnectRefused, ConnectStep
<1>20. ASSUME NEW s \in Stacks, SaveUpper(s) PROVE ConnectInv'
  BY <1>0, <1>20 DEF SaveUpper, ConnectStep
<1>21. ASSUME NEW s \in Stacks, Substitute(s) PROVE ConnectInv'
  BY <1>0, <1>21 DEF Substitute, ConnectStep
<1>22. ASSUME NEW s \in Stacks, ForwardConnect(s) PROVE ConnectInv'
  BY <1>0, <1>22 DEF ForwardConnect, ConnectStep
<1>23. ASSUME NEW s \in Stacks, Enter(s) PROVE ConnectInv'
  BY <1>0, <1>23 DEF Enter, CallbackStep
<1>24. ASSUME NEW s \in Stacks, Queue(s) PROVE ConnectInv'
  BY <1>0, <1>24 DEF Queue, CallbackStep
<1>25. ASSUME NEW s \in Stacks, CallUpper(s) PROVE ConnectInv'
  BY <1>0, <1>25 DEF CallUpper, CallbackStep
<1>26. ASSUME NEW s \in Stacks, Remove(s) PROVE ConnectInv'
  BY <1>0, <1>26 DEF Remove
<1>27. ASSUME NEW s \in Stacks, RemoveLower(s) PROVE ConnectInv'
  BY <1>0, <1>27 DEF RemoveLower
<1>28. ASSUME NEW s \in Stacks, Detach(s) PROVE ConnectInv'
  BY <1>0, <1>28 DEF Detach
<1>29. ASSUME NEW s \in Stacks, Delete(s) PROVE ConnectInv'
  BY <1>0, <1>29 DEF Delete
<1>30. CASE UNCHANGED vars
  BY <1>0, <1>30 DEF vars
<1> QED
  BY <1>1, <1>2, <1>3, <1>4, <1>5, <1>6, <1>7, <1>8, <1>9, <1>10, <1>11,
     <1>12, <1>13, <1>14, <1>15, <1>16, <1>17, <1>18, <1>19, <1>20, <1>21,
     <1>22, <1>23, <1>24, <1>25, <1>26, <1>27, <1>28, <1>29, <1>30, <1>31 DEF Next,
     EntryNext, UnloadNext, StackNext

(* The callback keeps to the life of its stack.                              *)
LEMMA CallbackStepInv == IInv /\ [Next]_vars => CallbackInv'
<1> SUFFICES ASSUME IInv, [Next]_vars PROVE CallbackInv'
  OBVIOUS
<1> USE DriverAssumption DEF TypeOK, CallbackInv, ConnectInv, driverVars, filterVars,
        connectVars, NoService, ClassService, OwnService
<1>0. TypeOK /\ StackInv /\ ConnectInv /\ CallbackInv
  BY DEF IInv
<1>1. CASE CreateControl
  BY <1>0, <1>1 DEF CreateControl, EntryStep
<1>2. CASE MapFrameBuffer
  BY <1>0, <1>2 DEF MapFrameBuffer, EntryStep
<1>3. CASE MapFails
  BY <1>0, <1>3 DEF MapFails, EntryStep
<1>4. CASE CreateLink
  BY <1>0, <1>4 DEF CreateLink, EntryStep
<1>5. CASE LinkFails
  BY <1>0, <1>5 DEF LinkFails, EntryStep
<1>6. CASE EntryDone
  BY <1>0, <1>6 DEF EntryDone, EntryStep
<1>7. CASE Reload
  BY <1>0, <1>7 DEF Reload, EntryStep
<1>8. CASE Unload
  BY <1>0, <1>8 DEF Unload
<1>9. CASE ForgetControl
  BY <1>0, <1>9 DEF ForgetControl
<1>10. ASSUME NEW s \in Stacks, DeleteFilter(s) PROVE CallbackInv'
  <2>1. /\ \A t \in Stacks : ~above[t]
        /\ UNCHANGED <<above, connectVars, filterVars, callback>>
    BY <1>0, <1>10 DEF DeleteFilter, Visit, StackInv
  <2>2. \A t \in Stacks : stack'[t] \in {stack[t], "absent"}
    BY <1>0, <1>10 DEF DeleteFilter, Visit
  <2> QED
    BY <1>0, <2>1, <2>2
<1>31. CASE DeleteControl
  BY <1>0, <1>31 DEF DeleteControl, Visit
<1>11. CASE Unloaded
  BY <1>0, <1>11 DEF Unloaded
<1>12. CASE OpenHandle
  BY <1>0, <1>12 DEF OpenHandle
<1>13. CASE CloseHandle
  BY <1>0, <1>13 DEF CloseHandle
<1>14. ASSUME NEW s \in Stacks, CreateFilter(s) PROVE CallbackInv'
  BY <1>0, <1>14 DEF CreateFilter
<1>15. ASSUME NEW s \in Stacks, Attach(s) PROVE CallbackInv'
  BY <1>0, <1>15 DEF Attach
<1>16. ASSUME NEW s \in Stacks, AttachFails(s) PROVE CallbackInv'
  BY <1>0, <1>16 DEF AttachFails
<1>17. ASSUME NEW s \in Stacks, ClassAttaches(s) PROVE CallbackInv'
  BY <1>0, <1>17 DEF ClassAttaches
<1>18. ASSUME NEW s \in Stacks, Connect(s) PROVE CallbackInv'
  BY <1>0, <1>18 DEF Connect, ConnectStep
<1>19. ASSUME NEW s \in Stacks, ConnectRefused(s) PROVE CallbackInv'
  BY <1>0, <1>19 DEF ConnectRefused, ConnectStep
<1>20. ASSUME NEW s \in Stacks, SaveUpper(s) PROVE CallbackInv'
  BY <1>0, <1>20 DEF SaveUpper, ConnectStep
<1>21. ASSUME NEW s \in Stacks, Substitute(s) PROVE CallbackInv'
  BY <1>0, <1>21 DEF Substitute, ConnectStep
<1>22. ASSUME NEW s \in Stacks, ForwardConnect(s) PROVE CallbackInv'
  BY <1>0, <1>22 DEF ForwardConnect, ConnectStep
<1>23. ASSUME NEW s \in Stacks, Enter(s) PROVE CallbackInv'
  BY <1>0, <1>23 DEF Enter, CallbackStep
<1>24. ASSUME NEW s \in Stacks, Queue(s) PROVE CallbackInv'
  BY <1>0, <1>24 DEF Queue, CallbackStep
<1>25. ASSUME NEW s \in Stacks, CallUpper(s) PROVE CallbackInv'
  BY <1>0, <1>25 DEF CallUpper, CallbackStep
<1>26. ASSUME NEW s \in Stacks, Remove(s) PROVE CallbackInv'
  BY <1>0, <1>26 DEF Remove
<1>27. ASSUME NEW s \in Stacks, RemoveLower(s) PROVE CallbackInv'
  BY <1>0, <1>27 DEF RemoveLower
<1>28. ASSUME NEW s \in Stacks, Detach(s) PROVE CallbackInv'
  BY <1>0, <1>28 DEF Detach
<1>29. ASSUME NEW s \in Stacks, Delete(s) PROVE CallbackInv'
  BY <1>0, <1>29 DEF Delete
<1>30. CASE UNCHANGED vars
  BY <1>0, <1>30 DEF vars
<1> QED
  BY <1>1, <1>2, <1>3, <1>4, <1>5, <1>6, <1>7, <1>8, <1>9, <1>10, <1>11,
     <1>12, <1>13, <1>14, <1>15, <1>16, <1>17, <1>18, <1>19, <1>20, <1>21,
     <1>22, <1>23, <1>24, <1>25, <1>26, <1>27, <1>28, <1>29, <1>30, <1>31 DEF Next,
     EntryNext, UnloadNext, StackNext

-----------------------------------------------------------------------------
(* The properties.                                                         *)

(* The inductive invariant holds in every reachable state, for any number of  *)
(* keyboard stacks and of open handles.                                      *)
THEOREM Invariance == Spec => []IInv
<1>1. IInv /\ [Next]_vars => IInv'
  BY TypeStep, ControlStep, StackStep, ConnectStepInv, CallbackStepInv DEF IInv
<1> QED
  BY InitInv, <1>1, PTL DEF Spec

(* Every variable keeps its type, and no handle is closed that is not open.   *)
THEOREM TypeCorrect == Spec => []TypeOK
<1>1. IInv => TypeOK
  BY DEF IInv
<1> QED
  BY <1>1, Invariance, PTL

(* A DriverEntry that fails and an unload leave no device, mapping, link or   *)
(* attachment behind, however many stacks the unload finds, and a stack that  *)
(* is removed or could not be joined leaves none either.                     *)
THEOREM EverythingGivenBack == Spec => []NothingLeaks
<1>1. IInv => NothingLeaks
  <2> SUFFICES ASSUME IInv PROVE NothingLeaks
    OBVIOUS
  <2>1. TypeOK /\ ControlInv /\ StackInv
    BY DEF IInv
  <2>2. ASSUME driver \in {"failed", "unloaded"}, NEW r \in owned PROVE FALSE
    <3>1. r \notin {ControlDevice, Mapping, Link}
      BY <2>1, <2>2 DEF ControlInv
    <3>2. \A s \in Stacks : r # Filter(s) /\ r # Attachment(s)
      BY <2>1, <2>2 DEF StackInv
    <3> QED
      BY <2>1, <2>2, <3>1, <3>2 DEF TypeOK
  <2>3. ASSUME NEW s \in Stacks, stack[s] = "absent"
        PROVE  {Filter(s), Attachment(s)} \cap owned = {}
    BY <2>1, <2>3 DEF StackInv
  <2> QED
    BY <2>2, <2>3 DEF NothingLeaks
<1> QED
  BY <1>1, Invariance, PTL

(* The control device and its mapping are there as long as the pointer is, or *)
(* a callback that has read it.                                              *)
THEOREM ExtensionAlive == Spec => []ExtensionIsAlive
<1>1. IInv => ExtensionIsAlive
  BY DEF IInv, ControlInv, StackInv, CallbackInv, ExtensionIsAlive
<1> QED
  BY <1>1, Invariance, PTL

(* No callback ever runs on a filter device that is detached or deleted.      *)
THEOREM CallbackLive == Spec => []CallbackOnLiveFilter
<1>1. IInv => CallbackOnLiveFilter
  BY DEF IInv, StackInv, CallbackInv, CallbackOnLiveFilter
<1> QED
  BY <1>1, Invariance, PTL

(* A callback always has kbdclass to pass the records to.                     *)
THEOREM RecordsReachClass == Spec => []UpperIsClass
<1>1. IInv => UpperIsClass
  BY DEF IInv, ConnectInv, CallbackInv, UpperIsClass
<1> QED
  BY <1>1, Invariance, PTL
===============================================================================
