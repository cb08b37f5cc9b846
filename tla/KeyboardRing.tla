----------------------------- MODULE KeyboardRing -----------------------------
(***************************************************************************)
(* The spinlock-protected keyboard ring of driver/win0doom-display.c, at   *)
(* the grain of the memory accesses its three users make under the lock:   *)
(*                                                                         *)
(*   - Win0DoomQueueKeyboardAtDpc, run by the service callback of every    *)
(*     keyboard filter device (callbacks of different devices run on       *)
(*     different processors at the same time);                             *)
(*   - Win0DoomCreateClose, run by a thread that opens the control device; *)
(*   - Win0DoomDrainKeyboard, run by a thread that issues                  *)
(*     IOCTL_WIN0DOOM_GET_KEYBOARD.                                        *)
(*                                                                         *)
(* A keyboard record is known by the keyboard it came from and its number  *)
(* among that keyboard's records, so that order, loss and duplication are  *)
(* visible.  The state starts where DriverEntry has returned success.      *)
(***************************************************************************)
EXTENDS Integers, Sequences

CONSTANTS
    Keyboards,  \* the filter devices; each runs one service callback at a time
    Clients,    \* the threads that use the control device
    RingSize,   \* WIN0DOOM_KEYBOARD_RING_SIZE
    MaxBatch,   \* bound: the most records one service callback reports
    MaxOutput,  \* bound: the largest output buffer, in whole records
    MaxSent,    \* bound: how many records each keyboard reports in all
    Free,       \* the lock when nobody holds it
    NoRecord    \* a slot that has been zeroed and never written

ASSUME RingAssumption ==
    /\ RingSize \in Nat /\ RingSize >= 2
    /\ MaxBatch \in Nat
    /\ MaxOutput \in Nat
    /\ MaxSent \in Nat
    /\ Keyboards \cap Clients = {}
    /\ Free \notin Keyboards \cup Clients

VARIABLES
    KeyboardRing,
    KeyboardReadIndex,
    KeyboardWriteIndex,
    KeyboardLock,   \* Free, or the keyboard or client inside the critical section
    pc,             \* where each keyboard's callback and each client is
    batch,          \* batch[k]: the records the callback of k reports
    index,          \* index[k]: how many of them are in the ring
    next,           \* next[k]: the local variable of the same name
    capacity,       \* capacity[c]: room in the output buffer of c, in records
    output,         \* output[c]: what the poll of c has copied so far
    result,         \* result[c]: what the last completed poll of c returned
    sent,           \* sent[k]: how many records keyboard k has reported
    before,         \* history: the pending records when the lock was last taken
    lastRead        \* history: the last record of each keyboard that was copied out

shared == <<KeyboardRing, KeyboardReadIndex, KeyboardWriteIndex>>
callbackVars == <<batch, index, next, sent>>
clientVars == <<capacity, output, result>>
history == <<before, lastRead>>
vars == <<shared, KeyboardLock, pc, callbackVars, clientVars, history>>

Actors == Keyboards \cup Clients
Slots == 0..(RingSize - 1)
Records == [kbd : Keyboards, seq : 1..MaxSent]

-----------------------------------------------------------------------------
(* The ring read as a queue.                                               *)

(* Mutant: the index is not wrapped. *)
SuccUnwrapped(i) == i + 1

Succ(i) == (i + 1) % RingSize

(* How many records are pending, and the slot of the n-th after the oldest. *)
Pending ==
    IF KeyboardWriteIndex >= KeyboardReadIndex
    THEN KeyboardWriteIndex - KeyboardReadIndex
    ELSE KeyboardWriteIndex + RingSize - KeyboardReadIndex

SlotAfter(i, n) == IF i + n < RingSize THEN i + n ELSE i + n - RingSize

Contents ==
    [i \in 1..Pending |-> KeyboardRing[SlotAfter(KeyboardReadIndex, i - 1)]]

-----------------------------------------------------------------------------
Init ==
    /\ KeyboardRing = [i \in Slots |-> NoRecord]
    /\ KeyboardReadIndex = 0
    /\ KeyboardWriteIndex = 0
    /\ KeyboardLock = Free
    /\ pc = [a \in Actors |-> "idle"]
    /\ batch = [k \in Keyboards |-> <<>>]
    /\ index = [k \in Keyboards |-> 0]
    /\ next = [k \in Keyboards |-> 0]
    /\ capacity = [c \in Clients |-> 0]
    /\ output = [c \in Clients |-> <<>>]
    /\ result = [c \in Clients |-> <<>>]
    /\ sent = [k \in Keyboards |-> 0]
    /\ before = <<>>
    /\ lastRead = [k \in Keyboards |-> 0]

Goto(a, from, to) ==
    /\ pc[a] = from
    /\ pc' = [pc EXCEPT ![a] = to]

(* Mutant: the critical section is entered without the lock. *)
AcquireUnlocked(a, from, to) ==
    /\ Goto(a, from, to)
    /\ KeyboardLock' = a
    /\ before' = Contents

(* KeAcquireSpinLock: taken only when nobody holds it. *)
Acquire(a, from, to) ==
    /\ Goto(a, from, to)
    /\ KeyboardLock = Free
    /\ KeyboardLock' = a
    /\ before' = Contents

(* KeReleaseSpinLock, and the return that follows. *)
Release(a, from) ==
    /\ Goto(a, from, "idle")
    /\ KeyboardLock' = Free
    /\ before' = <<>>

-----------------------------------------------------------------------------
(* Win0DoomQueueKeyboardAtDpc.                                             *)

(* The port driver reports n fresh records of keyboard k. *)
Callback(k) ==
    /\ Goto(k, "idle", "queue")
    /\ \E n \in 0..MaxBatch :
        /\ sent[k] + n <= MaxSent
        /\ batch' = [batch EXCEPT ![k] =
                [i \in 1..n |-> [kbd |-> k, seq |-> sent[k] + i]]]
        /\ sent' = [sent EXCEPT ![k] = @ + n]
    /\ UNCHANGED <<shared, KeyboardLock, index, next, clientVars, history>>

QueueAcquire(k) ==
    /\ Acquire(k, "queue", "loop")
    /\ UNCHANGED <<shared, callbackVars, clientVars, lastRead>>

(* Mutant: a full ring is not noticed. *)
MakeRoomUnchecked(k) ==
    /\ Goto(k, "loop", "store")
    /\ index[k] < Len(batch[k])
    /\ next' = [next EXCEPT ![k] = Succ(KeyboardWriteIndex)]
    /\ UNCHANGED <<shared, KeyboardLock, batch, index, sent, clientVars, history>>

(* The write index would meet the read index: forget the oldest record. *)
MakeRoom(k) ==
    /\ Goto(k, "loop", "store")
    /\ index[k] < Len(batch[k])
    /\ next' = [next EXCEPT ![k] = Succ(KeyboardWriteIndex)]
    /\ KeyboardReadIndex' =
            IF Succ(KeyboardWriteIndex) = KeyboardReadIndex
            THEN Succ(KeyboardReadIndex)
            ELSE KeyboardReadIndex
    /\ UNCHANGED <<KeyboardRing, KeyboardWriteIndex, KeyboardLock, batch, index,
                   sent, clientVars, history>>

(* Mutant: the loop counter does not move. *)
StoreForever(k) ==
    /\ Goto(k, "store", "loop")
    /\ KeyboardRing' = [KeyboardRing EXCEPT ![KeyboardWriteIndex] = batch[k][index[k] + 1]]
    /\ KeyboardWriteIndex' = next[k]
    /\ UNCHANGED <<KeyboardReadIndex, KeyboardLock, batch, index, next, sent, clientVars, history>>

Store(k) ==
    /\ Goto(k, "store", "loop")
    /\ KeyboardRing' = [KeyboardRing EXCEPT ![KeyboardWriteIndex] = batch[k][index[k] + 1]]
    /\ KeyboardWriteIndex' = next[k]
    /\ index' = [index EXCEPT ![k] = @ + 1]
    /\ UNCHANGED <<KeyboardReadIndex, KeyboardLock, batch, next, sent, clientVars, history>>

QueueRelease(k) ==
    /\ index[k] = Len(batch[k])
    /\ Release(k, "loop")
    /\ batch' = [batch EXCEPT ![k] = <<>>]
    /\ index' = [index EXCEPT ![k] = 0]
    /\ next' = [next EXCEPT ![k] = 0]
    /\ UNCHANGED <<shared, sent, clientVars, lastRead>>

-----------------------------------------------------------------------------
(* Win0DoomCreateClose for IRP_MJ_CREATE on the control device.            *)

OpenCall(c) ==
    /\ Goto(c, "idle", "create")
    /\ UNCHANGED <<shared, KeyboardLock, callbackVars, clientVars, history>>

OpenAcquire(c) ==
    /\ Acquire(c, "create", "reset")
    /\ UNCHANGED <<shared, callbackVars, clientVars, lastRead>>

(* Mutant: opening rewinds the read index to the start of the ring. *)
ResetToZero(c) ==
    /\ Goto(c, "reset", "created")
    /\ KeyboardReadIndex' = 0
    /\ UNCHANGED <<KeyboardRing, KeyboardWriteIndex, KeyboardLock, callbackVars,
                   clientVars, history>>

Reset(c) ==
    /\ Goto(c, "reset", "created")
    /\ KeyboardReadIndex' = KeyboardWriteIndex
    /\ UNCHANGED <<KeyboardRing, KeyboardWriteIndex, KeyboardLock, callbackVars,
                   clientVars, history>>

OpenRelease(c) ==
    /\ Release(c, "created")
    /\ UNCHANGED <<shared, callbackVars, clientVars, lastRead>>

-----------------------------------------------------------------------------
(* IOCTL_WIN0DOOM_GET_KEYBOARD and Win0DoomDrainKeyboard.                  *)

(* A buffer too small for one record is refused before the ring is touched. *)
PollCall(c) ==
    /\ \E n \in 0..MaxOutput :
        IF n = 0
        THEN /\ pc[c] = "idle"
             /\ result' = [result EXCEPT ![c] = <<>>]
             /\ UNCHANGED <<pc, capacity, output>>
        ELSE /\ Goto(c, "idle", "drain")
             /\ capacity' = [capacity EXCEPT ![c] = n]
             /\ UNCHANGED <<output, result>>
    /\ UNCHANGED <<shared, KeyboardLock, callbackVars, history>>

DrainAcquire(c) ==
    /\ Acquire(c, "drain", "test")
    /\ UNCHANGED <<shared, callbackVars, clientVars, lastRead>>

MoreToCopy(c) ==
    /\ KeyboardReadIndex # KeyboardWriteIndex
    /\ Len(output[c]) + 1 <= capacity[c]

CopyOut(c) ==
    /\ Goto(c, "test", "advance")
    /\ MoreToCopy(c)
    /\ LET record == KeyboardRing[KeyboardReadIndex]
       IN  /\ output' = [output EXCEPT ![c] = Append(@, record)]
           /\ lastRead' = [lastRead EXCEPT ![record.kbd] = record.seq]
    /\ UNCHANGED <<shared, KeyboardLock, callbackVars, capacity, result, before>>

Advance(c) ==
    /\ Goto(c, "advance", "test")
    /\ KeyboardReadIndex' = Succ(KeyboardReadIndex)
    /\ UNCHANGED <<KeyboardRing, KeyboardWriteIndex, KeyboardLock, callbackVars,
                   clientVars, history>>

DrainRelease(c) ==
    /\ ~MoreToCopy(c)
    /\ Release(c, "test")
    /\ result' = [result EXCEPT ![c] = output[c]]
    /\ output' = [output EXCEPT ![c] = <<>>]
    /\ capacity' = [capacity EXCEPT ![c] = 0]
    /\ UNCHANGED <<shared, callbackVars, lastRead>>

-----------------------------------------------------------------------------
CallbackStep(k) ==
    Callback(k) \/ QueueAcquire(k) \/ MakeRoom(k) \/ Store(k) \/ QueueRelease(k)

ClientStep(c) ==
    \/ OpenCall(c) \/ OpenAcquire(c) \/ Reset(c) \/ OpenRelease(c)
    \/ PollCall(c) \/ DrainAcquire(c) \/ CopyOut(c) \/ Advance(c) \/ DrainRelease(c)

Next ==
    \/ \E k \in Keyboards : CallbackStep(k)
    \/ \E c \in Clients : ClientStep(c)

Spec == Init /\ [][Next]_vars

(* A thread that has entered one of the routines keeps running: at dispatch  *)
(* level it is not preempted, and a processor that spins on a lock which     *)
(* comes free again and again gets it in the end.  Nothing obliges a         *)
(* keyboard to report or a program to open or poll.                          *)
FinishCallback(k) == QueueAcquire(k) \/ MakeRoom(k) \/ Store(k) \/ QueueRelease(k)

FinishRequest(c) ==
    \/ OpenAcquire(c) \/ Reset(c) \/ OpenRelease(c)
    \/ DrainAcquire(c) \/ CopyOut(c) \/ Advance(c) \/ DrainRelease(c)

FairSpec ==
    /\ Spec
    /\ \A k \in Keyboards : SF_vars(FinishCallback(k))
    /\ \A c \in Clients : SF_vars(FinishRequest(c))

-----------------------------------------------------------------------------
(* Properties.                                                             *)

KeyboardPlaces == {"idle", "queue", "loop", "store"}
ClientPlaces == {"idle", "create", "reset", "created", "drain", "test", "advance"}
Inside == {"loop", "store", "reset", "created", "test", "advance"}

(* Both indices stay inside the ring, every slot holds a record or zeroes,  *)
(* and the locals of each routine have their types.                         *)
TypeOK ==
    /\ KeyboardRing \in [Slots -> Records \cup {NoRecord}]
    /\ KeyboardReadIndex \in Slots
    /\ KeyboardWriteIndex \in Slots
    /\ KeyboardLock \in Actors \cup {Free}
    /\ pc \in [Actors -> KeyboardPlaces \cup ClientPlaces]
    /\ \A k \in Keyboards : pc[k] \in KeyboardPlaces
    /\ \A c \in Clients : pc[c] \in ClientPlaces
    /\ batch \in [Keyboards -> Seq(Records)]
    /\ index \in [Keyboards -> Nat]
    /\ next \in [Keyboards -> Slots]
    /\ capacity \in [Clients -> 0..MaxOutput]
    /\ output \in [Clients -> Seq(Records)]
    /\ result \in [Clients -> Seq(Records)]
    /\ sent \in [Keyboards -> 0..MaxSent]
    /\ before \in Seq(Records)
    /\ lastRead \in [Keyboards -> 0..MaxSent]

(* How many records of keyboard k have been put into the ring.              *)
Stored(k) == sent[k] + index[k] - Len(batch[k])

PendingOf(k) == {i \in 1..Pending : Contents[i].kbd = k}

(* What is pending of a keyboard is an unbroken run of its records that     *)
(* ends with the one stored last: whoever interleaves, overflow and open    *)
(* only ever take the oldest records, never one from the middle.            *)
NothingSkipped ==
    \A k \in Keyboards : \E m \in 0..Stored(k) :
        {Contents[i].seq : i \in PendingOf(k)} = (m + 1)..Stored(k)

(* The pending records of one keyboard lie in the order it reported them,   *)
(* and none of them has been handed to a client before (the one at the      *)
(* head excepted between being copied and the index moving past it): a      *)
(* client never sees a stale, repeated or reordered record.                 *)
PendingInOrder ==
    LET copied == \E c \in Clients : pc[c] = "advance"
    IN  \A i \in 1..Pending :
            LET r == Contents[i]
            IN  /\ (copied /\ i = 1) \/ r.seq > lastRead[r.kbd]
                /\ \A j \in (i + 1)..Pending :
                      Contents[j].kbd = r.kbd => Contents[j].seq > r.seq

(* What is waiting: the ring whenever the lock is free, and for as long as   *)
(* it is held what was in the ring when it was taken.                        *)
Waiting == IF KeyboardLock = Free THEN Contents ELSE before

Queue == INSTANCE InputQueue
            WITH Capacity <- RingSize - 1,
                 queue <- Waiting,
                 room <- capacity

(* Seen whenever the lock is free, the ring is the bounded queue of         *)
(* InputQueue that holds one record fewer than the ring has slots, and each *)
(* critical section is one operation of that queue.                         *)
ImplementsInputQueue == Queue!Spec

(* Every service callback, open and poll returns, whatever its loop finds in  *)
(* the ring and however often the others take the lock.                      *)
CallsReturn == \A a \in Actors : pc[a] # "idle" ~> pc[a] = "idle"

-----------------------------------------------------------------------------
(* The inductive invariant behind the properties: each part relates the      *)
(* place an actor has reached to what is in the ring.                        *)

(* The holder of the lock is the one actor inside a critical section.        *)
LockInv == \A a \in Actors : pc[a] \in Inside <=> KeyboardLock = a

(* A callback works through the last records its keyboard has reported.      *)
BatchInv ==
    \A k \in Keyboards :
        /\ index[k] <= Len(batch[k])
        /\ Len(batch[k]) <= sent[k]
        /\ Len(batch[k]) <= MaxBatch
        /\ pc[k] = "idle" => batch[k] = <<>>
        /\ pc[k] \in {"idle", "queue"} => index[k] = 0
        /\ \A i \in 1..Len(batch[k]) :
              batch[k][i] = [kbd |-> k, seq |-> (sent[k] - Len(batch[k])) + i]

(* A callback about to store has room for one more record.                   *)
StoreInv ==
    \A k \in Keyboards : pc[k] = "store" =>
        /\ index[k] < Len(batch[k])
        /\ next[k] = Succ(KeyboardWriteIndex)
        /\ next[k] # KeyboardReadIndex

(* Between being copied and the index moving, the head is still pending.     *)
AdvanceInv ==
    \A c \in Clients : pc[c] = "advance" => KeyboardReadIndex # KeyboardWriteIndex

(* What is pending, and what was read, are records that have been stored.    *)
PendingInv ==
    /\ \A i \in 1..Pending :
        /\ Contents[i] \in Records
        /\ Contents[i].seq <= Stored(Contents[i].kbd)
    /\ \A k \in Keyboards : lastRead[k] <= Stored(k)

IInv ==
    /\ TypeOK
    /\ LockInv
    /\ BatchInv
    /\ StoreInv
    /\ AdvanceInv
    /\ PendingInv
    /\ PendingInOrder
    /\ NothingSkipped

(* The n-th of the records that were pending when keyboard k took the lock,  *)
(* followed by those of its batch.                                           *)
QueuedAt(k, n) == IF n <= Len(before) THEN before[n] ELSE batch[k][n - Len(before)]

(* Inside the queue loop the ring holds the last records of that sequence;   *)
(* after MakeRoom there is room for one more.                                *)
QueueProgress ==
    \A k \in Keyboards : pc[k] \in {"loop", "store"} =>
        LET all == Len(before) + index[k]
            kept == IF pc[k] = "loop" THEN RingSize - 1 ELSE RingSize - 2
        IN  /\ Pending = IF all > kept THEN kept ELSE all
            /\ \A i \in 1..Pending : Contents[i] = QueuedAt(k, (all - Pending) + i)

(* Inside the drain loop, what was copied out and what is left make up what  *)
(* was pending; a client that does not drain has copied nothing.             *)
Drained(c) ==
    /\ pc[c] \in {"drain", "test", "advance"} <=> capacity[c] # 0
    /\ pc[c] \notin {"test", "advance"} => output[c] = <<>>
    /\ pc[c] = "created" => Pending = 0
    /\ pc[c] \in {"test", "advance"} =>
        LET passed == IF pc[c] = "advance" THEN 1 ELSE 0
        IN  /\ Len(output[c]) <= capacity[c]
            /\ Len(before) = (Len(output[c]) + Pending) - passed
            /\ \A i \in 1..Len(output[c]) : before[i] = output[c][i]
            /\ \A i \in 1..(Pending - passed) :
                  before[Len(output[c]) + i] = Contents[passed + i]

DrainProgress == \A c \in Clients : Drained(c)

SinceAcquire == QueueProgress /\ DrainProgress
===============================================================================
