-------------------------- MODULE KeyboardRingProofs --------------------------
(* Proofs, for every number of keyboards, clients and slots, of the          *)
(* properties of KeyboardRing that TLC checks on a small instance: first its  *)
(* invariants, then that it implements InputQueue.                           *)
EXTENDS KeyboardRing, TLAPS

(* Wrapping an index is stepping it, or going back to the first slot.        *)
LEMMA SuccValue ==
    ASSUME NEW i \in Slots
    PROVE  /\ Succ(i) = IF i + 1 = RingSize THEN 0 ELSE i + 1
           /\ Succ(i) \in Slots
<1>1. CASE i + 1 = RingSize
  BY <1>1, RingAssumption DEF Succ, Slots
<1>2. CASE i + 1 # RingSize
  <2>1. i + 1 \in 0..(RingSize - 1)
    BY <1>2, RingAssumption DEF Slots
  <2>2. (i + 1) % RingSize = i + 1
    BY <2>1, RingAssumption
  <2> QED
    BY <1>2, <2>1, <2>2 DEF Succ, Slots
<1> QED
  BY <1>1, <1>2

(* How many records are pending follows from where the indices are, and the  *)
(* slots of the pending records are slots other than the next one to write.  *)
LEMMA PendingValue ==
    ASSUME KeyboardReadIndex \in Slots, KeyboardWriteIndex \in Slots
    PROVE  /\ Pending \in 0..(RingSize - 1)
           /\ Pending = 0 <=> KeyboardReadIndex = KeyboardWriteIndex
           /\ Pending = RingSize - 1 <=> Succ(KeyboardWriteIndex) = KeyboardReadIndex
           /\ DOMAIN Contents = 1..Pending
           /\ \A i \in 1..Pending :
                /\ Contents[i] = KeyboardRing[SlotAfter(KeyboardReadIndex, i - 1)]
                /\ SlotAfter(KeyboardReadIndex, i - 1) \in Slots \ {KeyboardWriteIndex}
<1>1. Succ(KeyboardWriteIndex) =
        IF KeyboardWriteIndex + 1 = RingSize THEN 0 ELSE KeyboardWriteIndex + 1
  BY SuccValue
<1>2. /\ Pending \in 0..(RingSize - 1)
      /\ Pending = 0 <=> KeyboardReadIndex = KeyboardWriteIndex
      /\ Pending = RingSize - 1 <=> Succ(KeyboardWriteIndex) = KeyboardReadIndex
  BY <1>1, RingAssumption DEF Pending, Slots
<1>3. DOMAIN Contents = 1..Pending
  BY DEF Contents
<1>4. ASSUME NEW i \in 1..Pending
      PROVE  /\ Contents[i] = KeyboardRing[SlotAfter(KeyboardReadIndex, i - 1)]
             /\ SlotAfter(KeyboardReadIndex, i - 1) \in Slots \ {KeyboardWriteIndex}
  <2>1. Contents[i] = KeyboardRing[SlotAfter(KeyboardReadIndex, i - 1)]
    BY DEF Contents
  <2>2. SlotAfter(KeyboardReadIndex, i - 1) \in Slots \ {KeyboardWriteIndex}
    BY <1>2, RingAssumption DEF Pending, Slots, SlotAfter
  <2> QED
    BY <2>1, <2>2
<1> QED
  BY <1>2, <1>3, <1>4

(* Moving the read index forward forgets the head and nothing else.          *)
LEMMA DropHead ==
    ASSUME KeyboardReadIndex \in Slots, KeyboardWriteIndex \in Slots,
           KeyboardReadIndex # KeyboardWriteIndex,
           KeyboardReadIndex' = Succ(KeyboardReadIndex),
           KeyboardWriteIndex' = KeyboardWriteIndex,
           KeyboardRing' = KeyboardRing
    PROVE  /\ Pending > 0
           /\ Pending' = Pending - 1
           /\ \A i \in 1..Pending' : i + 1 \in 1..Pending /\ Contents'[i] = Contents[i + 1]
<1>1. KeyboardReadIndex' =
        IF KeyboardReadIndex + 1 = RingSize THEN 0 ELSE KeyboardReadIndex + 1
  BY SuccValue
<1>2. Pending > 0 /\ Pending' = Pending - 1 /\ Pending \in Nat
  BY <1>1, RingAssumption DEF Pending, Slots
<1>3. ASSUME NEW i \in 1..Pending'
      PROVE  i + 1 \in 1..Pending /\ Contents'[i] = Contents[i + 1]
  <2>1. i + 1 \in 1..Pending
    BY <1>2
  <2>2. Contents'[i] = KeyboardRing'[SlotAfter(KeyboardReadIndex', i - 1)]
    BY DEF Contents
  <2>3. Contents[i + 1] = KeyboardRing[SlotAfter(KeyboardReadIndex, i)]
    BY <2>1 DEF Contents
  <2>4. SlotAfter(KeyboardReadIndex', i - 1) = SlotAfter(KeyboardReadIndex, i)
    BY <1>1, <1>2, RingAssumption DEF SlotAfter, Slots, Pending
  <2> QED
    BY <2>1, <2>2, <2>3, <2>4
<1> QED
  BY <1>2, <1>3

(* Storing into the slot at the write index adds the record behind the rest. *)
LEMMA AddLast ==
    ASSUME NEW r,
           KeyboardRing \in [Slots -> Records \cup {NoRecord}],
           KeyboardReadIndex \in Slots, KeyboardWriteIndex \in Slots,
           KeyboardReadIndex' = KeyboardReadIndex,
           KeyboardWriteIndex' = Succ(KeyboardWriteIndex),
           Succ(KeyboardWriteIndex) # KeyboardReadIndex,
           KeyboardRing' = [KeyboardRing EXCEPT ![KeyboardWriteIndex] = r]
    PROVE  /\ Pending' = Pending + 1
           /\ Contents'[Pending + 1] = r
           /\ \A i \in 1..Pending : Contents'[i] = Contents[i]
<1>1. KeyboardWriteIndex' =
        IF KeyboardWriteIndex + 1 = RingSize THEN 0 ELSE KeyboardWriteIndex + 1
  BY SuccValue
<1>2. Pending' = Pending + 1 /\ Pending \in Nat
  BY <1>1, RingAssumption DEF Pending, Slots
<1>3. Contents'[Pending + 1] = r
  <2>1. SlotAfter(KeyboardReadIndex', (Pending + 1) - 1) = KeyboardWriteIndex
    BY <1>2, RingAssumption DEF SlotAfter, Slots, Pending
  <2>2. Contents'[Pending + 1] = KeyboardRing'[SlotAfter(KeyboardReadIndex', (Pending + 1) - 1)]
    BY <1>2 DEF Contents
  <2> QED
    BY <2>1, <2>2
<1>4. ASSUME NEW i \in 1..Pending
      PROVE  Contents'[i] = Contents[i]
  <2>1. Contents'[i] = KeyboardRing'[SlotAfter(KeyboardReadIndex', i - 1)]
    BY <1>2 DEF Contents
  <2> QED
    BY <2>1, PendingValue
<1> QED
  BY <1>2, <1>3, <1>4

(* What is pending is a sequence of records; the head is at the read index.  *)
LEMMA ContentsValue ==
    ASSUME IInv
    PROVE  /\ Contents \in Seq(Records)
           /\ Len(Contents) = Pending
           /\ Pending \in Nat
<1>1. Pending \in Nat /\ DOMAIN Contents = 1..Pending
  BY PendingValue DEF IInv, TypeOK
<1>2. Contents \in [1..Pending -> Records]
  <2>1. \A i \in 1..Pending : Contents[i] \in Records
    BY DEF IInv, PendingInv
  <2>2. Contents = [i \in 1..Pending |-> Contents[i]]
    BY DEF Contents
  <2> QED
    BY <2>1, <2>2
<1> QED
  BY <1>1, <1>2

(* A ring whose indices differ holds a record, and the oldest is at the read index. *)
LEMMA HeadValue ==
    ASSUME IInv, KeyboardReadIndex # KeyboardWriteIndex
    PROVE  /\ Pending > 0
           /\ 1 \in 1..Pending
           /\ Contents[1] = KeyboardRing[KeyboardReadIndex]
           /\ KeyboardRing[KeyboardReadIndex] \in Records
<1>1. KeyboardReadIndex \in Slots /\ KeyboardWriteIndex \in Slots
  BY DEF IInv, TypeOK
<1>2. Pending \in Nat /\ Pending # 0
  BY <1>1, PendingValue
<1>3. Contents[1] = KeyboardRing[SlotAfter(KeyboardReadIndex, 1 - 1)]
  BY <1>1, <1>2, PendingValue
<1>4. SlotAfter(KeyboardReadIndex, 1 - 1) = KeyboardReadIndex
  BY <1>1, RingAssumption DEF SlotAfter, Slots
<1> QED
  BY <1>2, <1>3, <1>4 DEF IInv, PendingInv

-----------------------------------------------------------------------------
(* Type correctness, action by action.                                     *)

(* At the start nothing is pending and nobody is inside.                     *)
LEMMA InitInv == Init => IInv
<1> SUFFICES ASSUME Init PROVE IInv
  OBVIOUS
<1> USE RingAssumption
<1>1. TypeOK
  BY DEF Init, TypeOK, Slots, KeyboardPlaces, ClientPlaces, Actors
<1>2. LockInv
  BY DEF Init, LockInv, Inside, Actors
<1>3. BatchInv /\ StoreInv /\ AdvanceInv
  BY DEF Init, BatchInv, StoreInv, AdvanceInv, Actors
<1>4. Pending = 0 /\ \A k \in Keyboards : Stored(k) = 0
  BY DEF Init, Pending, Stored
<1>5. PendingInv /\ PendingInOrder
  BY <1>4 DEF Init, PendingInv, PendingInOrder
<1>6. NothingSkipped
  <2> SUFFICES ASSUME NEW k \in Keyboards
               PROVE  {Contents[i].seq : i \in PendingOf(k)} = (0 + 1)..Stored(k)
    BY <1>4, 0 \in 0..0 DEF NothingSkipped
  <2> QED
    BY <1>4 DEF PendingOf
<1> QED
  BY <1>1, <1>2, <1>3, <1>5, <1>6 DEF IInv

(* Every step keeps the locals and the ring within their types.              *)
LEMMA TypeStep == IInv /\ [Next]_vars => TypeOK'
<1> SUFFICES ASSUME IInv, [Next]_vars PROVE TypeOK'
  OBVIOUS
<1> USE RingAssumption DEF TypeOK, KeyboardPlaces, ClientPlaces, Actors, Goto,
        shared, callbackVars, clientVars, history
<1>0. TypeOK /\ LockInv /\ BatchInv /\ StoreInv /\ AdvanceInv /\ PendingInv
  BY DEF IInv
<1>1. ASSUME NEW k \in Keyboards, Callback(k) PROVE TypeOK'
  <2>1. PICK n \in 0..MaxBatch :
          /\ sent[k] + n <= MaxSent
          /\ batch' = [batch EXCEPT ![k] = [i \in 1..n |-> [kbd |-> k, seq |-> sent[k] + i]]]
          /\ sent' = [sent EXCEPT ![k] = @ + n]
    BY <1>1 DEF Callback
  <2>2. [i \in 1..n |-> [kbd |-> k, seq |-> sent[k] + i]] \in Seq(Records)
    BY <1>0, <2>1 DEF Records
  <2>3. batch' \in [Keyboards -> Seq(Records)]
    BY <1>0, <2>1, <2>2
  <2>4. sent' \in [Keyboards -> 0..MaxSent]
    BY <1>0, <2>1
  <2>5. /\ pc' = [pc EXCEPT ![k] = "queue"]
        /\ UNCHANGED <<shared, KeyboardLock, index, next, clientVars, history>>
    BY <1>1 DEF Callback
  <2> QED
    BY SMTT(40), <1>0, <2>3, <2>4, <2>5
<1>2. ASSUME NEW k \in Keyboards, QueueAcquire(k) PROVE TypeOK'
  <2>1. before' \in Seq(Records)
    BY <1>2, ContentsValue DEF QueueAcquire, Acquire
  <2> QED
    BY <1>0, <1>2, <2>1 DEF QueueAcquire, Acquire
<1>3. ASSUME NEW k \in Keyboards, MakeRoom(k) PROVE TypeOK'
  BY <1>0, <1>3, SuccValue DEF MakeRoom
<1>4. ASSUME NEW k \in Keyboards, Store(k) PROVE TypeOK'
  <2>1. batch[k][index[k] + 1] \in Records
    BY <1>0, <1>4 DEF Store, StoreInv
  <2> QED
    BY <1>0, <1>4, <2>1 DEF Store
<1>5. ASSUME NEW k \in Keyboards, QueueRelease(k) PROVE TypeOK'
  BY SMTT(40), <1>0, <1>5 DEF QueueRelease, Release, Slots
<1>6. ASSUME NEW c \in Clients, OpenCall(c) PROVE TypeOK'
  BY SMTT(40), <1>0, <1>6 DEF OpenCall
<1>7. ASSUME NEW c \in Clients, OpenAcquire(c) PROVE TypeOK'
  <2>1. before' \in Seq(Records)
    BY <1>7, ContentsValue DEF OpenAcquire, Acquire
  <2> QED
    BY SMTT(40), <1>0, <1>7, <2>1 DEF OpenAcquire, Acquire
<1>8. ASSUME NEW c \in Clients, Reset(c) PROVE TypeOK'
  BY SMTT(40), <1>0, <1>8 DEF Reset
<1>9. ASSUME NEW c \in Clients, OpenRelease(c) PROVE TypeOK'
  BY SMTT(40), <1>0, <1>9 DEF OpenRelease, Release
<1>10. ASSUME NEW c \in Clients, PollCall(c) PROVE TypeOK'
  <2>1. PICK n \in 0..MaxOutput :
          IF n = 0
          THEN /\ pc[c] = "idle"
               /\ result' = [result EXCEPT ![c] = <<>>]
               /\ UNCHANGED <<pc, capacity, output>>
          ELSE /\ Goto(c, "idle", "drain")
               /\ capacity' = [capacity EXCEPT ![c] = n]
               /\ UNCHANGED <<output, result>>
    BY <1>10 DEF PollCall
  <2>2. UNCHANGED <<shared, KeyboardLock, callbackVars, history>>
    BY <1>10 DEF PollCall
  <2>3. CASE n = 0
    <3>1. /\ result' = [result EXCEPT ![c] = <<>>]
          /\ UNCHANGED <<pc, capacity, output>>
      BY <2>1, <2>3
    <3> QED
      BY SMTT(40), <1>0, <2>2, <3>1
  <2>4. CASE n # 0
    <3>1. /\ pc[c] = "idle"
          /\ pc' = [pc EXCEPT ![c] = "drain"]
          /\ capacity' = [capacity EXCEPT ![c] = n]
          /\ UNCHANGED <<output, result>>
      BY <2>1, <2>4
    <3> QED
      BY <1>0, <2>2, <3>1
  <2> QED
    BY <2>3, <2>4
<1>11. ASSUME NEW c \in Clients, DrainAcquire(c) PROVE TypeOK'
  <2>1. before' \in Seq(Records)
    BY <1>11, ContentsValue DEF DrainAcquire, Acquire
  <2> QED
    BY <1>0, <1>11, <2>1 DEF DrainAcquire, Acquire
<1>12. ASSUME NEW c \in Clients, CopyOut(c) PROVE TypeOK'
  <2>1. KeyboardRing[KeyboardReadIndex] \in Records
    BY <1>12, HeadValue DEF CopyOut, MoreToCopy
  <2>2. output' \in [Clients -> Seq(Records)]
    BY <1>0, <1>12, <2>1 DEF CopyOut
  <2>3. lastRead' \in [Keyboards -> 0..MaxSent]
    BY <1>0, <1>12, <2>1 DEF CopyOut, Records
  <2> QED
    BY <1>0, <1>12, <2>2, <2>3 DEF CopyOut
<1>13. ASSUME NEW c \in Clients, Advance(c) PROVE TypeOK'
  BY <1>0, <1>13, SuccValue DEF Advance
<1>14. ASSUME NEW c \in Clients, DrainRelease(c) PROVE TypeOK'
  BY <1>0, <1>14 DEF DrainRelease, Release
<1>15. CASE UNCHANGED vars
  BY <1>0, <1>15 DEF vars
<1> QED
  BY <1>1, <1>2, <1>3, <1>4, <1>5, <1>6, <1>7, <1>8, <1>9, <1>10, <1>11, <1>12,
     <1>13, <1>14, <1>15 DEF Next, CallbackStep, ClientStep

-----------------------------------------------------------------------------
(* The lock and the locals of the routines.                                *)

(* Only an actor that takes the lock enters a critical section, and it leaves *)
(* with the lock.                                                            *)
LEMMA LockStep == IInv /\ [Next]_vars => LockInv'
<1> SUFFICES ASSUME IInv, [Next]_vars PROVE LockInv'
  OBVIOUS
<1> USE RingAssumption DEF LockInv, Inside, TypeOK, KeyboardPlaces, ClientPlaces, Actors, Goto,
        shared, callbackVars, clientVars, history
<1>0. TypeOK /\ LockInv
  BY DEF IInv
<1>1. ASSUME NEW k \in Keyboards, Callback(k) PROVE LockInv'
  BY <1>0, <1>1 DEF Callback
<1>2. ASSUME NEW k \in Keyboards, QueueAcquire(k) PROVE LockInv'
  BY <1>0, <1>2 DEF QueueAcquire, Acquire
<1>3. ASSUME NEW k \in Keyboards, MakeRoom(k) PROVE LockInv'
  BY <1>0, <1>3 DEF MakeRoom
<1>4. ASSUME NEW k \in Keyboards, Store(k) PROVE LockInv'
  BY <1>0, <1>4 DEF Store
<1>5. ASSUME NEW k \in Keyboards, QueueRelease(k) PROVE LockInv'
  BY <1>0, <1>5 DEF QueueRelease, Release
<1>6. ASSUME NEW c \in Clients, OpenCall(c) PROVE LockInv'
  BY <1>0, <1>6 DEF OpenCall
<1>7. ASSUME NEW c \in Clients, OpenAcquire(c) PROVE LockInv'
  BY <1>0, <1>7 DEF OpenAcquire, Acquire
<1>8. ASSUME NEW c \in Clients, Reset(c) PROVE LockInv'
  BY <1>0, <1>8 DEF Reset
<1>9. ASSUME NEW c \in Clients, OpenRelease(c) PROVE LockInv'
  BY <1>0, <1>9 DEF OpenRelease, Release
<1>10. ASSUME NEW c \in Clients, PollCall(c) PROVE LockInv'
  BY <1>0, <1>10 DEF PollCall
<1>11. ASSUME NEW c \in Clients, DrainAcquire(c) PROVE LockInv'
  BY <1>0, <1>11 DEF DrainAcquire, Acquire
<1>12. ASSUME NEW c \in Clients, CopyOut(c) PROVE LockInv'
  BY <1>0, <1>12 DEF CopyOut, MoreToCopy
<1>13. ASSUME NEW c \in Clients, Advance(c) PROVE LockInv'
  BY <1>0, <1>13 DEF Advance
<1>14. ASSUME NEW c \in Clients, DrainRelease(c) PROVE LockInv'
  BY <1>0, <1>14 DEF DrainRelease, Release
<1>15. CASE UNCHANGED vars
  BY <1>0, <1>15 DEF vars
<1> QED
  BY <1>1, <1>2, <1>3, <1>4, <1>5, <1>6, <1>7, <1>8, <1>9, <1>10, <1>11, <1>12,
     <1>13, <1>14, <1>15 DEF Next, CallbackStep, ClientStep

(* A callback's locals describe what is left of its batch, and only the       *)
(* holder of the lock moves the indices it relies on.                         *)
LEMMA LocalsStep == IInv /\ [Next]_vars => (BatchInv /\ StoreInv /\ AdvanceInv)'
<1> SUFFICES ASSUME IInv, [Next]_vars PROVE (BatchInv /\ StoreInv /\ AdvanceInv)'
  OBVIOUS
<1> USE RingAssumption DEF LockInv, Inside, TypeOK, KeyboardPlaces, ClientPlaces, Actors, Goto,
        BatchInv, StoreInv, AdvanceInv, shared, callbackVars, clientVars, history
<1>0. TypeOK /\ LockInv /\ BatchInv /\ StoreInv /\ AdvanceInv
  BY DEF IInv
<1>1. ASSUME NEW k \in Keyboards, Callback(k) PROVE (BatchInv /\ StoreInv /\ AdvanceInv)'
  BY SMTT(40), <1>0, <1>1 DEF Callback
<1>2. ASSUME NEW k \in Keyboards, QueueAcquire(k) PROVE (BatchInv /\ StoreInv /\ AdvanceInv)'
  BY <1>0, <1>2 DEF QueueAcquire, Acquire
<1>3. ASSUME NEW k \in Keyboards, MakeRoom(k) PROVE (BatchInv /\ StoreInv /\ AdvanceInv)'
  <2>1. KeyboardReadIndex' # Succ(KeyboardWriteIndex)
    <3>1. Succ(KeyboardReadIndex) =
            IF KeyboardReadIndex + 1 = RingSize THEN 0 ELSE KeyboardReadIndex + 1
      BY <1>0, SuccValue
    <3>2. KeyboardReadIndex \in Nat /\ Succ(KeyboardReadIndex) # KeyboardReadIndex
      BY <1>0, <3>1 DEF Slots
    <3> QED
      BY <1>3, <3>2 DEF MakeRoom
  <2>2. BatchInv'
    BY <1>0, <1>3 DEF MakeRoom
  <2>3. StoreInv'
    BY <1>0, <1>3, <2>1 DEF MakeRoom, Succ
  <2>4. AdvanceInv'
    BY <1>0, <1>3 DEF MakeRoom
  <2> QED
    BY <2>2, <2>3, <2>4
<1>4. ASSUME NEW k \in Keyboards, Store(k) PROVE (BatchInv /\ StoreInv /\ AdvanceInv)'
  BY <1>0, <1>4 DEF Store
<1>5. ASSUME NEW k \in Keyboards, QueueRelease(k) PROVE (BatchInv /\ StoreInv /\ AdvanceInv)'
  BY <1>0, <1>5 DEF QueueRelease, Release
<1>6. ASSUME NEW c \in Clients, OpenCall(c) PROVE (BatchInv /\ StoreInv /\ AdvanceInv)'
  BY <1>0, <1>6 DEF OpenCall
<1>7. ASSUME NEW c \in Clients, OpenAcquire(c) PROVE (BatchInv /\ StoreInv /\ AdvanceInv)'
  BY <1>0, <1>7 DEF OpenAcquire, Acquire
<1>8. ASSUME NEW c \in Clients, Reset(c) PROVE (BatchInv /\ StoreInv /\ AdvanceInv)'
  BY <1>0, <1>8 DEF Reset
<1>9. ASSUME NEW c \in Clients, OpenRelease(c) PROVE (BatchInv /\ StoreInv /\ AdvanceInv)'
  BY <1>0, <1>9 DEF OpenRelease, Release
<1>10. ASSUME NEW c \in Clients, PollCall(c) PROVE (BatchInv /\ StoreInv /\ AdvanceInv)'
  BY SMTT(40), <1>0, <1>10 DEF PollCall
<1>11. ASSUME NEW c \in Clients, DrainAcquire(c) PROVE (BatchInv /\ StoreInv /\ AdvanceInv)'
  BY <1>0, <1>11 DEF DrainAcquire, Acquire
<1>12. ASSUME NEW c \in Clients, CopyOut(c) PROVE (BatchInv /\ StoreInv /\ AdvanceInv)'
  BY <1>0, <1>12 DEF CopyOut, MoreToCopy
<1>13. ASSUME NEW c \in Clients, Advance(c) PROVE (BatchInv /\ StoreInv /\ AdvanceInv)'
  BY <1>0, <1>13 DEF Advance
<1>14. ASSUME NEW c \in Clients, DrainRelease(c) PROVE (BatchInv /\ StoreInv /\ AdvanceInv)'
  BY <1>0, <1>14 DEF DrainRelease, Release
<1>15. CASE UNCHANGED vars
  BY <1>0, <1>15 DEF vars
<1> QED
  BY <1>1, <1>2, <1>3, <1>4, <1>5, <1>6, <1>7, <1>8, <1>9, <1>10, <1>11, <1>12,
     <1>13, <1>14, <1>15 DEF Next, CallbackStep, ClientStep

-----------------------------------------------------------------------------
(* The order and completeness of what is pending.                          *)

RingInv == PendingInv /\ PendingInOrder /\ NothingSkipped

(* Stored(k) is a number.                                                    *)
LEMMA StoredType ==
    ASSUME IInv, NEW k \in Keyboards
    PROVE  Stored(k) \in Nat /\ Stored(k) <= sent[k]
BY DEF IInv, TypeOK, BatchInv, Stored

(* A step that leaves the ring, the reads and the stores alone.              *)
LEMMA SameRing ==
    ASSUME IInv, UNCHANGED <<shared, lastRead>>,
           \A k \in Keyboards : Stored(k)' = Stored(k),
           \A c \in Clients : pc'[c] = "advance" <=> pc[c] = "advance"
    PROVE  RingInv'
<1>1. Pending' = Pending /\ Contents' = Contents
  BY DEF shared, Pending, Contents, SlotAfter
<1>2. \A k \in Keyboards : PendingOf(k)' = PendingOf(k)
  BY <1>1 DEF PendingOf
<1>3. RingInv
  BY DEF IInv, RingInv
<1>4. PendingInv'
  BY <1>1, <1>3 DEF RingInv, PendingInv, Records
<1>5. PendingInOrder'
  BY <1>1, <1>3 DEF RingInv, PendingInOrder
<1>6. NothingSkipped'
  BY <1>1, <1>2, <1>3 DEF RingInv, NothingSkipped
<1> QED
  BY <1>4, <1>5, <1>6 DEF RingInv

(* Forgetting the head, be it read or overwritten: of its keyboard it was    *)
(* the oldest record pending, so what is left is still an unbroken run.      *)
LEMMA ForgetHead ==
    ASSUME IInv,
           KeyboardReadIndex # KeyboardWriteIndex,
           KeyboardReadIndex' = Succ(KeyboardReadIndex),
           UNCHANGED <<KeyboardWriteIndex, KeyboardRing, lastRead>>,
           \A k \in Keyboards : Stored(k)' = Stored(k)
    PROVE  RingInv'
<1>1. /\ Pending \in Nat /\ Pending > 0
      /\ Pending' = Pending - 1
      /\ \A i \in 1..Pending' : i + 1 \in 1..Pending /\ Contents'[i] = Contents[i + 1]
  BY DropHead, ContentsValue DEF IInv, TypeOK
<1>2. \A i \in 1..Pending : Contents[i] \in Records /\ Contents[i].seq <= Stored(Contents[i].kbd)
  BY DEF IInv, PendingInv
<1>3. \A i, j \in 1..Pending :
        i < j /\ Contents[j].kbd = Contents[i].kbd => Contents[j].seq > Contents[i].seq
  BY <1>1 DEF IInv, PendingInOrder
<1>4. PendingInv'
  BY <1>1, <1>2 DEF IInv, PendingInv, Records
<1>5. PendingInOrder'
  <2> SUFFICES ASSUME NEW i \in 1..Pending'
               PROVE  /\ Contents'[i].seq > lastRead[Contents'[i].kbd]
                      /\ \A j \in (i + 1)..Pending' :
                            Contents'[j].kbd = Contents'[i].kbd =>
                                Contents'[j].seq > Contents'[i].seq
    BY DEF PendingInOrder
  <2>1. i + 1 \in 1..Pending /\ i + 1 # 1
    BY <1>1
  <2>2. Contents[i + 1].seq > lastRead[Contents[i + 1].kbd]
    BY <2>1 DEF IInv, PendingInOrder
  <2> QED
    BY <1>1, <1>3, <2>1, <2>2
<1>6. NothingSkipped'
  <2> SUFFICES ASSUME NEW k \in Keyboards
               PROVE  \E m \in 0..Stored(k)' :
                        {Contents'[i].seq : i \in PendingOf(k)'} = (m + 1)..Stored(k)'
    BY DEF NothingSkipped
  <2>1. PICK m \in 0..Stored(k) :
          {Contents[i].seq : i \in PendingOf(k)} = (m + 1)..Stored(k)
    BY DEF IInv, NothingSkipped
  <2>2. Stored(k) \in Nat /\ Stored(k)' = Stored(k) /\ m \in Nat
    BY StoredType
  <2>3. \A i : i \in PendingOf(k)' <=> i \in 1..Pending' /\ i + 1 \in PendingOf(k)
    BY <1>1 DEF PendingOf
  <2>4. CASE Contents[1].kbd # k
    <3>1. \A i \in PendingOf(k) : i - 1 \in PendingOf(k)' /\ Contents'[i - 1] = Contents[i]
      BY <1>1, <2>3, <2>4 DEF PendingOf
    <3>2. {Contents'[i].seq : i \in PendingOf(k)'} = {Contents[i].seq : i \in PendingOf(k)}
      BY <1>1, <2>3, <3>1
    <3> QED
      BY <2>1, <2>2, <3>2
  <2>5. CASE Contents[1].kbd = k
    <3>1. 1 \in PendingOf(k)
      BY <1>1, <2>5 DEF PendingOf
    <3>2. Contents[1].seq \in (m + 1)..Stored(k)
      BY <2>1, <3>1
    <3>3. \A i \in PendingOf(k) : i # 1 => Contents[i].seq > Contents[1].seq
      BY <1>1, <1>3, <2>5 DEF PendingOf
    <3>4. Contents[1].seq = m + 1
      <4>1. m + 1 \in {Contents[i].seq : i \in PendingOf(k)}
        BY <2>1, <2>2, <3>2
      <4>2. PICK i \in PendingOf(k) : Contents[i].seq = m + 1
        BY <4>1
      <4> QED
        BY <2>2, <3>2, <3>3, <4>2
    <3>5. {Contents'[i].seq : i \in PendingOf(k)'} \subseteq (m + 2)..Stored(k)
      <4> SUFFICES ASSUME NEW i \in PendingOf(k)'
                   PROVE  Contents'[i].seq \in (m + 2)..Stored(k)
        OBVIOUS
      <4>1. i + 1 \in PendingOf(k) /\ i \in 1..Pending' /\ Contents'[i] = Contents[i + 1]
        BY <1>1, <2>3
      <4>2. Contents[i + 1].seq \in (m + 1)..Stored(k)
        BY <2>1, <4>1
      <4>3. Contents[i + 1].seq > m + 1
        BY <1>1, <3>3, <3>4, <4>1
      <4> QED
        BY <2>2, <4>1, <4>2, <4>3
    <3>6. (m + 2)..Stored(k) \subseteq {Contents'[i].seq : i \in PendingOf(k)'}
      <4> SUFFICES ASSUME NEW n \in (m + 2)..Stored(k)
                   PROVE  \E i \in PendingOf(k)' : Contents'[i].seq = n
        OBVIOUS
      <4>1. n \in (m + 1)..Stored(k) /\ n # m + 1
        BY <2>2
      <4>2. PICK i \in PendingOf(k) : Contents[i].seq = n
        BY <2>1, <4>1
      <4>3. i # 1 /\ i \in 1..Pending
        BY <3>4, <4>1, <4>2 DEF PendingOf
      <4>4. i - 1 \in 1..Pending' /\ (i - 1) + 1 = i
        BY <1>1, <4>3
      <4> QED
        BY <1>1, <2>3, <4>2, <4>4
    <3>7. m + 1 \in 0..Stored(k)' /\ (m + 1) + 1 = m + 2
      BY <2>2, <3>2, <3>4
    <3> QED
      BY <2>2, <3>5, <3>6, <3>7
  <2> QED
    BY <2>4, <2>5
<1> QED
  BY <1>4, <1>5, <1>6 DEF RingInv

(* Storing the next record of a batch: it is newer than every record of its  *)
(* keyboard that is pending or was read, and goes behind them all.           *)
LEMMA StoreLast ==
    ASSUME IInv, NEW k \in Keyboards, Store(k)
    PROVE  RingInv'
<1> USE DEF Goto
<1>1. /\ index[k] < Len(batch[k]) /\ index[k] \in Nat
      /\ batch[k][index[k] + 1] = [kbd |-> k, seq |-> Stored(k) + 1]
      /\ batch[k] \in Seq(Records)
  BY DEF IInv, TypeOK, BatchInv, StoreInv, Store, Stored
<1>2. [kbd |-> k, seq |-> Stored(k) + 1] \in Records
  BY <1>1
<1>3. /\ \A j \in Keyboards : Stored(j) \in Nat
      /\ Stored(k)' = Stored(k) + 1
      /\ \A j \in Keyboards : j # k => Stored(j)' = Stored(j)
  <2>1. \A j \in Keyboards : Stored(j) \in Nat
    BY StoredType
  <2>2. /\ index \in [Keyboards -> Nat] /\ sent \in [Keyboards -> Nat]
        /\ batch \in [Keyboards -> Seq(Records)]
    BY DEF IInv, TypeOK
  <2>3. batch' = batch /\ sent' = sent /\ index' = [index EXCEPT ![k] = @ + 1]
    BY DEF Store
  <2>4. \A j \in Keyboards : Len(batch[j]) \in Nat
    BY <2>2
  <2> QED
    BY <2>1, <2>2, <2>3, <2>4 DEF Stored
<1>4. /\ Pending' = Pending + 1
      /\ Contents'[Pending + 1] = [kbd |-> k, seq |-> Stored(k) + 1]
      /\ \A i \in 1..Pending : Contents'[i] = Contents[i]
  BY <1>1, AddLast DEF IInv, TypeOK, StoreInv, Store
<1>5. Pending \in Nat
  BY ContentsValue
<1>6. lastRead' = lastRead /\ lastRead \in [Keyboards -> Nat]
  BY DEF Store, history, IInv, TypeOK
<1>7. \A c \in Clients : pc[c] # "advance"
  BY RingAssumption DEF Store, IInv, TypeOK, LockInv, Inside, Actors
<1>8. \A i \in 1..Pending' : i \in 1..Pending \/ i = Pending + 1
  BY <1>4, <1>5
<1>9. \A i \in 1..Pending : Contents[i] \in Records /\ Contents[i].seq <= Stored(Contents[i].kbd)
  BY DEF IInv, PendingInv
<1>10. PendingInv'
  <2>1. ASSUME NEW i \in 1..Pending'
        PROVE  (Contents[i] \in Records /\ Contents[i].seq <= Stored(Contents[i].kbd))'
    <3>1. CASE i \in 1..Pending
      <4>1. Contents[i] \in Records /\ Contents[i].seq <= Stored(Contents[i].kbd)
        BY <1>9, <3>1
      <4>2. PICK j \in Keyboards : j = Contents[i].kbd
        BY <4>1 DEF Records
      <4>3. Contents[i].seq \in Nat
        BY <4>1 DEF Records
      <4>4. Contents[i].seq <= Stored(j)
        BY <4>1, <4>2
      <4>5. Stored(j)' >= Stored(j) /\ Stored(j)' \in Nat /\ Stored(j) \in Nat
        BY <1>3
      <4>6. Contents'[i] = Contents[i]
        BY <1>4, <3>1
      <4>7. Contents[i].seq <= Stored(j)'
        BY <4>3, <4>4, <4>5
      <4> QED
        BY <4>1, <4>2, <4>6, <4>7 DEF Stored, Records
    <3>2. CASE i = Pending + 1
      <4>1. Contents'[i] = [kbd |-> k, seq |-> Stored(k) + 1]
        BY <1>4, <3>2
      <4>2. Contents'[i].seq <= Stored(k)'
        BY <1>3, <4>1
      <4> QED
        BY <1>2, <4>1, <4>2 DEF Stored, Records
    <3> QED
      BY <1>8, <3>1, <3>2
  <2>2. \A j \in Keyboards : lastRead[j] <= Stored(j)'
    BY <1>3, <1>6 DEF IInv, PendingInv
  <2> QED
    BY <1>6, <2>1, <2>2 DEF PendingInv, Records
<1>11. PendingInOrder'
  <2> SUFFICES ASSUME NEW i \in 1..Pending'
               PROVE  /\ Contents'[i].seq > lastRead[Contents'[i].kbd]
                      /\ \A j \in (i + 1)..Pending' :
                            Contents'[j].kbd = Contents'[i].kbd =>
                                Contents'[j].seq > Contents'[i].seq
    BY <1>6 DEF PendingInOrder
  <2>1. CASE i = Pending + 1
    <3>1. lastRead[k] <= Stored(k)
      BY DEF IInv, PendingInv
    <3> QED
      BY <1>3, <1>4, <1>5, <1>6, <2>1, <3>1
  <2>2. CASE i \in 1..Pending
    <3>1. Contents[i].seq > lastRead[Contents[i].kbd]
      BY <1>7, <2>2 DEF IInv, PendingInOrder
    <3>2. ASSUME NEW j \in (i + 1)..Pending', Contents'[j].kbd = Contents'[i].kbd
          PROVE  Contents'[j].seq > Contents'[i].seq
      <4>1. CASE j = Pending + 1
        <5>1. Contents[i].kbd = k /\ Contents[i].seq <= Stored(k) /\ Contents[i].seq \in Nat
          BY <1>4, <1>9, <2>2, <3>2, <4>1 DEF Records
        <5> QED
          BY <1>3, <1>4, <2>2, <4>1, <5>1
      <4>2. CASE j \in (i + 1)..Pending
        <5>1. j \in 1..Pending
          BY <1>5, <2>2, <4>2
        <5>2. Contents[j].kbd = Contents[i].kbd => Contents[j].seq > Contents[i].seq
          BY <2>2, <4>2 DEF IInv, PendingInOrder
        <5> QED
          BY <1>4, <2>2, <3>2, <5>1, <5>2
      <4> QED
        BY <1>4, <1>5, <2>2, <4>1, <4>2
    <3> QED
      BY <1>4, <2>2, <3>1, <3>2
  <2> QED
    BY <1>8, <2>1, <2>2
<1>12. NothingSkipped'
  <2> SUFFICES ASSUME NEW j \in Keyboards
               PROVE  \E m \in 0..Stored(j)' :
                        {Contents'[i].seq : i \in PendingOf(j)'} = (m + 1)..Stored(j)'
    BY DEF NothingSkipped
  <2>1. PICK m \in 0..Stored(j) :
          {Contents[i].seq : i \in PendingOf(j)} = (m + 1)..Stored(j)
    BY DEF IInv, NothingSkipped
  <2>2. CASE j # k
    <3>1. PendingOf(j)' = PendingOf(j)
      BY <1>4, <1>5, <1>8, <2>2 DEF PendingOf
    <3>2. \A i \in PendingOf(j) : Contents'[i] = Contents[i]
      BY <1>4 DEF PendingOf
    <3>3. Stored(j)' = Stored(j)
      BY <1>3, <2>2
    <3> QED
      BY <2>1, <3>1, <3>2, <3>3
  <2>3. CASE j = k
    <3>1. PendingOf(k)' = PendingOf(k) \cup {Pending + 1}
      BY <1>4, <1>5, <1>8 DEF PendingOf
    <3>2. \A i \in PendingOf(k) : Contents'[i] = Contents[i]
      BY <1>4 DEF PendingOf
    <3>3. {Contents'[i].seq : i \in PendingOf(k)'}
            = {Contents[i].seq : i \in PendingOf(k)} \cup {Stored(k) + 1}
      BY <1>4, <3>1, <3>2
    <3>4. (m + 1)..Stored(k) \cup {Stored(k) + 1} = (m + 1)..(Stored(k) + 1)
      BY <1>3, <2>3
    <3>5. m \in 0..Stored(k)'
      BY <1>3, <2>3
    <3> QED
      BY <1>3, <2>1, <2>3, <3>3, <3>4, <3>5
  <2> QED
    BY <2>2, <2>3
<1> QED
  BY <1>10, <1>11, <1>12 DEF RingInv

(* A poll that copies the head out has read the newest record of that        *)
(* keyboard so far; the others of the same keyboard come after it.           *)
LEMMA ReadHead ==
    ASSUME IInv, NEW c \in Clients, CopyOut(c)
    PROVE  RingInv'
<1> USE DEF Goto
<1>1. /\ Pending > 0 /\ 1 \in 1..Pending /\ Pending \in Nat
      /\ Contents[1] \in Records
      /\ lastRead' = [lastRead EXCEPT ![Contents[1].kbd] = Contents[1].seq]
  BY HeadValue, ContentsValue DEF CopyOut, MoreToCopy
<1>2. /\ Pending' = Pending /\ Contents' = Contents
      /\ \A k \in Keyboards : PendingOf(k)' = PendingOf(k) /\ Stored(k)' = Stored(k)
  BY DEF CopyOut, shared, callbackVars, Pending, Contents, SlotAfter, PendingOf, Stored
<1>3. pc'[c] = "advance"
  BY DEF CopyOut, IInv, TypeOK, Actors
<1>4. PendingInv'
  <2>1. \A i \in 1..Pending : Contents[i] \in Records /\ Contents[i].seq <= Stored(Contents[i].kbd)
    BY DEF IInv, PendingInv
  <2>2. ASSUME NEW k \in Keyboards PROVE lastRead'[k] <= Stored(k)
    <3>1. lastRead[k] <= Stored(k) /\ lastRead \in [Keyboards -> Nat]
      BY DEF IInv, PendingInv, TypeOK
    <3> QED
      BY <1>1, <2>1, <3>1
  <2> QED
    BY <1>2, <2>1, <2>2 DEF PendingInv, Records
<1>5. PendingInOrder'
  <2> SUFFICES ASSUME NEW i \in 1..Pending
               PROVE  /\ i # 1 => Contents[i].seq > lastRead'[Contents[i].kbd]
                      /\ \A j \in (i + 1)..Pending :
                            Contents[j].kbd = Contents[i].kbd =>
                                Contents[j].seq > Contents[i].seq
    BY <1>2, <1>3 DEF PendingInOrder
  <2>1. \A j \in (i + 1)..Pending :
            Contents[j].kbd = Contents[i].kbd => Contents[j].seq > Contents[i].seq
    BY DEF IInv, PendingInOrder
  <2>2. ASSUME i # 1 PROVE Contents[i].seq > lastRead'[Contents[i].kbd]
    <3>1. Contents[i].seq > lastRead[Contents[i].kbd]
      BY <2>2 DEF IInv, PendingInOrder
    <3>2. Contents[i].kbd = Contents[1].kbd => Contents[i].seq > Contents[1].seq
      BY <1>1, <2>2 DEF IInv, PendingInOrder
    <3>3. lastRead \in [Keyboards -> Nat] /\ Contents[1].kbd \in Keyboards
      BY <1>1 DEF IInv, TypeOK, Records
    <3>4. Contents[i].kbd \in Keyboards
      BY DEF IInv, PendingInv, Records
    <3> QED
      BY <1>1, <3>1, <3>2, <3>3, <3>4
  <2> QED
    BY <2>1, <2>2
<1>6. NothingSkipped'
  BY <1>2 DEF IInv, NothingSkipped
<1> QED
  BY <1>4, <1>5, <1>6 DEF RingInv

(* Opening the device leaves nothing pending.                                *)
LEMMA ForgetAll ==
    ASSUME IInv, NEW c \in Clients, Reset(c)
    PROVE  RingInv'
<1>1. Pending' = 0
  BY DEF Reset, Pending, IInv, TypeOK, Slots
<1>2. lastRead' = lastRead /\ \A k \in Keyboards : Stored(k)' = Stored(k)
  BY DEF Reset, history, callbackVars, Stored
<1>3. PendingInv' /\ PendingInOrder'
  BY <1>1, <1>2 DEF IInv, PendingInv, PendingInOrder
<1>4. NothingSkipped'
  <2> SUFFICES ASSUME NEW k \in Keyboards
               PROVE  {Contents'[i].seq : i \in PendingOf(k)'} = (Stored(k) + 1)..Stored(k)
    BY <1>2, StoredType DEF NothingSkipped
  <2> QED
    BY <1>1, StoredType DEF PendingOf
<1> QED
  BY <1>3, <1>4 DEF RingInv

(* Every step keeps the pending records in order and without a gap.          *)
LEMMA RingStep == IInv /\ [Next]_vars => RingInv'
<1> SUFFICES ASSUME IInv, [Next]_vars PROVE RingInv'
  OBVIOUS
<1> USE RingAssumption DEF Actors, Goto, KeyboardPlaces, ClientPlaces,
        shared, callbackVars, clientVars, history
<1>0. TypeOK /\ LockInv /\ BatchInv
  BY DEF IInv
<1>1. ASSUME NEW k \in Keyboards, Callback(k) PROVE RingInv'
  <2>1. \A j \in Keyboards : Stored(j)' = Stored(j)
    <3>1. batch[k] = <<>> /\ index[k] = 0
      BY <1>0, <1>1 DEF Callback, BatchInv
    <3>2. PICK n \in 0..MaxBatch :
            /\ batch' = [batch EXCEPT ![k] = [i \in 1..n |-> [kbd |-> k, seq |-> sent[k] + i]]]
            /\ sent' = [sent EXCEPT ![k] = @ + n]
      BY <1>1 DEF Callback
    <3>3. Len(batch'[k]) = n
      BY <1>0, <3>2 DEF TypeOK
    <3> QED
      BY <1>0, <1>1, <3>1, <3>2, <3>3 DEF Callback, Stored, TypeOK
  <2>2. \A d \in Clients : pc'[d] = "advance" <=> pc[d] = "advance"
    BY <1>0, <1>1 DEF Callback, TypeOK
  <2> QED
    BY <1>1, <2>1, <2>2, SameRing DEF Callback
<1>2. ASSUME NEW k \in Keyboards, QueueAcquire(k) PROVE RingInv'
  <2>1. \A j \in Keyboards : Stored(j)' = Stored(j)
    BY <1>0, <1>2 DEF QueueAcquire, Acquire, Stored
  <2>2. \A d \in Clients : pc'[d] = "advance" <=> pc[d] = "advance"
    BY <1>0, <1>2 DEF QueueAcquire, Acquire, TypeOK
  <2> QED
    BY <1>2, <2>1, <2>2, SameRing DEF QueueAcquire, Acquire
<1>5. ASSUME NEW k \in Keyboards, QueueRelease(k) PROVE RingInv'
  <2>1. \A j \in Keyboards : Stored(j)' = Stored(j)
    BY <1>0, <1>5 DEF QueueRelease, Release, Stored, TypeOK, BatchInv
  <2>2. \A d \in Clients : pc'[d] = "advance" <=> pc[d] = "advance"
    BY <1>0, <1>5 DEF QueueRelease, Release, TypeOK
  <2> QED
    BY <1>5, <2>1, <2>2, SameRing DEF QueueRelease, Release
<1>6. ASSUME NEW c \in Clients, OpenCall(c) PROVE RingInv'
  <2>1. \A j \in Keyboards : Stored(j)' = Stored(j)
    BY <1>0, <1>6 DEF OpenCall, Stored
  <2>2. \A d \in Clients : pc'[d] = "advance" <=> pc[d] = "advance"
    BY <1>0, <1>6 DEF OpenCall, TypeOK
  <2> QED
    BY <1>6, <2>1, <2>2, SameRing DEF OpenCall
<1>7. ASSUME NEW c \in Clients, OpenAcquire(c) PROVE RingInv'
  <2>1. \A j \in Keyboards : Stored(j)' = Stored(j)
    BY <1>0, <1>7 DEF OpenAcquire, Acquire, Stored
  <2>2. \A d \in Clients : pc'[d] = "advance" <=> pc[d] = "advance"
    BY <1>0, <1>7 DEF OpenAcquire, Acquire, TypeOK
  <2> QED
    BY <1>7, <2>1, <2>2, SameRing DEF OpenAcquire, Acquire
<1>9. ASSUME NEW c \in Clients, OpenRelease(c) PROVE RingInv'
  <2>1. \A j \in Keyboards : Stored(j)' = Stored(j)
    BY <1>0, <1>9 DEF OpenRelease, Release, Stored
  <2>2. \A d \in Clients : pc'[d] = "advance" <=> pc[d] = "advance"
    BY <1>0, <1>9 DEF OpenRelease, Release, TypeOK
  <2> QED
    BY <1>9, <2>1, <2>2, SameRing DEF OpenRelease, Release
<1>10. ASSUME NEW c \in Clients, PollCall(c) PROVE RingInv'
  <2>1. \A j \in Keyboards : Stored(j)' = Stored(j)
    BY <1>0, <1>10 DEF PollCall, Stored
  <2>2. \A d \in Clients : pc'[d] = "advance" <=> pc[d] = "advance"
    BY <1>0, <1>10 DEF PollCall, TypeOK
  <2> QED
    BY <1>10, <2>1, <2>2, SameRing DEF PollCall
<1>11. ASSUME NEW c \in Clients, DrainAcquire(c) PROVE RingInv'
  <2>1. \A j \in Keyboards : Stored(j)' = Stored(j)
    BY <1>0, <1>11 DEF DrainAcquire, Acquire, Stored
  <2>2. \A d \in Clients : pc'[d] = "advance" <=> pc[d] = "advance"
    BY <1>0, <1>11 DEF DrainAcquire, Acquire, TypeOK
  <2> QED
    BY <1>11, <2>1, <2>2, SameRing DEF DrainAcquire, Acquire
<1>14. ASSUME NEW c \in Clients, DrainRelease(c) PROVE RingInv'
  <2>1. \A j \in Keyboards : Stored(j)' = Stored(j)
    BY <1>0, <1>14 DEF DrainRelease, Release, Stored
  <2>2. \A d \in Clients : pc'[d] = "advance" <=> pc[d] = "advance"
    BY <1>0, <1>14 DEF DrainRelease, Release, TypeOK
  <2> QED
    BY <1>14, <2>1, <2>2, SameRing DEF DrainRelease, Release
<1>3. ASSUME NEW k \in Keyboards, MakeRoom(k) PROVE RingInv'
  <2>1. \A j \in Keyboards : Stored(j)' = Stored(j)
    BY <1>0, <1>3 DEF MakeRoom, Stored
  <2>2. \A d \in Clients : pc'[d] = "advance" <=> pc[d] = "advance"
    BY <1>0, <1>3 DEF MakeRoom, TypeOK
  <2>3. CASE Succ(KeyboardWriteIndex) = KeyboardReadIndex
    <3>1. KeyboardReadIndex # KeyboardWriteIndex
      <4>1. Succ(KeyboardWriteIndex) =
              IF KeyboardWriteIndex + 1 = RingSize THEN 0 ELSE KeyboardWriteIndex + 1
        BY <1>0, SuccValue DEF TypeOK
      <4> QED
        BY <1>0, <2>3, <4>1 DEF TypeOK, Slots
    <3> QED
      BY <1>3, <2>1, <2>3, <3>1, ForgetHead DEF MakeRoom
  <2>4. CASE Succ(KeyboardWriteIndex) # KeyboardReadIndex
    BY <1>3, <2>1, <2>2, <2>4, SameRing DEF MakeRoom
  <2> QED
    BY <2>3, <2>4
<1>4. ASSUME NEW k \in Keyboards, Store(k) PROVE RingInv'
  BY <1>4, StoreLast
<1>8. ASSUME NEW c \in Clients, Reset(c) PROVE RingInv'
  BY <1>8, ForgetAll
<1>12. ASSUME NEW c \in Clients, CopyOut(c) PROVE RingInv'
  BY <1>12, ReadHead
<1>13. ASSUME NEW c \in Clients, Advance(c) PROVE RingInv'
  <2>1. \A j \in Keyboards : Stored(j)' = Stored(j)
    BY <1>0, <1>13 DEF Advance, Stored
  <2>2. KeyboardReadIndex # KeyboardWriteIndex
    BY <1>13 DEF Advance, IInv, AdvanceInv
  <2> QED
    BY <1>13, <2>1, <2>2, ForgetHead DEF Advance
<1>15. CASE UNCHANGED vars
  BY <1>0, <1>15, SameRing DEF vars, Stored
<1> QED
  BY <1>1, <1>2, <1>3, <1>4, <1>5, <1>6, <1>7, <1>8, <1>9, <1>10, <1>11, <1>12,
     <1>13, <1>14, <1>15 DEF Next, CallbackStep, ClientStep

-----------------------------------------------------------------------------
(* The theorems.                                                           *)

(* The inductive invariant holds in every reachable state.                   *)
THEOREM Invariance == Spec => []IInv
<1>1. IInv /\ [Next]_vars => IInv'
  BY TypeStep, LockStep, LocalsStep, RingStep DEF IInv, RingInv
<1> QED
  BY InitInv, <1>1, PTL DEF Spec

(* Every variable keeps its type: no index ever leaves the ring, whatever    *)
(* the number of keyboards, clients and slots.                               *)
THEOREM TypeCorrect == Spec => []TypeOK
<1>1. IInv => TypeOK
  BY DEF IInv
<1> QED
  BY <1>1, Invariance, PTL

(* No client is ever handed a stale, repeated or reordered record: what is   *)
(* pending of a keyboard is newer than all that was read of it, and in order. *)
THEOREM InOrder == Spec => []PendingInOrder
<1>1. IInv => PendingInOrder
  BY DEF IInv
<1> QED
  BY <1>1, Invariance, PTL

(* Overflow and open only ever take the oldest records of a keyboard.        *)
THEOREM OnlyOldestLost == Spec => []NothingSkipped
<1>1. IInv => NothingSkipped
  BY DEF IInv
<1> QED
  BY <1>1, Invariance, PTL

-----------------------------------------------------------------------------
(* The keyboard ring, seen whenever its lock is free, is the bounded queue of *)
(* InputQueue.                                                               *)

(* At the start no one is inside a critical section.                         *)
LEMMA SinceInit == Init => SinceAcquire
BY DEF Init, SinceAcquire, QueueProgress, DrainProgress, Drained, Actors

(* The holder of the lock excludes everyone else from inside.                *)
LEMMA OneInside ==
    ASSUME IInv, NEW a \in Actors, pc[a] \in Inside
    PROVE  /\ KeyboardLock = a /\ KeyboardLock # Free
           /\ \A b \in Actors : pc[b] \in Inside => b = a
BY RingAssumption DEF IInv, LockInv, Actors

(* Steps that leave the ring, the history and a keyboard's locals alone keep *)
(* what is known of its progress.                                            *)
LEMMA SameProgress ==
    ASSUME IInv, QueueProgress, UNCHANGED shared,
           \A k \in Keyboards : pc'[k] \in {"loop", "store"} =>
              UNCHANGED <<pc[k], before, batch[k], index[k]>>
    PROVE  QueueProgress'
<1>1. Pending' = Pending /\ Contents' = Contents
  BY DEF shared, Pending, Contents, SlotAfter
<1> QED
  BY <1>1 DEF QueueProgress, QueuedAt

(* The loop of Win0DoomQueueKeyboardAtDpc, one record at a time.              *)
LEMMA QueueStep == (IInv /\ SinceAcquire) /\ [Next]_vars => QueueProgress'
<1> SUFFICES ASSUME (IInv /\ SinceAcquire), [Next]_vars PROVE QueueProgress'
  OBVIOUS
<1> USE RingAssumption DEF Actors, Goto, KeyboardPlaces, ClientPlaces,
        shared, callbackVars, clientVars, history
<1>0. /\ IInv /\ QueueProgress
      /\ TypeOK /\ LockInv /\ BatchInv /\ StoreInv
  BY DEF IInv, SinceAcquire
<1>1. ASSUME NEW k \in Keyboards, Callback(k) PROVE QueueProgress'
  <2>1. \A j \in Keyboards : pc'[j] \in {"loop", "store"} =>
            UNCHANGED <<pc[j], before, batch[j], index[j]>>
    BY <1>0, <1>1 DEF Callback, TypeOK, LockInv, Inside
  <2> QED
    BY <1>0, <1>1, <2>1, SameProgress DEF Callback
<1>2. ASSUME NEW k \in Keyboards, QueueAcquire(k) PROVE QueueProgress'
  <2>1. Pending' = Pending /\ Contents' = Contents /\ before' = Contents
    BY <1>2 DEF QueueAcquire, Acquire, Pending, Contents, SlotAfter
  <2>2. Pending \in 0..(RingSize - 1) /\ Len(Contents) = Pending
    BY <1>0, ContentsValue, PendingValue DEF TypeOK
  <2>3. pc'[k] = "loop" /\ index'[k] = 0
    BY <1>0, <1>2 DEF QueueAcquire, Acquire, TypeOK, BatchInv
  <2>4. \A j \in Keyboards : j # k => pc'[j] \notin {"loop", "store"}
    BY <1>0, <1>2 DEF QueueAcquire, Acquire, TypeOK, LockInv, Inside
  <2> QED
    BY <2>1, <2>2, <2>3, <2>4 DEF QueueProgress, QueuedAt
<1>3. ASSUME NEW k \in Keyboards, MakeRoom(k) PROVE QueueProgress'
  <2>1. pc[k] = "loop" /\ pc'[k] = "store" /\ UNCHANGED <<before, batch, index>>
    BY <1>0, <1>3 DEF MakeRoom, TypeOK
  <2>2. \A j \in Keyboards : j # k => pc'[j] \notin {"loop", "store"}
    BY <1>0, <1>3 DEF MakeRoom, TypeOK, LockInv, Inside
  <2>3. /\ Pending = IF Len(before) + index[k] > RingSize - 1
                     THEN RingSize - 1 ELSE Len(before) + index[k]
        /\ \A i \in 1..Pending :
              Contents[i] = QueuedAt(k, ((Len(before) + index[k]) - Pending) + i)
    BY <1>0, <2>1 DEF QueueProgress
  <2>4. Len(before) + index[k] \in Nat /\ \A n : QueuedAt(k, n)' = QueuedAt(k, n)
    BY <1>0, <2>1 DEF TypeOK, QueuedAt
  <2>5. /\ Pending' = IF Len(before) + index[k] > RingSize - 2
                      THEN RingSize - 2 ELSE Len(before) + index[k]
        /\ \A i \in 1..Pending' :
              Contents'[i] = QueuedAt(k, ((Len(before) + index[k]) - Pending') + i)
    <3>1. CASE Succ(KeyboardWriteIndex) = KeyboardReadIndex
      <4>1. Pending = RingSize - 1
        BY <1>0, <3>1, PendingValue DEF TypeOK
      <4>2. /\ Pending' = Pending - 1
            /\ \A i \in 1..Pending' : i + 1 \in 1..Pending /\ Contents'[i] = Contents[i + 1]
        <5>1. KeyboardReadIndex # KeyboardWriteIndex
          BY <1>0, <4>1, PendingValue DEF TypeOK
        <5> QED
          BY <1>0, <1>3, <3>1, <5>1, DropHead DEF MakeRoom, TypeOK
      <4>3. \A i \in 1..Pending' :
              ((Len(before) + index[k]) - Pending) + (i + 1)
                = ((Len(before) + index[k]) - Pending') + i
        BY <2>4, <4>1, <4>2
      <4>4. Pending' = IF Len(before) + index[k] > RingSize - 2
                       THEN RingSize - 2 ELSE Len(before) + index[k]
        BY <2>3, <2>4, <4>1, <4>2
      <4>5. ASSUME NEW i \in 1..Pending'
            PROVE  Contents'[i] = QueuedAt(k, ((Len(before) + index[k]) - Pending') + i)
        <5>1. i + 1 \in 1..Pending /\ Contents'[i] = Contents[i + 1]
          BY <4>2
        <5>2. Contents[i + 1] = QueuedAt(k, ((Len(before) + index[k]) - Pending) + (i + 1))
          BY <2>3, <5>1
        <5> QED
          BY <4>3, <5>1, <5>2
      <4> QED
        BY <4>4, <4>5
    <3>2. CASE Succ(KeyboardWriteIndex) # KeyboardReadIndex
      <4>1. Pending # RingSize - 1
        BY <1>0, <3>2, PendingValue DEF TypeOK
      <4>2. Pending' = Pending /\ Contents' = Contents
        BY <1>3, <3>2 DEF MakeRoom, Pending, Contents, SlotAfter
      <4>3. Len(before) + index[k] <= RingSize - 2
        BY <2>3, <2>4, <4>1
      <4> QED
        BY <2>3, <2>4, <4>2, <4>3
    <3> QED
      BY <3>1, <3>2
  <2> QED
    BY <2>1, <2>2, <2>4, <2>5 DEF QueueProgress
<1>4. ASSUME NEW k \in Keyboards, Store(k) PROVE QueueProgress'
  <2>1. pc[k] = "store" /\ pc'[k] = "loop" /\ UNCHANGED <<before, batch>>
        /\ index'[k] = index[k] + 1
    BY <1>0, <1>4 DEF Store, TypeOK
  <2>2. \A j \in Keyboards : j # k => pc'[j] \notin {"loop", "store"}
    BY <1>0, <1>4 DEF Store, TypeOK, LockInv, Inside
  <2>3. /\ Pending = IF Len(before) + index[k] > RingSize - 2
                     THEN RingSize - 2 ELSE Len(before) + index[k]
        /\ \A i \in 1..Pending :
              Contents[i] = QueuedAt(k, ((Len(before) + index[k]) - Pending) + i)
    BY <1>0, <2>1 DEF QueueProgress
  <2>4. Len(before) \in Nat /\ index[k] \in Nat /\ \A n : QueuedAt(k, n)' = QueuedAt(k, n)
    BY <1>0, <2>1 DEF TypeOK, QueuedAt
  <2>5. /\ Pending' = Pending + 1
        /\ Contents'[Pending + 1] = batch[k][index[k] + 1]
        /\ \A i \in 1..Pending : Contents'[i] = Contents[i]
    BY <1>0, <1>4, AddLast DEF Store, TypeOK, StoreInv
  <2>6. batch[k][index[k] + 1] = QueuedAt(k, Len(before) + (index[k] + 1))
    BY <2>4 DEF QueuedAt
  <2>7. Pending \in Nat /\ Pending' = IF Len(before) + (index[k] + 1) > RingSize - 1
                     THEN RingSize - 1 ELSE Len(before) + (index[k] + 1)
    BY <2>3, <2>4, <2>5
  <2>8. ASSUME NEW i \in 1..Pending'
        PROVE  Contents'[i] = QueuedAt(k, ((Len(before) + (index[k] + 1)) - Pending') + i)
    <3>1. CASE i = Pending + 1
      <4>1. ((Len(before) + (index[k] + 1)) - Pending') + i = Len(before) + (index[k] + 1)
        BY <2>4, <2>5, <2>7, <3>1
      <4> QED
        BY <2>5, <2>6, <3>1, <4>1
    <3>2. CASE i \in 1..Pending
      <4>1. ((Len(before) + (index[k] + 1)) - Pending') + i
              = ((Len(before) + index[k]) - Pending) + i
        BY <2>4, <2>5, <2>7, <3>2
      <4> QED
        BY <2>3, <2>5, <3>2, <4>1
    <3> QED
      BY <2>5, <2>7, <3>1, <3>2
  <2> QED
    BY <2>1, <2>2, <2>4, <2>7, <2>8 DEF QueueProgress
<1>5. ASSUME NEW k \in Keyboards, QueueRelease(k) PROVE QueueProgress'
  <2>1. \A j \in Keyboards : pc'[j] \in {"loop", "store"} =>
            UNCHANGED <<pc[j], before, batch[j], index[j]>>
    BY <1>0, <1>5 DEF QueueRelease, Release, TypeOK, LockInv, Inside
  <2> QED
    BY <1>0, <1>5, <2>1, SameProgress DEF QueueRelease, Release
<1>6. ASSUME NEW c \in Clients, OpenCall(c) PROVE QueueProgress'
  <2>1. \A j \in Keyboards : pc'[j] \in {"loop", "store"} =>
            UNCHANGED <<pc[j], before, batch[j], index[j]>>
    BY <1>0, <1>6 DEF OpenCall, TypeOK, LockInv, Inside
  <2> QED
    BY <1>0, <1>6, <2>1, SameProgress DEF OpenCall
<1>7. ASSUME NEW c \in Clients, OpenAcquire(c) PROVE QueueProgress'
  <2>1. \A j \in Keyboards : pc'[j] \in {"loop", "store"} =>
            UNCHANGED <<pc[j], before, batch[j], index[j]>>
    BY <1>0, <1>7 DEF OpenAcquire, Acquire, TypeOK, LockInv, Inside
  <2> QED
    BY <1>0, <1>7, <2>1, SameProgress DEF OpenAcquire, Acquire
<1>8. ASSUME NEW c \in Clients, Reset(c) PROVE QueueProgress'
  <2>1. \A j \in Keyboards : pc'[j] \notin {"loop", "store"}
    BY <1>0, <1>8 DEF Reset, TypeOK, LockInv, Inside
  <2> QED
    BY <2>1 DEF QueueProgress
<1>9. ASSUME NEW c \in Clients, OpenRelease(c) PROVE QueueProgress'
  <2>1. \A j \in Keyboards : pc'[j] \in {"loop", "store"} =>
            UNCHANGED <<pc[j], before, batch[j], index[j]>>
    BY <1>0, <1>9 DEF OpenRelease, Release, TypeOK, LockInv, Inside
  <2> QED
    BY <1>0, <1>9, <2>1, SameProgress DEF OpenRelease, Release
<1>10. ASSUME NEW c \in Clients, PollCall(c) PROVE QueueProgress'
  <2>1. \A j \in Keyboards : pc'[j] \in {"loop", "store"} =>
            UNCHANGED <<pc[j], before, batch[j], index[j]>>
    BY <1>0, <1>10 DEF PollCall, TypeOK, LockInv, Inside
  <2> QED
    BY <1>0, <1>10, <2>1, SameProgress DEF PollCall
<1>11. ASSUME NEW c \in Clients, DrainAcquire(c) PROVE QueueProgress'
  <2>1. \A j \in Keyboards : pc'[j] \in {"loop", "store"} =>
            UNCHANGED <<pc[j], before, batch[j], index[j]>>
    BY <1>0, <1>11 DEF DrainAcquire, Acquire, TypeOK, LockInv, Inside
  <2> QED
    BY <1>0, <1>11, <2>1, SameProgress DEF DrainAcquire, Acquire
<1>12. ASSUME NEW c \in Clients, CopyOut(c) PROVE QueueProgress'
  <2>1. \A j \in Keyboards : pc'[j] \in {"loop", "store"} =>
            UNCHANGED <<pc[j], before, batch[j], index[j]>>
    BY <1>0, <1>12 DEF CopyOut, MoreToCopy, TypeOK, LockInv, Inside
  <2> QED
    BY <1>0, <1>12, <2>1, SameProgress DEF CopyOut, MoreToCopy
<1>13. ASSUME NEW c \in Clients, Advance(c) PROVE QueueProgress'
  <2>1. \A j \in Keyboards : pc'[j] \notin {"loop", "store"}
    BY <1>0, <1>13 DEF Advance, TypeOK, LockInv, Inside
  <2> QED
    BY <2>1 DEF QueueProgress
<1>14. ASSUME NEW c \in Clients, DrainRelease(c) PROVE QueueProgress'
  <2>1. \A j \in Keyboards : pc'[j] \in {"loop", "store"} =>
            UNCHANGED <<pc[j], before, batch[j], index[j]>>
    BY <1>0, <1>14 DEF DrainRelease, Release, TypeOK, LockInv, Inside
  <2> QED
    BY <1>0, <1>14, <2>1, SameProgress DEF DrainRelease, Release
<1>15. CASE UNCHANGED vars
  BY <1>0, <1>15, SameProgress DEF vars
<1> QED
  BY <1>1, <1>2, <1>3, <1>4, <1>5, <1>6, <1>7, <1>8, <1>9, <1>10, <1>11, <1>12,
     <1>13, <1>14, <1>15 DEF Next, CallbackStep, ClientStep

(* A client's progress through the ring stands while nobody touches it, and  *)
(* that of a client outside the critical section whatever happens inside.    *)
LEMMA SameDrain ==
    ASSUME NEW c \in Clients, Drained(c),
           pc'[c] = pc[c], capacity'[c] = capacity[c], output'[c] = output[c],
           \/ pc[c] \notin {"created", "test", "advance"}
           \/ UNCHANGED shared /\ (pc[c] # "created" => before' = before)
    PROVE  Drained(c)'
<1>1. CASE pc[c] \notin {"created", "test", "advance"}
  BY <1>1 DEF Drained
<1>2. CASE UNCHANGED shared /\ (pc[c] # "created" => before' = before)
  <2>1. Pending' = Pending /\ Contents' = Contents
    BY <1>2 DEF shared, Pending, Contents, SlotAfter
  <2> QED
    BY <1>2, <2>1 DEF Drained
<1> QED
  BY <1>1, <1>2

(* The loop of Win0DoomDrainKeyboard, one record at a time.                  *)
LEMMA DrainStep == (IInv /\ SinceAcquire) /\ [Next]_vars => DrainProgress'
<1> SUFFICES ASSUME (IInv /\ SinceAcquire), [Next]_vars PROVE DrainProgress'
  OBVIOUS
<1> USE RingAssumption DEF Actors, Goto, KeyboardPlaces, ClientPlaces,
        shared, callbackVars, clientVars, history
<1>0. /\ IInv /\ DrainProgress
      /\ TypeOK /\ LockInv
  BY DEF IInv, SinceAcquire
<1>1. ASSUME NEW k \in Keyboards, Callback(k) PROVE DrainProgress'
  <2> SUFFICES ASSUME NEW c \in Clients PROVE Drained(c)'
    BY DEF DrainProgress
  <2>1. pc'[c] = pc[c] /\ capacity'[c] = capacity[c] /\ output'[c] = output[c]
    BY <1>0, <1>1 DEF Callback, TypeOK
  <2>2. \/ pc[c] \notin {"created", "test", "advance"}
        \/ UNCHANGED shared /\ (pc[c] # "created" => before' = before)
    BY <1>0, <1>1 DEF Callback, TypeOK, LockInv, Inside
  <2> QED
    BY <1>0, <2>1, <2>2, SameDrain DEF DrainProgress
<1>2. ASSUME NEW k \in Keyboards, QueueAcquire(k) PROVE DrainProgress'
  <2> SUFFICES ASSUME NEW c \in Clients PROVE Drained(c)'
    BY DEF DrainProgress
  <2>1. pc'[c] = pc[c] /\ capacity'[c] = capacity[c] /\ output'[c] = output[c]
    BY <1>0, <1>2 DEF QueueAcquire, Acquire, TypeOK
  <2>2. \/ pc[c] \notin {"created", "test", "advance"}
        \/ UNCHANGED shared /\ (pc[c] # "created" => before' = before)
    BY <1>0, <1>2 DEF QueueAcquire, Acquire, TypeOK, LockInv, Inside
  <2> QED
    BY <1>0, <2>1, <2>2, SameDrain DEF DrainProgress
<1>3. ASSUME NEW k \in Keyboards, MakeRoom(k) PROVE DrainProgress'
  <2> SUFFICES ASSUME NEW c \in Clients PROVE Drained(c)'
    BY DEF DrainProgress
  <2>1. pc'[c] = pc[c] /\ capacity'[c] = capacity[c] /\ output'[c] = output[c]
    BY <1>0, <1>3 DEF MakeRoom, TypeOK
  <2>2. \/ pc[c] \notin {"created", "test", "advance"}
        \/ UNCHANGED shared /\ (pc[c] # "created" => before' = before)
    BY <1>0, <1>3 DEF MakeRoom, TypeOK, LockInv, Inside
  <2> QED
    BY <1>0, <2>1, <2>2, SameDrain DEF DrainProgress
<1>4. ASSUME NEW k \in Keyboards, Store(k) PROVE DrainProgress'
  <2> SUFFICES ASSUME NEW c \in Clients PROVE Drained(c)'
    BY DEF DrainProgress
  <2>1. pc'[c] = pc[c] /\ capacity'[c] = capacity[c] /\ output'[c] = output[c]
    BY <1>0, <1>4 DEF Store, TypeOK
  <2>2. \/ pc[c] \notin {"created", "test", "advance"}
        \/ UNCHANGED shared /\ (pc[c] # "created" => before' = before)
    BY <1>0, <1>4 DEF Store, TypeOK, LockInv, Inside
  <2> QED
    BY <1>0, <2>1, <2>2, SameDrain DEF DrainProgress
<1>5. ASSUME NEW k \in Keyboards, QueueRelease(k) PROVE DrainProgress'
  <2> SUFFICES ASSUME NEW c \in Clients PROVE Drained(c)'
    BY DEF DrainProgress
  <2>1. pc'[c] = pc[c] /\ capacity'[c] = capacity[c] /\ output'[c] = output[c]
    BY <1>0, <1>5 DEF QueueRelease, Release, TypeOK
  <2>2. \/ pc[c] \notin {"created", "test", "advance"}
        \/ UNCHANGED shared /\ (pc[c] # "created" => before' = before)
    BY <1>0, <1>5 DEF QueueRelease, Release, TypeOK, LockInv, Inside
  <2> QED
    BY <1>0, <2>1, <2>2, SameDrain DEF DrainProgress
<1>6. ASSUME NEW c \in Clients, OpenCall(c) PROVE DrainProgress'
  <2>1. /\ pc'[c] \notin {"drain", "test", "advance", "created"}
        /\ capacity'[c] = 0 /\ output'[c] = <<>>
    BY <1>0, <1>6 DEF OpenCall, TypeOK, DrainProgress, Drained
  <2>others. ASSUME NEW e \in Clients, e # c PROVE Drained(e)'
    <3>1. pc'[e] = pc[e] /\ capacity'[e] = capacity[e] /\ output'[e] = output[e]
      BY <1>0, <1>6, <2>others DEF OpenCall, TypeOK
    <3>2. \/ pc[e] \notin {"created", "test", "advance"}
          \/ UNCHANGED shared /\ (pc[e] # "created" => before' = before)
      BY <1>0, <1>6, <2>others DEF OpenCall, TypeOK, LockInv, Inside
    <3> QED
      BY <1>0, <3>1, <3>2, SameDrain DEF DrainProgress
  <2>own. Drained(c)'
    BY <1>0, <2>1 DEF Drained, DrainProgress
  <2> QED
    BY <2>others, <2>own DEF DrainProgress
<1>7. ASSUME NEW c \in Clients, OpenAcquire(c) PROVE DrainProgress'
  <2>1. /\ pc'[c] \notin {"drain", "test", "advance", "created"}
        /\ capacity'[c] = 0 /\ output'[c] = <<>>
    BY <1>0, <1>7 DEF OpenAcquire, Acquire, TypeOK, DrainProgress, Drained
  <2>others. ASSUME NEW e \in Clients, e # c PROVE Drained(e)'
    <3>1. pc'[e] = pc[e] /\ capacity'[e] = capacity[e] /\ output'[e] = output[e]
      BY <1>0, <1>7, <2>others DEF OpenAcquire, Acquire, TypeOK
    <3>2. \/ pc[e] \notin {"created", "test", "advance"}
          \/ UNCHANGED shared /\ (pc[e] # "created" => before' = before)
      BY <1>0, <1>7, <2>others DEF OpenAcquire, Acquire, TypeOK, LockInv, Inside
    <3> QED
      BY <1>0, <3>1, <3>2, SameDrain DEF DrainProgress
  <2>own. Drained(c)'
    BY <1>0, <2>1 DEF Drained, DrainProgress
  <2> QED
    BY <2>others, <2>own DEF DrainProgress
<1>8. ASSUME NEW c \in Clients, Reset(c) PROVE DrainProgress'
  <2>1. Pending' = 0
    BY <1>0, <1>8 DEF Reset, Pending, TypeOK, Slots
  <2>2. pc'[c] = "created" /\ capacity'[c] = 0 /\ output'[c] = <<>>
    BY <1>0, <1>8 DEF Reset, TypeOK, DrainProgress, Drained
  <2>others. ASSUME NEW e \in Clients, e # c PROVE Drained(e)'
    <3>1. pc'[e] = pc[e] /\ capacity'[e] = capacity[e] /\ output'[e] = output[e]
      BY <1>0, <1>8, <2>others DEF Reset, TypeOK
    <3>2. \/ pc[e] \notin {"created", "test", "advance"}
          \/ UNCHANGED shared /\ (pc[e] # "created" => before' = before)
      BY <1>0, <1>8, <2>others DEF Reset, TypeOK, LockInv, Inside
    <3> QED
      BY <1>0, <3>1, <3>2, SameDrain DEF DrainProgress
  <2>own. Drained(c)'
    BY <1>0, <2>1, <2>2 DEF Drained, DrainProgress
  <2> QED
    BY <2>others, <2>own DEF DrainProgress
<1>9. ASSUME NEW c \in Clients, OpenRelease(c) PROVE DrainProgress'
  <2>1. /\ pc'[c] \notin {"drain", "test", "advance", "created"}
        /\ capacity'[c] = 0 /\ output'[c] = <<>>
    BY <1>0, <1>9 DEF OpenRelease, Release, TypeOK, DrainProgress, Drained
  <2>others. ASSUME NEW e \in Clients, e # c PROVE Drained(e)'
    <3>1. pc'[e] = pc[e] /\ capacity'[e] = capacity[e] /\ output'[e] = output[e]
      BY <1>0, <1>9, <2>others DEF OpenRelease, Release, TypeOK
    <3>2. \/ pc[e] \notin {"created", "test", "advance"}
          \/ UNCHANGED shared /\ (pc[e] # "created" => before' = before)
      BY <1>0, <1>9, <2>others DEF OpenRelease, Release, TypeOK, LockInv, Inside
    <3> QED
      BY <1>0, <3>1, <3>2, SameDrain DEF DrainProgress
  <2>own. Drained(c)'
    BY <1>0, <2>1 DEF Drained, DrainProgress
  <2> QED
    BY <2>others, <2>own DEF DrainProgress
<1>10. ASSUME NEW c \in Clients, PollCall(c) PROVE DrainProgress'
  <2>1. PICK n \in 0..MaxOutput :
          IF n = 0
          THEN /\ pc[c] = "idle"
               /\ result' = [result EXCEPT ![c] = <<>>]
               /\ UNCHANGED <<pc, capacity, output>>
          ELSE /\ Goto(c, "idle", "drain")
               /\ capacity' = [capacity EXCEPT ![c] = n]
               /\ UNCHANGED <<output, result>>
    BY <1>10 DEF PollCall
  <2>2. UNCHANGED shared /\ before' = before
    BY <1>10 DEF PollCall
  <2>3. CASE n = 0
    <3>1. UNCHANGED <<pc, capacity, output>>
      BY <2>1, <2>3
    <3> QED
      BY <1>0, <2>2, <3>1, SameDrain DEF DrainProgress
  <2>4. CASE n # 0
    <3>1. /\ pc[c] = "idle"
          /\ pc' = [pc EXCEPT ![c] = "drain"]
          /\ capacity' = [capacity EXCEPT ![c] = n]
          /\ output' = output
      BY <2>1, <2>4
    <3>2. ASSUME NEW e \in Clients, e # c PROVE Drained(e)'
      BY <1>0, <2>2, <3>1, <3>2, SameDrain DEF DrainProgress, TypeOK
    <3>3. Drained(c)'
      <4>1. pc'[c] = "drain" /\ capacity'[c] # 0 /\ output'[c] = <<>>
        BY <1>0, <2>4, <3>1 DEF DrainProgress, Drained, TypeOK
      <4> QED
        BY <4>1 DEF Drained
    <3> QED
      BY <3>2, <3>3 DEF DrainProgress
  <2> QED
    BY <2>3, <2>4
<1>11. ASSUME NEW c \in Clients, DrainAcquire(c) PROVE DrainProgress'
  <2>1. Pending' = Pending /\ Contents' = Contents /\ before' = Contents
    BY <1>11 DEF DrainAcquire, Acquire, Pending, Contents, SlotAfter
  <2>2. Pending \in Nat /\ Len(Contents) = Pending
    BY <1>0, ContentsValue
  <2>3. pc[c] = "drain" /\ pc'[c] = "test" /\ UNCHANGED <<output, capacity>>
    BY <1>0, <1>11 DEF DrainAcquire, Acquire, TypeOK
  <2>4. output'[c] = <<>> /\ capacity'[c] # 0
    BY <1>0, <2>3 DEF DrainProgress, Drained
  <2>5. capacity'[c] \in Nat /\ Len(output'[c]) = 0
    BY <1>0, <2>3, <2>4 DEF TypeOK
  <2>others. ASSUME NEW e \in Clients, e # c PROVE Drained(e)'
    <3>1. pc'[e] = pc[e] /\ capacity'[e] = capacity[e] /\ output'[e] = output[e]
      BY <1>0, <1>11, <2>others DEF DrainAcquire, Acquire, TypeOK
    <3>2. \/ pc[e] \notin {"created", "test", "advance"}
          \/ UNCHANGED shared /\ (pc[e] # "created" => before' = before)
      BY <1>0, <1>11, <2>others DEF DrainAcquire, Acquire, TypeOK, LockInv, Inside
    <3> QED
      BY <1>0, <3>1, <3>2, SameDrain DEF DrainProgress
  <2>own. Drained(c)'
    BY <1>0, <2>1, <2>2, <2>3, <2>4, <2>5 DEF Drained, DrainProgress
  <2> QED
    BY <2>others, <2>own DEF DrainProgress
<1>12. ASSUME NEW c \in Clients, CopyOut(c) PROVE DrainProgress'
  <2>1. Pending' = Pending /\ Contents' = Contents /\ before' = before
    BY <1>12 DEF CopyOut, Pending, Contents, SlotAfter
  <2>2. /\ pc[c] = "test" /\ pc'[c] = "advance" /\ capacity' = capacity
        /\ Len(output[c]) + 1 <= capacity[c]
        /\ output' = [output EXCEPT ![c] = Append(@, Contents[1])]
        /\ Pending > 0 /\ Pending \in Nat
    BY <1>0, <1>12, HeadValue, ContentsValue DEF CopyOut, MoreToCopy, TypeOK
  <2>3. /\ Len(output[c]) \in Nat
        /\ Len(output'[c]) = Len(output[c]) + 1
        /\ output'[c][Len(output[c]) + 1] = Contents[1]
        /\ \A i \in 1..Len(output[c]) : output'[c][i] = output[c][i]
    BY <1>0, <2>2 DEF TypeOK
  <2>4. Drained(c)
    BY <1>0 DEF DrainProgress
  <2>5. /\ Len(before) = (Len(output[c]) + Pending) - 0
        /\ \A i \in 1..Len(output[c]) : before[i] = output[c][i]
        /\ \A i \in 1..(Pending - 0) : before[Len(output[c]) + i] = Contents[0 + i]
    BY <2>2, <2>4 DEF Drained
  <2>6. before[Len(output[c]) + 1] = Contents[1]
    <3>1. 1 \in 1..(Pending - 0)
      BY <2>2
    <3> QED
      BY <2>5, <3>1
  <2>7. \A i \in 1..Len(output'[c]) : before[i] = output'[c][i]
    BY <2>2, <2>3, <2>5, <2>6
  <2>8. \A i \in 1..(Pending - 1) : before[Len(output'[c]) + i] = Contents[1 + i]
    <3> SUFFICES ASSUME NEW i \in 1..(Pending - 1)
                 PROVE  before[Len(output'[c]) + i] = Contents[1 + i]
      OBVIOUS
    <3>1. 1 + i \in 1..(Pending - 0) /\ 0 + (1 + i) = 1 + i
      BY <2>2
    <3> DEFINE l == Len(output[c])
               m == Len(output'[c])
    <3>2. l \in Nat /\ m = l + 1 /\ i \in Int
      BY <2>3
    <3> HIDE DEF l, m
    <3>copied. m + i = l + (1 + i)
      BY <3>2
    <3>3. Len(output'[c]) + i = Len(output[c]) + (1 + i)
      BY <3>copied DEF l, m
    <3> QED
      BY <2>5, <3>1, <3>3
  <2>9. Len(before) = (Len(output'[c]) + Pending) - 1 /\ Len(output'[c]) <= capacity'[c]
    BY <2>2, <2>3, <2>5
  <2>10. capacity'[c] # 0
    BY <2>2, <2>4 DEF Drained
  <2>others. ASSUME NEW e \in Clients, e # c PROVE Drained(e)'
    <3>1. pc'[e] = pc[e] /\ capacity'[e] = capacity[e] /\ output'[e] = output[e]
      BY <1>0, <1>12, <2>others DEF CopyOut, MoreToCopy, TypeOK
    <3>2. \/ pc[e] \notin {"created", "test", "advance"}
          \/ UNCHANGED shared /\ (pc[e] # "created" => before' = before)
      BY <1>0, <1>12, <2>others DEF CopyOut, MoreToCopy, TypeOK, LockInv, Inside
    <3> QED
      BY <1>0, <3>1, <3>2, SameDrain DEF DrainProgress
  <2>own. Drained(c)'
    BY <2>1, <2>2, <2>7, <2>8, <2>9, <2>10 DEF Drained, DrainProgress
  <2> QED
    BY <2>others, <2>own DEF DrainProgress
<1>13. ASSUME NEW c \in Clients, Advance(c) PROVE DrainProgress'
  <2>1. /\ pc[c] = "advance" /\ pc'[c] = "test"
        /\ UNCHANGED <<capacity, output, before>>
    BY <1>0, <1>13 DEF Advance, TypeOK
  <2>2. /\ Pending > 0 /\ Pending \in Nat /\ Pending' = Pending - 1
        /\ \A i \in 1..Pending' : i + 1 \in 1..Pending /\ Contents'[i] = Contents[i + 1]
    <3>1. KeyboardReadIndex # KeyboardWriteIndex
      BY <1>0, <2>1 DEF IInv, AdvanceInv
    <3> QED
      BY <1>0, <1>13, <3>1, DropHead, ContentsValue DEF Advance, TypeOK
  <2>3. /\ Len(output[c]) \in Nat
        /\ capacity[c] # 0
        /\ Len(output[c]) <= capacity[c]
        /\ Len(before) = (Len(output[c]) + Pending) - 1
        /\ \A i \in 1..Len(output[c]) : before[i] = output[c][i]
        /\ \A i \in 1..(Pending - 1) : before[Len(output[c]) + i] = Contents[1 + i]
    BY <1>0, <2>1 DEF DrainProgress, Drained, TypeOK
  <2>4. \A i \in 1..(Pending' - 0) : before[Len(output[c]) + i] = Contents'[0 + i]
    BY <2>2, <2>3
  <2>5. Len(before) = (Len(output[c]) + Pending') - 0
    BY <2>2, <2>3
  <2>others. ASSUME NEW e \in Clients, e # c PROVE Drained(e)'
    <3>1. pc'[e] = pc[e] /\ capacity'[e] = capacity[e] /\ output'[e] = output[e]
      BY <1>0, <1>13, <2>others DEF Advance, TypeOK
    <3>2. \/ pc[e] \notin {"created", "test", "advance"}
          \/ UNCHANGED shared /\ (pc[e] # "created" => before' = before)
      BY <1>0, <1>13, <2>others DEF Advance, TypeOK, LockInv, Inside
    <3> QED
      BY <1>0, <3>1, <3>2, SameDrain DEF DrainProgress
  <2>own. Drained(c)'
    BY <2>1, <2>3, <2>4, <2>5 DEF Drained, DrainProgress
  <2> QED
    BY <2>others, <2>own DEF DrainProgress
<1>14. ASSUME NEW c \in Clients, DrainRelease(c) PROVE DrainProgress'
  <2>1. /\ pc'[c] \notin {"drain", "test", "advance", "created"}
        /\ capacity'[c] = 0 /\ output'[c] = <<>>
    BY <1>0, <1>14 DEF DrainRelease, Release, TypeOK, DrainProgress, Drained
  <2>others. ASSUME NEW e \in Clients, e # c PROVE Drained(e)'
    <3>1. pc'[e] = pc[e] /\ capacity'[e] = capacity[e] /\ output'[e] = output[e]
      BY <1>0, <1>14, <2>others DEF DrainRelease, Release, TypeOK
    <3>2. \/ pc[e] \notin {"created", "test", "advance"}
          \/ UNCHANGED shared /\ (pc[e] # "created" => before' = before)
      BY <1>0, <1>14, <2>others DEF DrainRelease, Release, TypeOK, LockInv, Inside
    <3> QED
      BY <1>0, <3>1, <3>2, SameDrain DEF DrainProgress
  <2>own. Drained(c)'
    BY <1>0, <2>1 DEF Drained, DrainProgress
  <2> QED
    BY <2>others, <2>own DEF DrainProgress
<1>15. CASE UNCHANGED vars
  BY <1>0, <1>15, SameDrain DEF vars, DrainProgress
<1> QED
  BY <1>1, <1>2, <1>3, <1>4, <1>5, <1>6, <1>7, <1>8, <1>9, <1>10, <1>11, <1>12,
     <1>13, <1>14, <1>15 DEF Next, CallbackStep, ClientStep

-----------------------------------------------------------------------------
(* The refinement.                                                         *)

(* An actor that takes the lock, or works inside, does not change what waits. *)
LEMMA WaitingInside ==
    ASSUME IInv, NEW a \in Actors, pc[a] \in Inside,
           KeyboardLock' = KeyboardLock, before' = before
    PROVE  Waiting' = Waiting
BY OneInside DEF Waiting

(* Taking the lock makes a note of what waits and changes nothing.             *)
LEMMA WaitingAcquire ==
    ASSUME NEW a \in Actors, NEW from, NEW to, Acquire(a, from, to)
    PROVE  Waiting' = Waiting
BY RingAssumption DEF Acquire, Waiting, Actors

(* Nor does what happens away from the ring change what waits.                 *)
LEMMA WaitingOutside ==
    ASSUME UNCHANGED <<shared, KeyboardLock, before>>
    PROVE  Waiting' = Waiting
BY DEF Waiting, shared, Pending, Contents, SlotAfter

(* The end of a callback puts its whole batch behind what was waiting.       *)
LEMMA EnqueueStep ==
    ASSUME IInv, SinceAcquire, NEW k \in Keyboards, QueueRelease(k)
    PROVE  Queue!Enqueue
<1> USE RingAssumption DEF Actors, Goto
<1>1. /\ pc[k] = "loop" /\ index[k] = Len(batch[k])
      /\ KeyboardLock' = Free
      /\ UNCHANGED <<shared, capacity, result>>
  BY DEF QueueRelease, Release, clientVars
<1>2. Waiting = before
  BY <1>1, OneInside DEF Waiting, Inside
<1>3. Waiting' = Contents
  BY <1>1 DEF Waiting, shared, Pending, Contents, SlotAfter
<1>4. before \in Seq(Records) /\ batch[k] \in Seq(Records) /\ Len(batch[k]) \in 0..MaxBatch
  BY DEF IInv, TypeOK, BatchInv
<1>5. batch[k] \in Queue!Batches
  <2>1. batch[k] \in [1..Len(batch[k]) -> Records]
    BY <1>4
  <2> QED
    BY <1>4, <2>1 DEF Queue!Batches
<1>6. Contents = Queue!Newest(before \o batch[k])
  <2> DEFINE all == before \o batch[k]
             n == Len(before) + Len(batch[k])
  <2>1. /\ all \in Seq(Records) /\ Len(all) = n /\ n \in Nat
        /\ \A i \in 1..n : all[i] = QueuedAt(k, i)
    BY <1>4 DEF QueuedAt
  <2>2. /\ Pending = IF n > RingSize - 1 THEN RingSize - 1 ELSE n
        /\ \A i \in 1..Pending : Contents[i] = QueuedAt(k, (n - Pending) + i)
    BY <1>1 DEF SinceAcquire, QueueProgress
  <2> DEFINE excess == IF Len(all) > RingSize - 1 THEN Len(all) - (RingSize - 1) ELSE 0
  <2>3. Len(all) - excess = Pending /\ excess = n - Pending
        /\ Pending \in Nat /\ excess \in Nat
    BY <2>1, <2>2
  <2>4. ASSUME NEW i \in 1..Pending PROVE Contents[i] = all[i + excess]
    <3>1. (n - Pending) + i \in 1..n /\ (n - Pending) + i = i + excess
      <4>1. n \in Nat /\ Pending \in Nat /\ excess \in Nat /\ excess = n - Pending
        BY <2>1, <2>3
      <4> HIDE DEF n, excess
      <4> QED
        BY <4>1
    <3> QED
      BY <2>1, <2>2, <3>1
  <2>5. Contents = [i \in 1..Pending |-> Contents[i]]
    BY DEF Contents
  <2>6. Contents = [i \in 1..(Len(all) - excess) |-> all[i + excess]]
    BY <2>3, <2>4, <2>5
  <2> QED
    BY <2>6 DEF Queue!Newest
<1> QED
  BY <1>1, <1>2, <1>3, <1>5, <1>6 DEF Queue!Enqueue, Queue!EnqueueBatch

(* The end of a drain hands over the oldest records that were waiting.       *)
LEMMA AnswerStep ==
    ASSUME IInv, SinceAcquire, NEW c \in Clients, DrainRelease(c)
    PROVE  Queue!Answer(c)
<1> USE RingAssumption DEF Actors, Goto
<1>1. /\ pc[c] = "test"
      /\ KeyboardLock' = Free
      /\ ~MoreToCopy(c)
      /\ UNCHANGED shared
      /\ result' = [result EXCEPT ![c] = output[c]]
      /\ capacity' = [capacity EXCEPT ![c] = 0]
  BY DEF DrainRelease, Release
<1>2. Waiting = before
  BY <1>1, OneInside DEF Waiting, Inside
<1>3. Waiting' = Contents
  BY <1>1 DEF Waiting, shared, Pending, Contents, SlotAfter
<1>4. /\ capacity[c] # 0
      /\ Len(output[c]) <= capacity[c]
      /\ Len(before) = (Len(output[c]) + Pending) - 0
      /\ \A i \in 1..Len(output[c]) : before[i] = output[c][i]
      /\ \A i \in 1..(Pending - 0) : before[Len(output[c]) + i] = Contents[0 + i]
  BY <1>1 DEF SinceAcquire, DrainProgress, Drained
<1>5. /\ before \in Seq(Records) /\ output[c] \in Seq(Records)
      /\ capacity[c] \in Nat /\ Pending \in Nat
  BY ContentsValue DEF IInv, TypeOK
<1>6. Pending = 0 \/ capacity[c] = Len(output[c])
  <2>1. KeyboardReadIndex = KeyboardWriteIndex \/ ~(Len(output[c]) + 1 <= capacity[c])
    BY <1>1 DEF MoreToCopy
  <2>2. KeyboardReadIndex = KeyboardWriteIndex => Pending = 0
    BY PendingValue DEF IInv, TypeOK
  <2> QED
    BY <1>4, <1>5, <2>1, <2>2
<1> DEFINE n == IF capacity[c] < Len(before) THEN capacity[c] ELSE Len(before)
<1>7. n = Len(output[c]) /\ Len(before) - n = Pending
  BY <1>4, <1>5, <1>6
<1>8. output[c] = [i \in 1..n |-> before[i]]
  <2>1. output[c] = [i \in 1..Len(output[c]) |-> output[c][i]]
    BY <1>5
  <2>2. \A i \in 1..Len(output[c]) : before[i] = output[c][i]
    BY <1>4
  <2> QED
    BY <1>7, <2>1, <2>2
<1>9. Contents = Queue!After(before, n)
  <2>1. \A i \in 1..Pending : Contents[i] = before[i + n]
    BY <1>4, <1>5, <1>7
  <2>2. Contents = [i \in 1..Pending |-> Contents[i]]
    BY DEF Contents
  <2> QED
    BY <1>7, <2>1, <2>2 DEF Queue!After
<1> QED
  BY <1>1, <1>2, <1>3, <1>4, <1>8, <1>9 DEF Queue!Answer

(* Every step of the ring is an operation of the queue, or none.             *)
LEMMA RefinementStep ==
    ASSUME IInv, SinceAcquire, [Next]_vars
    PROVE  [Queue!Next]_(Queue!vars)
<1> USE RingAssumption DEF Actors, Goto, shared, callbackVars, clientVars, history
<1>0. TypeOK
  BY DEF IInv
<1>1. ASSUME NEW k \in Keyboards, Callback(k) PROVE [Queue!Next]_(Queue!vars)
  <2>1. Waiting' = Waiting
    BY <1>1, WaitingOutside DEF Callback
  <2>2. UNCHANGED <<capacity, result>>
    BY <1>1 DEF Callback
  <2> QED
    BY <2>1, <2>2 DEF Queue!vars
<1>2. ASSUME NEW k \in Keyboards, QueueAcquire(k) PROVE [Queue!Next]_(Queue!vars)
  <2>1. Waiting' = Waiting
    BY <1>2, WaitingAcquire DEF QueueAcquire
  <2>2. UNCHANGED <<capacity, result>>
    BY <1>2 DEF QueueAcquire
  <2> QED
    BY <2>1, <2>2 DEF Queue!vars
<1>3. ASSUME NEW k \in Keyboards, MakeRoom(k) PROVE [Queue!Next]_(Queue!vars)
  <2>1. Waiting' = Waiting
    BY <1>3, WaitingInside DEF MakeRoom, Inside
  <2>2. UNCHANGED <<capacity, result>>
    BY <1>3 DEF MakeRoom
  <2> QED
    BY <2>1, <2>2 DEF Queue!vars
<1>4. ASSUME NEW k \in Keyboards, Store(k) PROVE [Queue!Next]_(Queue!vars)
  <2>1. Waiting' = Waiting
    BY <1>4, WaitingInside DEF Store, Inside
  <2>2. UNCHANGED <<capacity, result>>
    BY <1>4 DEF Store
  <2> QED
    BY <2>1, <2>2 DEF Queue!vars
<1>5. ASSUME NEW k \in Keyboards, QueueRelease(k) PROVE [Queue!Next]_(Queue!vars)
  BY <1>5, EnqueueStep DEF Queue!Next
<1>6. ASSUME NEW c \in Clients, OpenCall(c) PROVE [Queue!Next]_(Queue!vars)
  <2>1. Waiting' = Waiting
    BY <1>6, WaitingOutside DEF OpenCall
  <2>2. UNCHANGED <<capacity, result>>
    BY <1>6 DEF OpenCall
  <2> QED
    BY <2>1, <2>2 DEF Queue!vars
<1>7. ASSUME NEW c \in Clients, OpenAcquire(c) PROVE [Queue!Next]_(Queue!vars)
  <2>1. Waiting' = Waiting
    BY <1>7, WaitingAcquire DEF OpenAcquire
  <2>2. UNCHANGED <<capacity, result>>
    BY <1>7 DEF OpenAcquire
  <2> QED
    BY <2>1, <2>2 DEF Queue!vars
<1>8. ASSUME NEW c \in Clients, Reset(c) PROVE [Queue!Next]_(Queue!vars)
  <2>1. Waiting' = Waiting
    BY <1>8, WaitingInside DEF Reset, Inside
  <2>2. UNCHANGED <<capacity, result>>
    BY <1>8 DEF Reset
  <2> QED
    BY <2>1, <2>2 DEF Queue!vars
<1>9. ASSUME NEW c \in Clients, OpenRelease(c) PROVE [Queue!Next]_(Queue!vars)
  <2>1. Pending = 0 /\ KeyboardLock' = Free /\ UNCHANGED <<shared, capacity, result>>
    BY <1>9 DEF OpenRelease, Release, SinceAcquire, DrainProgress, Drained
  <2>2. Waiting' = <<>>
    BY <2>1 DEF Waiting, Pending, Contents, SlotAfter
  <2> QED
    BY <2>1, <2>2 DEF Queue!Next, Queue!Open
<1>10. ASSUME NEW c \in Clients, PollCall(c) PROVE [Queue!Next]_(Queue!vars)
  <2>1. PICK n \in 0..MaxOutput :
          IF n = 0
          THEN /\ pc[c] = "idle"
               /\ result' = [result EXCEPT ![c] = <<>>]
               /\ UNCHANGED <<pc, capacity, output>>
          ELSE /\ Goto(c, "idle", "drain")
               /\ capacity' = [capacity EXCEPT ![c] = n]
               /\ UNCHANGED <<output, result>>
    BY <1>10 DEF PollCall
  <2>2. Waiting' = Waiting
    BY <1>10, WaitingOutside DEF PollCall
  <2>3. pc[c] = "idle"
    BY <2>1
  <2>4. capacity[c] = 0
    BY <2>3 DEF SinceAcquire, DrainProgress, Drained
  <2>5. CASE n = 0
    <3>1. result' = [result EXCEPT ![c] = <<>>] /\ capacity' = capacity
      BY <2>1, <2>5
    <3> QED
      BY <2>2, <2>4, <3>1 DEF Queue!Next, Queue!Refuse
  <2>6. CASE n # 0
    <3>1. capacity' = [capacity EXCEPT ![c] = n] /\ result' = result /\ n \in 1..MaxOutput
      BY <2>1, <2>6
    <3> QED
      BY <2>2, <2>4, <3>1 DEF Queue!Next, Queue!Ask, Queue!AskFor
  <2> QED
    BY <2>5, <2>6
<1>11. ASSUME NEW c \in Clients, DrainAcquire(c) PROVE [Queue!Next]_(Queue!vars)
  <2>1. Waiting' = Waiting
    BY <1>11, WaitingAcquire DEF DrainAcquire
  <2>2. UNCHANGED <<capacity, result>>
    BY <1>11 DEF DrainAcquire
  <2> QED
    BY <2>1, <2>2 DEF Queue!vars
<1>12. ASSUME NEW c \in Clients, CopyOut(c) PROVE [Queue!Next]_(Queue!vars)
  <2>1. Waiting' = Waiting
    BY <1>12, WaitingInside DEF CopyOut, Inside
  <2>2. UNCHANGED <<capacity, result>>
    BY <1>12 DEF CopyOut
  <2> QED
    BY <2>1, <2>2 DEF Queue!vars
<1>13. ASSUME NEW c \in Clients, Advance(c) PROVE [Queue!Next]_(Queue!vars)
  <2>1. Waiting' = Waiting
    BY <1>13, WaitingInside DEF Advance, Inside
  <2>2. UNCHANGED <<capacity, result>>
    BY <1>13 DEF Advance
  <2> QED
    BY <2>1, <2>2 DEF Queue!vars
<1>14. ASSUME NEW c \in Clients, DrainRelease(c) PROVE [Queue!Next]_(Queue!vars)
  BY <1>14, AnswerStep DEF Queue!Next
<1>15. CASE UNCHANGED vars
  BY <1>15, WaitingOutside DEF vars, Queue!vars
<1> QED
  BY <1>1, <1>2, <1>3, <1>4, <1>5, <1>6, <1>7, <1>8, <1>9, <1>10, <1>11, <1>12,
     <1>13, <1>14, <1>15 DEF Next, CallbackStep, ClientStep

(* The keyboard bridge keeps the promise of InputQueue: records leave in the *)
(* order they came, only the oldest are lost and only when RingSize - 1 of   *)
(* them are waiting or the device is opened, whatever the interleaving of    *)
(* callbacks, opens and polls.                                               *)
THEOREM Refinement == Spec => ImplementsInputQueue
<1>1. Init => Queue!Init
  <2> SUFFICES ASSUME Init PROVE Queue!Init
    OBVIOUS
  <2>1. Pending = 0 /\ KeyboardLock = Free
    BY DEF Init, Pending
  <2>2. Waiting = <<>>
    BY <2>1 DEF Waiting, Contents
  <2> QED
    BY <2>2 DEF Init, Queue!Init
<1>2. IInv /\ SinceAcquire /\ [Next]_vars => SinceAcquire'
  BY QueueStep, DrainStep DEF SinceAcquire
<1>3. Spec => []SinceAcquire
  BY SinceInit, Invariance, <1>2, PTL DEF Spec
<1>4. IInv /\ SinceAcquire /\ [Next]_vars => [Queue!Next]_(Queue!vars)
  BY RefinementStep
<1> QED
  BY <1>1, <1>3, <1>4, Invariance, PTL DEF Spec, ImplementsInputQueue, Queue!Spec
===============================================================================
