------------------------------ MODULE InputQueue ------------------------------
(***************************************************************************)
(* What the keyboard bridge of driver/win0doom-display.c promises to its   *)
(* users: a bounded queue of keyboard records that forgets the oldest      *)
(* record when it is full, is emptied when a program opens the control     *)
(* device, and hands its oldest records, in order, to whoever polls.       *)
(* Every operation is one step.  KeyboardRing is shown to implement this.  *)
(***************************************************************************)
EXTENDS Integers, Sequences

CONSTANTS
    Records,    \* the KEYBOARD_INPUT_DATA values
    Clients,    \* the threads that open and poll the control device
    Capacity,   \* how many records the queue keeps
    MaxBatch,   \* the most records one service callback reports
    MaxOutput   \* the most records a client's output buffer has room for

VARIABLES
    queue,      \* the records waiting, oldest first
    room,       \* room[c]: how many records the poll of c has room for, 0 if none runs
    result      \* result[c]: the records the last poll of client c returned

vars == <<queue, room, result>>

Batches == UNION {[1..n -> Records] : n \in 0..MaxBatch}

(* The last Capacity elements of s, or all of s if it is shorter. *)
Newest(s) ==
    LET excess == IF Len(s) > Capacity THEN Len(s) - Capacity ELSE 0
    IN  [i \in 1..(Len(s) - excess) |-> s[i + excess]]

(* The elements of s after the first n. *)
After(s, n) == [i \in 1..(Len(s) - n) |-> s[i + n]]

Init ==
    /\ queue = <<>>
    /\ room = [c \in Clients |-> 0]
    /\ result = [c \in Clients |-> <<>>]

EnqueueBatch(batch) ==
    /\ queue' = Newest(queue \o batch)
    /\ UNCHANGED <<room, result>>

Enqueue == \E batch \in Batches : EnqueueBatch(batch)

Open ==
    /\ queue' = <<>>
    /\ UNCHANGED <<room, result>>

AskFor(c, n) ==
    /\ room[c] = 0
    /\ room' = [room EXCEPT ![c] = n]
    /\ UNCHANGED <<queue, result>>

Ask(c) == \E n \in 1..MaxOutput : AskFor(c, n)

(* A buffer without room for one record is answered with none. *)
Refuse(c) ==
    /\ room[c] = 0
    /\ result' = [result EXCEPT ![c] = <<>>]
    /\ UNCHANGED <<queue, room>>

(* A poll takes the oldest records, as many as there are and it has room for. *)
Answer(c) ==
    LET n == IF room[c] < Len(queue) THEN room[c] ELSE Len(queue)
    IN  /\ room[c] # 0
        /\ result' = [result EXCEPT ![c] = [i \in 1..n |-> queue[i]]]
        /\ queue' = After(queue, n)
        /\ room' = [room EXCEPT ![c] = 0]

Next ==
    \/ Enqueue
    \/ Open
    \/ \E c \in Clients : Ask(c) \/ Refuse(c) \/ Answer(c)

Spec == Init /\ [][Next]_vars
===============================================================================
