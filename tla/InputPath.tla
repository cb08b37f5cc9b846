------------------------------- MODULE InputPath -------------------------------
(***************************************************************************)
(* The way of a key press from the keyboard to doom: the filter callback   *)
(* of driver/win0doom-display.c mirrors each record into the ring and then *)
(* forwards it to kbdclass, for ccs; native/win0-doom.c opens the control  *)
(* device, polls the ring once a frame and dispatches what it got.         *)
(*                                                                         *)
(* The ring is the queue of InputQueue, which KeyboardRing implements.     *)
(* Keyboards, ccs (which launches doom when it gets the end of the typed   *)
(* command, the Enter key) and a second program that opens the control     *)
(* device, as native/driver-display-test.c does, are the environment.      *)
(***************************************************************************)
EXTENDS Integers, Sequences, FiniteSets, ScanCodes

CONSTANTS
    Keyboards,      \* the keyboards, each under a filter device of its own
    Keys,           \* their keys: make code and prefix flag
    Enter,          \* the key that ends a command typed to ccs
    RingCapacity,   \* WIN0DOOM_KEYBOARD_RING_SIZE - 1
    PollRecords,    \* the length of keyboard_buffer
    MaxRecords,     \* bound: how many records the keyboards produce in all
    MaxBatch,       \* bound: the most records of one service callback
    MaxRefusals,    \* bound: how often kbdclass leaves a part of what it is given
    MaxLaunches     \* bound: how often doom is launched

ASSUME PathAssumption ==
    /\ Enter \in Keys
    /\ RingCapacity \in Nat \ {0}
    /\ PollRecords \in Nat \ {0}
    /\ MaxRecords \in Nat /\ MaxBatch \in Nat
    /\ MaxRefusals \in Nat /\ MaxLaunches \in Nat

VARIABLES
    held,       \* held[b]: the keys of keyboard b that are down
    wire,       \* wire[b]: records of b that the port driver has not reported yet
    callback,   \* callback[b]: where the service callback of b is
    batch,      \* batch[b]: the records it reports
    ccs,        \* the records ccs has received
    queue,      \* the ring
    room,       \* the room of the poll that is under way
    result,     \* the records the last poll returned
    game,       \* where doom is
    keyboard_available,
    down,       \* the doom keys the engine holds for pressed
    refusals,   \* history: how often kbdclass has left a part of a batch
    again,      \* history: the records it has left, after they were mirrored
    produced,   \* history: how many records the keyboards have produced
    press,      \* history: press[b][key]: the record that began the press of a held key
    launches,   \* history: how often doom was launched
    command,    \* history: the presses ccs had received when it launched doom
    stale,      \* history: the records ccs had received when doom opened the device
    dispatched, \* history: the records this run of doom has given to the engine, in turn
    lost        \* history: whether records were dropped since doom opened the device

keyboardVars == <<held, wire, produced, press>>
filterVars == <<callback, batch>>
classVars == <<ccs, refusals, again>>
queueVars == <<queue, room, result>>
doomVars == <<keyboard_available, down, dispatched>>
launchVars == <<launches, command, stale>>
vars == <<keyboardVars, filterVars, classVars, queueVars, game, doomVars, launchVars, lost>>

Doom == "win0doom"

(* A record names the key, KEY_BREAK, and the press it belongs to; n tells   *)
(* the records apart.                                                        *)
Records ==
    [n : 1..MaxRecords, press : 1..MaxRecords, kbd : Keyboards, key : Keys, brk : BOOLEAN]

Queue == INSTANCE InputQueue
            WITH Clients <- {Doom}, Capacity <- RingCapacity, MaxOutput <- PollRecords

RangeOf(s) == {s[i] : i \in DOMAIN s}

-----------------------------------------------------------------------------
Init ==
    /\ held = [b \in Keyboards |-> {}]
    /\ wire = [b \in Keyboards |-> <<>>]
    /\ callback = [b \in Keyboards |-> "idle"]
    /\ batch = [b \in Keyboards |-> <<>>]
    /\ ccs = {}
    /\ refusals = 0
    /\ again = {}
    /\ Queue!Init
    /\ game = "absent"
    /\ keyboard_available = TRUE
    /\ down = {}
    /\ produced = 0
    /\ press = [b \in Keyboards |-> [key \in Keys |-> 0]]
    /\ launches = 0
    /\ command = {}
    /\ stale = {}
    /\ dispatched = <<>>
    /\ lost = FALSE

-----------------------------------------------------------------------------
(* The keyboards: a press, its repetitions while the key is held, and the    *)
(* release each produce a record.                                            *)

Produce(b, key, brk, of) ==
    /\ produced < MaxRecords
    /\ produced' = produced + 1
    /\ wire' = [wire EXCEPT ![b] = Append(@,
            [n |-> produced + 1, press |-> of, kbd |-> b, key |-> key, brk |-> brk])]
    /\ UNCHANGED <<filterVars, classVars, queueVars, game, doomVars, launchVars, lost>>

Press(b, key) ==
    /\ key \notin held[b]
    /\ held' = [held EXCEPT ![b] = @ \cup {key}]
    /\ press' = [press EXCEPT ![b][key] = produced + 1]
    /\ Produce(b, key, FALSE, produced + 1)

Repeat(b, key) ==
    /\ key \in held[b]
    /\ Produce(b, key, FALSE, press[b][key])
    /\ UNCHANGED <<held, press>>

LetGo(b, key) ==
    /\ key \in held[b]
    /\ held' = [held EXCEPT ![b] = @ \ {key}]
    /\ press' = [press EXCEPT ![b][key] = 0]
    /\ Produce(b, key, TRUE, press[b][key])

-----------------------------------------------------------------------------
(* Win0DoomKeyboardServiceCallback.                                        *)

Report(b) ==
    /\ callback[b] = "idle"
    /\ \E n \in 1..MaxBatch :
        /\ n <= Len(wire[b])
        /\ batch' = [batch EXCEPT ![b] = SubSeq(wire[b], 1, n)]
        /\ wire' = [wire EXCEPT ![b] = SubSeq(@, n + 1, Len(@))]
    /\ callback' = [callback EXCEPT ![b] = "queue"]
    /\ UNCHANGED <<held, press, produced, classVars, queueVars, game, doomVars, launchVars, lost>>

(* Mutant: the batch is put in front of what is waiting. *)
MirrorAtFront(b) ==
    /\ callback[b] = "queue"
    /\ queue' = Queue!Newest(batch[b] \o queue)
    /\ lost' = (lost \/ Len(queue) + Len(batch[b]) > RingCapacity)
    /\ callback' = [callback EXCEPT ![b] = "forward"]
    /\ UNCHANGED <<keyboardVars, batch, room, result, classVars, game, doomVars, launchVars>>

(* Mutant: a batch that finds the ring full is given up. *)
MirrorOrDrop(b) ==
    /\ callback[b] = "queue"
    /\ IF Len(queue) + Len(batch[b]) > RingCapacity
       THEN /\ callback' = [callback EXCEPT ![b] = "idle"]
            /\ batch' = [batch EXCEPT ![b] = <<>>]
            /\ UNCHANGED queueVars
       ELSE /\ callback' = [callback EXCEPT ![b] = "forward"]
            /\ Queue!EnqueueBatch(batch[b])
            /\ UNCHANGED batch
    /\ UNCHANGED <<keyboardVars, classVars, game, doomVars, launchVars, lost>>

(* Win0DoomQueueKeyboardAtDpc, under the lock.                               *)
Mirror(b) ==
    /\ callback[b] = "queue"
    /\ Queue!EnqueueBatch(batch[b])
    /\ lost' = (lost \/ Len(queue) + Len(batch[b]) > RingCapacity)
    /\ callback' = [callback EXCEPT ![b] = "forward"]
    /\ UNCHANGED <<keyboardVars, batch, classVars, game, doomVars, launchVars>>

(* Mutant: the count is not handed on, and the port driver takes the whole    *)
(* batch for consumed.                                                       *)
ForwardWithoutCount(b) ==
    /\ callback[b] = "forward"
    /\ \E n \in 0..Len(batch[b]) :
        /\ n = Len(batch[b]) \/ refusals < MaxRefusals
        /\ ccs' = ccs \cup RangeOf(SubSeq(batch[b], 1, n))
        /\ refusals' = IF n = Len(batch[b]) THEN refusals ELSE refusals + 1
    /\ batch' = [batch EXCEPT ![b] = <<>>]
    /\ callback' = [callback EXCEPT ![b] = "idle"]
    /\ UNCHANGED <<keyboardVars, again, queueVars, game, doomVars, launchVars, lost>>

(* The call of the original class callback, which tells the port driver in    *)
(* InputDataConsumed, handed on as it came, how many records it has taken:    *)
(* the rest stays with the port driver, which reports it again.              *)
Forward(b) ==
    /\ callback[b] = "forward"
    /\ \E n \in 0..Len(batch[b]) :
        LET rest == SubSeq(batch[b], n + 1, Len(batch[b])) IN
        /\ rest = <<>> \/ refusals < MaxRefusals
        /\ ccs' = ccs \cup RangeOf(SubSeq(batch[b], 1, n))
        /\ wire' = [wire EXCEPT ![b] = rest \o @]
        /\ again' = again \cup RangeOf(rest)
        /\ refusals' = IF rest = <<>> THEN refusals ELSE refusals + 1
    /\ batch' = [batch EXCEPT ![b] = <<>>]
    /\ callback' = [callback EXCEPT ![b] = "idle"]
    /\ UNCHANGED <<held, press, produced, queueVars, game, doomVars, launchVars, lost>>

-----------------------------------------------------------------------------
(* Starting doom.                                                          *)

(* ccs runs the command once it has received the Enter that ends it.         *)
Launch ==
    /\ game = "absent"
    /\ launches < MaxLaunches
    /\ \E r \in ccs : r.key = Enter /\ ~r.brk /\ r.press \notin command
    /\ launches' = launches + 1
    /\ command' = {r.press : r \in ccs}
    /\ game' = "start"
    /\ keyboard_available' = TRUE
    /\ down' = {}
    /\ dispatched' = <<>>
    /\ UNCHANGED <<keyboardVars, filterVars, classVars, queueVars, stale, lost>>

(* Mutant: the open leaves the ring alone. *)
OpenDisplayKeeping ==
    /\ game = "start"
    /\ game' = "poll"
    /\ stale' = ccs
    /\ lost' = FALSE
    /\ UNCHANGED <<keyboardVars, filterVars, classVars, queueVars, doomVars, launches, command>>

(* open_display, which resets the ring in Win0DoomCreateClose.               *)
OpenDisplay ==
    /\ game = "start"
    /\ game' = "poll"
    /\ Queue!Open
    /\ stale' = ccs
    /\ lost' = FALSE
    /\ UNCHANGED <<keyboardVars, filterVars, classVars, doomVars, launches, command>>

(* Leaving, by native_exit: when the device cannot be opened or a frame not   *)
(* presented.                                                                *)
Exit ==
    /\ game \in {"start", "present"}
    /\ game' = "absent"
    /\ UNCHANGED <<keyboardVars, filterVars, classVars, queueVars, doomVars, launchVars, lost>>

(* Another program opens the control device.                                 *)
OtherOpen ==
    /\ Queue!Open
    /\ lost' = (lost \/ queue # <<>>)
    /\ UNCHANGED <<keyboardVars, filterVars, classVars, game, doomVars, launchVars>>

-----------------------------------------------------------------------------
(* The frame loop.                                                         *)

(* The part of a frame that does not touch the ring.                         *)
Frame(from, to) ==
    /\ game = from
    /\ game' = to
    /\ UNCHANGED <<keyboardVars, filterVars, classVars, queueVars, doomVars, launchVars, lost>>

PollKeyboard ==
    /\ game = "poll"
    /\ keyboard_available
    /\ Queue!AskFor(Doom, PollRecords)
    /\ game' = "drain"
    /\ UNCHANGED <<keyboardVars, filterVars, classVars, doomVars, launchVars, lost>>

SkipKeyboard == ~keyboard_available /\ Frame("poll", "update")

(* The request fails before it reaches the driver: demo mode from now on.    *)
PollFails ==
    /\ game = "poll"
    /\ keyboard_available
    /\ keyboard_available' = FALSE
    /\ game' = "update"
    /\ UNCHANGED <<keyboardVars, filterVars, classVars, queueVars, down, dispatched, launchVars, lost>>

Drain ==
    /\ game = "drain"
    /\ Queue!Answer(Doom)
    /\ game' = "dispatch"
    /\ UNCHANGED <<keyboardVars, filterVars, classVars, doomVars, launchVars, lost>>

(* Mutant: the break flag is not looked at. *)
DispatchAsDown ==
    /\ game = "dispatch"
    /\ result[Doom] # <<>>
    /\ LET record == Head(result[Doom])
           key == scan_code_to_doom(record.key)
       IN  IF key = UNKNOWN
           THEN UNCHANGED <<down, dispatched>>
           ELSE /\ down' = down \cup {key}
                /\ dispatched' = Append(dispatched, record)
    /\ result' = [result EXCEPT ![Doom] = Tail(@)]
    /\ UNCHANGED <<keyboardVars, filterVars, classVars, queue, room, game, keyboard_available,
                   launchVars, lost>>

(* One turn of the loop of dispatch_keyboard_records.                        *)
Dispatch ==
    /\ game = "dispatch"
    /\ result[Doom] # <<>>
    /\ LET record == Head(result[Doom])
           key == scan_code_to_doom(record.key)
       IN  IF key = UNKNOWN
           THEN UNCHANGED <<down, dispatched>>
           ELSE /\ down' = IF record.brk THEN down \ {key} ELSE down \cup {key}
                /\ dispatched' = Append(dispatched, record)
    /\ result' = [result EXCEPT ![Doom] = Tail(@)]
    /\ UNCHANGED <<keyboardVars, filterVars, classVars, queue, room, game, keyboard_available,
                   launchVars, lost>>

Dispatched == result[Doom] = <<>> /\ Frame("dispatch", "update")

Update == Frame("update", "present")

(* Mutant: the keyboard is polled before the loop and not in it. *)
PresentOnly == Frame("present", "update")

Present == Frame("present", "poll")

-----------------------------------------------------------------------------
FilterStep(b) == Report(b) \/ Mirror(b) \/ Forward(b)

GameStep ==
    \/ OpenDisplay \/ Exit
    \/ PollKeyboard \/ SkipKeyboard \/ PollFails \/ Drain
    \/ Dispatch \/ Dispatched \/ Update \/ Present

Next ==
    \/ \E b \in Keyboards, key \in Keys : Press(b, key) \/ Repeat(b, key) \/ LetGo(b, key)
    \/ \E b \in Keyboards : FilterStep(b)
    \/ Launch
    \/ GameStep
    \/ OtherOpen

Spec == Init /\ [][Next]_vars

(* The port driver reports what it has, its callback runs to the end, and    *)
(* doom goes on with its loop.                                               *)
FairSpec ==
    /\ Spec
    /\ \A b \in Keyboards : WF_vars(FilterStep(b))
    /\ WF_vars(GameStep)

-----------------------------------------------------------------------------
(* Properties.                                                             *)

Running == game \notin {"absent", "start"}

TypeOK ==
    /\ held \in [Keyboards -> SUBSET Keys]
    /\ wire \in [Keyboards -> Seq(Records)] /\ batch \in [Keyboards -> Seq(Records)]
    /\ callback \in [Keyboards -> {"idle", "queue", "forward"}]
    /\ ccs \subseteq Records /\ again \subseteq Records /\ dispatched \in Seq(Records)
    /\ refusals \in 0..MaxRefusals
    /\ queue \in Seq(Records) /\ Len(queue) <= RingCapacity
    /\ room \in [{Doom} -> 0..PollRecords]
    /\ result \in [{Doom} -> Seq(Records)] /\ Len(result[Doom]) <= PollRecords
    /\ game \in {"absent", "start", "poll", "drain", "dispatch", "update", "present"}
    /\ UNKNOWN \notin down
    /\ produced \in 0..MaxRecords
    /\ press \in [Keyboards -> [Keys -> 0..MaxRecords]]
    /\ \A b \in Keyboards : \A key \in held[b] : press[b][key] # 0

(* A record that ccs had received before doom opened the control device      *)
(* never becomes doom input: the callback mirrors a record before it         *)
(* forwards it, and the open discards what is in the ring, so the command    *)
(* that launched doom is gone as soon as ccs can act on it.                   *)
NothingStaleDispatched == Running => RangeOf(dispatched) \cap stale = {}

(* A doom key is down only while a key that stands for it is held, or the    *)
(* record of its release is still on the way; unless records were dropped,   *)
(* no key sticks.                                                            *)
OnTheWay == UNION ({RangeOf(wire[b]) : b \in Keyboards}
                    \cup {RangeOf(batch[b]) : b \in {x \in Keyboards : callback[x] = "queue"}}
                    \cup {RangeOf(queue), RangeOf(result[Doom])})

NoStuckKey ==
    Running /\ ~lost /\ keyboard_available =>
        \A d \in down : \E b \in Keyboards, key \in Keys :
            /\ scan_code_to_doom(key) = d
            /\ \/ key \in held[b]
               \/ \E r \in OnTheWay : r.kbd = b /\ r.key = key /\ r.brk

(* What doom dispatches of one keyboard it dispatches in the order it was     *)
(* typed, and no record twice, unless kbdclass had left it and the port       *)
(* driver reported it again: batches, overflow, polls that take part of the   *)
(* ring and opens neither reorder nor repeat a record.                       *)
DispatchInOrder ==
    [][Len(dispatched') > Len(dispatched) =>
            LET r == dispatched'[Len(dispatched')]
            IN  r \notin again =>
                    \A i \in DOMAIN dispatched :
                        dispatched[i].kbd = r.kbd => dispatched[i].n < r.n]_vars

(* README, "what the keyboard filter does": the command typed to launch doom  *)
(* never becomes doom input.                                                 *)
CommandNeverDispatched == Running => \A r \in RangeOf(dispatched) : r.press \notin command

(* What waits in the ring does not wait for ever while doom runs with a       *)
(* keyboard.                                                                 *)
WaitingIsTaken ==
    \A n \in 1..MaxRecords :
        (\E r \in RangeOf(queue) : r.n = n) /\ Running
            ~> (\A r \in RangeOf(queue) : r.n # n) \/ ~Running \/ ~keyboard_available

(* ccs receives every record, whatever doom and other programs do and however *)
(* kbdclass divides what it is given, as long as it takes it in the end.      *)
CcsReceivesAll ==
    \A n \in 1..MaxRecords : produced >= n ~> \E r \in ccs : r.n = n
===============================================================================
