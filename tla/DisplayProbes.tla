----------------------------- MODULE DisplayProbes -----------------------------
(***************************************************************************)
(* The programs that put one test picture on display, beside whatever else *)
(* presents: native/driver-display-test.c draws a frame and presents it    *)
(* through the driver once; native/fb-test.c maps the physical memory of   *)
(* the framebuffer, native/video-test.c has the video driver map it, and   *)
(* each of those paints it row by row.  All three then sleep for ever.   *)
(*                                                                         *)
(* External: the section of physical memory, and the memory the video      *)
(* driver reports, which may be none or too short.                         *)
(***************************************************************************)
EXTENDS FramePresent

CONSTANTS
    Tester,         \* the client that is driver-display-test.c
    FrameCell,      \* 16, the side of a square of its checker
    DisplayCell,    \* 64, that of the others
    Dark, Bright,   \* 0x20 and 0xd0, the blue of the squares
    Reported        \* the lengths, in words, the video driver may report; 0 for no memory

ASSUME ProbesAssumption ==
    /\ Tester \in Clients
    /\ Width > 1 /\ Height > 1
    /\ {FrameCell, DisplayCell} \subseteq Nat \ {0}
    /\ {Dark, Bright} \subseteq 0..(Levels - 1)
    /\ Reported \subseteq Nat

(* The picture fills the rows of the display, its squares grow as its pixels   *)
(* do, and it has enough pixels for its gradients to miss no level: 1280 =   *)
(* 320 * 4, 64 = 16 * 4, and 255 * 3 is less than 800.                       *)
ASSUME PictureAssumption ==
    /\ DisplayWidth = Width * Scale
    /\ DisplayCell = FrameCell * Scale
    /\ \A n \in {Width, Height} : (Levels - 1) * (Scale - 1) < n * Scale

VARIABLES
    tester,     \* where driver-display-test.c is
    probe,      \* where the program that paints is, once it is known which
    granted,    \* the words it has mapped
    painted     \* how many rows it has written

probeVars == <<tester, probe, granted, painted>>
probesVars == <<vars, probeVars>>

DisplayHeight == Height * Scale
PaintedWords == DisplayWidth * DisplayHeight

Gradient(i, n, levels) == (i * (levels - 1)) \div (n - 1)

(* The exclusive or of two bits: that of the square's column and its row's.  *)
Checker(x, y, cell) == IF (x \div cell + y \div cell) % 2 = 1 THEN Bright ELSE Dark

(* Mutant: the squares are as large as on display. *)
TestFrameCoarse ==
    [w \in 0..(FrameWords - 1) |->
        LET x == w % Width
            y == w \div Width
        IN  Gradient(x, Width, Levels) + Levels * (Gradient(y, Height, Levels)
                + Levels * (Checker(x, y, DisplayCell) + Levels * (Levels - 1)))]

(* The frame of the test client, opaque, red in the lowest bits.             *)
TestFrame ==
    [w \in 0..(FrameWords - 1) |->
        LET x == w % Width
            y == w \div Width
        IN  Gradient(x, Width, Levels) + Levels * (Gradient(y, Height, Levels)
                + Levels * (Checker(x, y, FrameCell) + Levels * (Levels - 1)))]

(* The word that fb-test.c and video-test.c paint at x and y.                *)
TestWord(x, y) ==
    Checker(x, y, DisplayCell) + Levels * (Gradient(y, DisplayHeight, Levels)
        + Levels * Gradient(x, DisplayWidth, Levels))

-----------------------------------------------------------------------------
ProbesInit ==
    /\ Init
    /\ tester = "start"
    /\ probe = "start"
    /\ granted = 0
    /\ painted = 0

(* The control device is opened, and the whole frame is drawn and presented,  *)
(* once; or the program ends.                                               *)
PresentTest ==
    /\ tester = "start"
    /\ \/ tester' = "ended" /\ UNCHANGED vars
       \/ tester' = "asleep" /\ PresentFrame(Tester, TestFrame, FrameWords)
    /\ UNCHANGED <<probe, granted, painted>>

(* fb-test.c opens the section, video-test.c the device, or it ends.         *)
OpenProbe ==
    /\ probe = "start"
    /\ probe' \in {"map section", "map video", "ended"}
    /\ UNCHANGED <<vars, tester, granted, painted>>

(* The view of fb-test.c, 16 megabytes, reaches beyond the framebuffer.      *)
MapSection ==
    /\ probe = "map section"
    /\ \/ probe' = "paint" /\ granted' = MappedWords
       \/ probe' = "ended" /\ UNCHANGED granted
    /\ UNCHANGED <<vars, tester, painted>>

(* Mutant: memory that is too short is not refused. *)
MapVideoUnchecked ==
    /\ probe = "map video"
    /\ \E length \in Reported :
        /\ probe' = "paint"
        /\ granted' = length
    /\ UNCHANGED <<vars, tester, painted>>

(* A request that fails, and memory that is too short, end video-test.c.     *)
MapVideo ==
    /\ probe = "map video"
    /\ \E length \in Reported :
        IF length < PaintedWords THEN probe' = "ended" /\ UNCHANGED granted
        ELSE probe' = "paint" /\ granted' = length
    /\ UNCHANGED <<vars, tester, painted>>

(* One turn of the loop over the rows.                                      *)
Paint ==
    /\ probe = "paint"
    /\ FrameBuffer' = [w \in DOMAIN FrameBuffer |->
            IF Row(w) = painted THEN TestWord(Column(w), Row(w)) ELSE FrameBuffer[w]]
    /\ painted' = painted + 1
    /\ probe' = IF painted + 1 = DisplayHeight THEN "asleep" ELSE "paint"
    /\ alone' = [c \in Clients |-> FALSE]
    /\ UNCHANGED <<pc, source, counters, shown, tester, granted>>

-----------------------------------------------------------------------------
HandleRequest(c) == Handle(c) /\ UNCHANGED probeVars

ProbesNext ==
    \/ \E c \in Clients \ {Tester} : Present(c) /\ UNCHANGED probeVars
    \/ \E c \in Clients : HandleRequest(c)
    \/ PresentTest \/ OpenProbe \/ MapSection \/ MapVideo \/ Paint

(* A request handler, once running, goes on, however others are scheduled.   *)
ProbesSpec ==
    /\ ProbesInit /\ [][ProbesNext]_probesVars
    /\ \A c \in Clients : WF_probesVars(HandleRequest(c))

-----------------------------------------------------------------------------
(* Properties.                                                             *)

(* The painters write only what they have mapped.                            *)
ProbesTypeOK ==
    /\ TypeOK
    /\ tester \in {"start", "asleep", "ended"}
    /\ probe \in {"start", "map section", "map video", "paint", "asleep", "ended"}
    /\ painted \in 0..DisplayHeight
    /\ granted \in Nat
    /\ probe = "paint" => PaintedWords <= granted

(* However requests and a painter interleave, a word that was written shows   *)
(* its own pixel of some frame that was presented, or of the test picture: a   *)
(* torn picture mixes frames, it never shows a pixel in a wrong place or       *)
(* colour.  What lies below the picture is never written.                    *)
EveryWordInItsPlace ==
    \A w \in 0..(MappedWords - 1) :
        \/ FrameBuffer[w] = Blank
        \/ FromItsPixel(w)
        \/ Row(w) < painted /\ FrameBuffer[w] = TestWord(Column(w), Row(w))

(* Blue, the lowest channel, is the same; green and red are near.            *)
Near(a, b, i) == IF i = 0 THEN a = b ELSE a - b \in -1..1

(* The test picture that goes through the driver is the one that is painted   *)
(* without it: each word lies in a square of the same blue, and its red and   *)
(* green are one level away at most, by the rounding of the scaled gradient.  *)
TestPicturesAgree ==
    pc[Tester] = "done" /\ alone[Tester] =>
        \A w \in Visible : \A i \in 0..2 :
            Near(Channel(FrameBuffer[w], i), Channel(TestWord(Column(w), Row(w)), i), i)
===============================================================================
