------------------------------ MODULE FramePresent ------------------------------
(***************************************************************************)
(* IOCTL_WIN0DOOM_PRESENT in driver/win0doom-display.c: a thread hands the *)
(* control device a frame of 32-bit RGBA pixels, and the request handler   *)
(* scales it into the mapped framebuffer and swaps its colour channels.    *)
(* The handler takes no lock, so the requests of two threads interleave;   *)
(* a step here is one turn of the innermost loop, a pixel of the source    *)
(* written Scale times along one destination row.  METHOD_BUFFERED copies  *)
(* the frame when the request is made.                                     *)
(***************************************************************************)
EXTENDS Integers, Sequences

CONSTANTS
    Clients,        \* the threads that present: doom, the display test
    Width, Height,  \* WIN0DOOM_FRAME_WIDTH, WIN0DOOM_FRAME_HEIGHT
    Scale,          \* 4, how often a pixel is repeated each way
    DisplayWidth,   \* WIN0DOOM_DISPLAY_WIDTH
    MappedWords,    \* WIN0DOOM_DISPLAY_BYTES in 32-bit words
    Levels,         \* 256, the values of one colour channel
    Frames,         \* the frames presented, as words numbered row by row
    InputLengths,   \* the lengths of the input buffers, in words
    Blank           \* in place of a word that was never written

FrameWords == Width * Height

ASSUME PresentAssumption ==
    /\ {Width, Height, Scale, DisplayWidth, MappedWords} \subseteq Nat \ {0}
    /\ Levels \in Nat \ {0}
    /\ Width * Scale <= DisplayWidth
    /\ Height * Scale * DisplayWidth <= MappedWords
    /\ Frames \subseteq [0..(FrameWords - 1) -> Nat]
    /\ InputLengths \subseteq Nat
    /\ Blank \notin Nat

VARIABLES
    FrameBuffer,
    pc,             \* pc[c]: where the request of client c is
    source,         \* source[c]: the frame it presents
    source_y, scale_y, source_x,    \* its loop counters
    shown,          \* history: the frames some request has begun to show
    alone           \* history: alone[c]: nobody else presented since the request began

counters == <<source_y, scale_y, source_x>>
vars == <<FrameBuffer, pc, source, counters, shown, alone>>

-----------------------------------------------------------------------------
Init ==
    /\ FrameBuffer = [w \in 0..(MappedWords - 1) |-> Blank]
    /\ pc = [c \in Clients |-> "idle"]
    /\ source = [c \in Clients |-> <<>>]
    /\ source_y = [c \in Clients |-> 0]
    /\ scale_y = [c \in Clients |-> 0]
    /\ source_x = [c \in Clients |-> 0]
    /\ shown = {}
    /\ alone = [c \in Clients |-> FALSE]

(* Mutant: red and blue stay where they are. *)
PixelUnswapped(rgba) == rgba % (Levels * Levels * Levels)

(* RGBA, red in the lowest bits, to the framebuffer's BGR without alpha.    *)
Pixel(rgba) ==
    LET red == rgba % Levels
        green == (rgba \div Levels) % Levels
        blue == (rgba \div (Levels * Levels)) % Levels
    IN  red * Levels * Levels + green * Levels + blue

(* The first of the words that pixel x of source row y takes in the s-th of *)
(* its destination rows.                                                   *)
Destination(y, s, x) == (y * Scale + s) * DisplayWidth + x * Scale

(* The request, with the first length words of a frame, or more: a buffer      *)
(* shorter than a frame is refused.                                         *)
PresentFrame(c, frame, length) ==
    /\ pc[c] = "idle"
    /\ IF length < FrameWords
       THEN UNCHANGED <<source, shown, pc, alone>>
       ELSE /\ source' = [source EXCEPT ![c] = [w \in {v \in DOMAIN frame : v < length} |-> frame[w]]]
            /\ shown' = shown \cup {frame}
            /\ pc' = [pc EXCEPT ![c] = "copy"]
            /\ alone' = [d \in Clients |-> d = c /\ \A e \in Clients : pc[e] = "idle"]
    /\ UNCHANGED <<FrameBuffer, counters>>

Present(c) == \E frame \in Frames, length \in InputLengths : PresentFrame(c, frame, length)

CopyPixel(c) ==
    LET first == Destination(source_y[c], scale_y[c], source_x[c])
        pixel == Pixel(source[c][source_y[c] * Width + source_x[c]])
    IN  /\ pc[c] = "copy"
        /\ source_x[c] < Width
        /\ FrameBuffer' = [w \in DOMAIN FrameBuffer |->
                IF w \in first..(first + Scale - 1) THEN pixel ELSE FrameBuffer[w]]
        /\ source_x' = [source_x EXCEPT ![c] = @ + 1]
        /\ UNCHANGED <<pc, source, source_y, scale_y, shown, alone>>

(* Mutant: the rows are not repeated. *)
NextRowOnce(c) ==
    /\ pc[c] = "copy"
    /\ source_x[c] = Width
    /\ source_x' = [source_x EXCEPT ![c] = 0]
    /\ source_y' = [source_y EXCEPT ![c] = @ + 1]
    /\ pc' = [pc EXCEPT ![c] = IF source_y[c] + 1 = Height THEN "done" ELSE "copy"]
    /\ UNCHANGED <<FrameBuffer, source, scale_y, shown, alone>>

(* Mutant: the counter of the rows is not moved past the last repetition. *)
NextRowForever(c) ==
    /\ pc[c] = "copy"
    /\ source_x[c] = Width
    /\ source_x' = [source_x EXCEPT ![c] = 0]
    /\ scale_y' = [scale_y EXCEPT ![c] = (@ + 1) % Scale]
    /\ UNCHANGED <<FrameBuffer, pc, source, source_y, shown, alone>>

(* The end of a row: the same one again, Scale times, then the next.         *)
NextRow(c) ==
    LET repeat == scale_y[c] + 1 < Scale
    IN  /\ pc[c] = "copy"
        /\ source_x[c] = Width
        /\ source_x' = [source_x EXCEPT ![c] = 0]
        /\ scale_y' = [scale_y EXCEPT ![c] = IF repeat THEN @ + 1 ELSE 0]
        /\ source_y' = [source_y EXCEPT ![c] = IF repeat THEN @ ELSE @ + 1]
        /\ pc' = [pc EXCEPT ![c] =
                IF ~repeat /\ source_y[c] + 1 = Height THEN "done" ELSE "copy"]
        /\ UNCHANGED <<FrameBuffer, source, shown, alone>>

(* The request is completed.                                                *)
Complete(c) ==
    /\ pc[c] = "done"
    /\ pc' = [pc EXCEPT ![c] = "idle"]
    /\ source' = [source EXCEPT ![c] = <<>>]
    /\ source_y' = [source_y EXCEPT ![c] = 0]
    /\ scale_y' = [scale_y EXCEPT ![c] = 0]
    /\ alone' = [alone EXCEPT ![c] = FALSE]
    /\ UNCHANGED <<FrameBuffer, source_x, shown>>

-----------------------------------------------------------------------------
Handle(c) == CopyPixel(c) \/ NextRow(c) \/ Complete(c)

Next == \E c \in Clients : Present(c) \/ Handle(c)

Spec == Init /\ [][Next]_vars

(* A request handler, once running, goes on.                                *)
FairSpec == Spec /\ \A c \in Clients : WF_vars(Handle(c))

-----------------------------------------------------------------------------
(* Properties.                                                             *)

(* The reference: the colour channels reversed, and every word of the display *)
(* shows the frame's pixel it lies over.                                    *)
Weight == <<1, Levels, Levels * Levels, Levels * Levels * Levels>>
Channel(word, i) == (word \div Weight[i + 1]) % Levels

Reversed(rgba, bgr) ==
    /\ \A i \in 0..2 : Channel(bgr, i) = Channel(rgba, 2 - i)
    /\ Channel(bgr, 3) = 0

Row(w) == w \div DisplayWidth
Column(w) == w % DisplayWidth
Visible == {w \in 0..(MappedWords - 1) : Row(w) < Height * Scale /\ Column(w) < Width * Scale}

Shows(w, frame) ==
    /\ FrameBuffer[w] # Blank
    /\ Reversed(frame[(Row(w) \div Scale) * Width + Column(w) \div Scale], FrameBuffer[w])

(* The loop counters stay in their ranges and the framebuffer is not written *)
(* beyond its mapping.                                                      *)
TypeOK ==
    /\ FrameBuffer \in [0..(MappedWords - 1) -> Nat \cup {Blank}]
    /\ pc \in [Clients -> {"idle", "copy", "done"}]
    /\ source_y \in [Clients -> 0..Height]
    /\ scale_y \in [Clients -> 0..(Scale - 1)]
    /\ source_x \in [Clients -> 0..Width]
    /\ alone \in [Clients -> BOOLEAN]
    /\ DOMAIN source = Clients
    /\ \A c \in Clients :
        pc[c] = "copy" => source_y[c] < Height /\ DOMAIN source[c] = 0..(FrameWords - 1)

(* A word in the picture that shows its own pixel of a presented frame.       *)
FromItsPixel(w) == w \in Visible /\ \E frame \in shown : Shows(w, frame)

(* A request that ran alone leaves the whole picture of its frame on display. *)
AloneShowsWholeFrame ==
    \A c \in Clients : pc[c] = "done" /\ alone[c] => \A w \in Visible : Shows(w, source[c])

(* A request ends, whoever else presents.                                   *)
PresentReturns == \A c \in Clients : pc[c] = "copy" ~> pc[c] = "idle"
===============================================================================
