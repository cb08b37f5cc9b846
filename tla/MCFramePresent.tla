---------------------------- MODULE MCFramePresent ----------------------------
(* Doom, the display test and a painter, with frames of a few pixels shown   *)
(* twice as large on a display of the same width, and some words to spare.   *)
EXTENDS DisplayProbes

CONSTANTS doom, test

MCClients == {doom, test}
MCFrames == {[w \in 0..(FrameWords - 1) |-> (w * 37 + 91) % (Levels * Levels * Levels * Levels)]}
MCInputLengths == {FrameWords - 1, FrameWords}
MCReported == {0, PaintedWords - 1, MappedWords}

(* The gradients at their real sizes: 320 columns of a frame, 200 rows, and   *)
(* four times as many on display.                                           *)
ASSUME RealGradients ==
    \A n \in {320, 200} : \A i \in 0..(4 * n - 1) :
        Gradient(i \div 4, n, 256) - Gradient(i, 4 * n, 256) \in -1..1
===============================================================================
