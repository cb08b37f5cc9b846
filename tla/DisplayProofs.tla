----------------------------- MODULE DisplayProofs -----------------------------
(***************************************************************************)
(* What DisplayProbes promises of the display, proved for every size of    *)
(* frame and display, every scale and number of levels, and any number of  *)
(* programs: every word lies in its place, however requests and a painter  *)
(* interleave, and a request that ran alone leaves its whole frame.        *)
(***************************************************************************)
EXTENDS DisplayProbes, TLAPS

-----------------------------------------------------------------------------
(* Division with a remainder, by a divisor that is not a numeral.           *)

(* A number is its quotient and its remainder.                              *)
LEMMA QuotientRemainder ==
    ASSUME NEW d \in Nat \ {0}, NEW n \in Int
    PROVE  /\ n \div d \in Int
           /\ n % d \in 0..(d - 1)
           /\ n = d * (n \div d) + (n % d)
<1>1. n \div d \in Int /\ n % d \in 0..(d - 1)
    OBVIOUS
<1>2. n = d * (n \div d) + (n % d)
    BY Z3
<1> QED BY <1>1, <1>2

(* And only these two are.                                                  *)
LEMMA Unique ==
    ASSUME NEW d \in Nat \ {0}, NEW q \in Int, NEW r \in 0..(d - 1)
    PROVE  (q * d + r) \div d = q /\ (q * d + r) % d = r
OBVIOUS

(* Products grow with either factor.                                        *)
LEMMA Grows ==
    ASSUME NEW a \in Int, NEW b \in Int, NEW d \in Nat, a <= b
    PROVE  a * d <= b * d
OBVIOUS

(* A place in a table of n rows of d words: it lies in the table, and one    *)
(* that begins in a row below n ends before row n does.                     *)
LEMMA InTable ==
    ASSUME NEW n \in Nat, NEW d \in Nat, NEW y \in 0..(n - 1), NEW x \in 0..(d - 1)
    PROVE  y * d + x \in 0..(n * d - 1)
<1>1. (y + 1) * d <= n * d
    BY Grows
<1>2. (y + 1) * d = y * d + d
    OBVIOUS
<1>3. y * d \in Nat
    OBVIOUS
<1>4. n * d \in Nat
    OBVIOUS
<1> QED BY <1>1, <1>2, <1>3, <1>4

(* The quotient of what is not negative.                                    *)
LEMMA QuotientNat ==
    ASSUME NEW d \in Nat \ {0}, NEW n \in Nat
    PROVE  n \div d \in Nat /\ n % d \in Nat
OBVIOUS

(* All three together.                                                      *)
LEMMA Divided ==
    ASSUME NEW d \in Nat \ {0}, NEW n \in Nat
    PROVE  /\ n \div d \in Nat
           /\ n % d \in 0..(d - 1)
           /\ n = d * (n \div d) + (n % d)
<1>1. n \div d \in Nat
    BY QuotientNat
<1>2. n \in Int
    OBVIOUS
<1>3. n % d \in 0..(d - 1) /\ n = d * (n \div d) + (n % d)
    BY <1>2, QuotientRemainder
<1> QED BY <1>1, <1>3

(* Of n * S numbers, S in turn have each of the quotients below n.            *)
LEMMA Scaled ==
    ASSUME NEW n \in Nat, NEW S \in Nat \ {0}, NEW i \in 0..(n * S - 1)
    PROVE  i \div S \in 0..(n - 1)
<1> DEFINE q == i \div S
           r == i % S
<1>1. n * S \in Nat
    OBVIOUS
<1>2. i \in Nat /\ q \in Nat /\ r \in 0..(S - 1) /\ i = S * q + r
    <2>1. i \in Nat
        BY <1>1
    <2>2. i \div S \in Nat /\ i % S \in 0..(S - 1) /\ i = S * (i \div S) + (i % S)
        BY <2>1, Divided
    <2> QED BY <2>1, <2>2
<1> HIDE DEF q, r
<1>3. q < n
    <2> SUFFICES ASSUME q >= n PROVE FALSE
        BY <1>2
    <2>1. n * S <= q * S
        BY <1>2, Grows
    <2>2. q * S = S * q /\ S * q \in Nat
        BY <1>2
    <2> QED BY <1>1, <1>2, <2>1, <2>2
<1> QED BY <1>2, <1>3 DEF q

-----------------------------------------------------------------------------
(* The index lemma, both ways: the words of pixel x in the s-th of the rows of *)
(* source row y are those that lie over this pixel in that row.              *)

(* They are words of the mapping, in the picture, over their own pixel.       *)
LEMMA IndexLemma ==
    ASSUME NEW y \in 0..(Height - 1), NEW s \in 0..(Scale - 1), NEW x \in 0..(Width - 1),
           NEW w \in Destination(y, s, x)..(Destination(y, s, x) + Scale - 1)
    PROVE  /\ Row(w) = y * Scale + s
           /\ Column(w) \in (x * Scale)..(x * Scale + Scale - 1)
           /\ Row(w) \div Scale = y
           /\ Column(w) \div Scale = x
           /\ w \in Visible
<1> DEFINE r == y * Scale + s
           k == w - r * DisplayWidth
           i == k - x * Scale
<1>0. Height \in Nat /\ Width \in Nat /\ Scale \in Nat \ {0} /\ DisplayWidth \in Nat \ {0}
        /\ MappedWords \in Nat
    BY PresentAssumption
<1>1. r \in 0..(Height * Scale - 1)
    BY InTable, <1>0
<1>2. x * Scale \in Nat /\ Destination(y, s, x) = r * DisplayWidth + x * Scale
    BY <1>0 DEF Destination
<1>3. r * DisplayWidth \in Nat /\ w \in Int
    BY <1>0, <1>1, <1>2
<1>4. i \in 0..(Scale - 1) /\ w = r * DisplayWidth + k /\ k = x * Scale + i
    BY <1>0, <1>2, <1>3
<1>5. k \in 0..(Width * Scale - 1)
    BY <1>0, <1>4, InTable
<1>6. Width * Scale <= DisplayWidth
    BY PresentAssumption
<1>7. Width * Scale \in Nat
    BY <1>0
<1>8. k \in 0..(DisplayWidth - 1)
    BY <1>0, <1>5, <1>6, <1>7
<1> HIDE DEF r, k, i
<1>12. Height * Scale \in Nat /\ r \in Nat /\ x \in Int /\ y \in Int
    BY <1>0, <1>1
<1>9. w \div DisplayWidth = r /\ w % DisplayWidth = k
    <2>1. r \in Int
        BY <1>12
    <2>2. (r * DisplayWidth + k) \div DisplayWidth = r /\ (r * DisplayWidth + k) % DisplayWidth = k
        BY <1>0, <1>8, <2>1, Unique
    <2> QED BY <1>4, <2>2
<1>10. (y * Scale + s) \div Scale = y
    <2>1. y \in Int /\ Scale \in Nat \ {0} /\ s \in 0..(Scale - 1)
        BY <1>0, <1>12
    <2> QED BY <2>1, Unique
<1>11. k \div Scale = x
    <2>1. x \in Int /\ Scale \in Nat \ {0} /\ i \in 0..(Scale - 1)
        BY <1>0, <1>4, <1>12
    <2>2. (x * Scale + i) \div Scale = x
        BY <2>1, Unique
    <2> QED BY <1>4, <2>2
<1>13. r * DisplayWidth + k \in 0..((Height * Scale) * DisplayWidth - 1)
    BY <1>0, <1>1, <1>8, <1>12, InTable
<1>14. (Height * Scale) * DisplayWidth <= MappedWords /\ (Height * Scale) * DisplayWidth \in Nat
    BY PresentAssumption, <1>0, <1>12
<1>15. w \in 0..(MappedWords - 1)
    BY <1>0, <1>3, <1>4, <1>13, <1>14
<1>16. k \in (x * Scale)..(x * Scale + Scale - 1)
    BY <1>0, <1>2, <1>4
<1>17. Row(w) = r /\ Column(w) = k
    BY <1>9 DEF Row, Column
<1>18. r = y * Scale + s
    BY DEF r
<1>19. r < Height * Scale
    BY <1>1, <1>12
<1>20. k < Width * Scale
    BY <1>5, <1>7
<1>21. w \in Visible
    BY <1>15, <1>17, <1>19, <1>20 DEF Visible
<1> QED BY <1>10, <1>11, <1>16, <1>17, <1>18, <1>21

(* Nothing else lies over the pixel in that row.                             *)
LEMMA IndexConverse ==
    ASSUME NEW y \in 0..(Height - 1), NEW s \in 0..(Scale - 1), NEW x \in 0..(Width - 1),
           NEW w \in Nat, Row(w) = y * Scale + s,
           Column(w) \in (x * Scale)..(x * Scale + Scale - 1)
    PROVE  w \in Destination(y, s, x)..(Destination(y, s, x) + Scale - 1)
<1>0. Scale \in Nat \ {0} /\ DisplayWidth \in Nat \ {0}
    BY PresentAssumption
<1> DEFINE r == y * Scale + s
<1>1. r \in Nat /\ x * Scale \in Nat
    BY <1>0
<1>2. w = DisplayWidth * r + Column(w)
    <2>1. w \in Int /\ w = DisplayWidth * (w \div DisplayWidth) + (w % DisplayWidth)
        BY <1>0, QuotientRemainder
    <2> QED BY <2>1 DEF Row, Column
<1>3. DisplayWidth * r = r * DisplayWidth /\ r * DisplayWidth \in Nat
    BY <1>0, <1>1
<1>4. Destination(y, s, x) = r * DisplayWidth + x * Scale
    BY DEF Destination
<1> HIDE DEF r
<1>5. Column(w) \in Int
    BY <1>0, QuotientRemainder DEF Column
<1> QED BY <1>0, <1>1, <1>2, <1>3, <1>4, <1>5

(* What the handler writes is a word, and it is the pixel reversed.          *)
LEMMA PixelReversed ==
    ASSUME NEW rgba \in Nat
    PROVE  Pixel(rgba) \in Nat /\ Reversed(rgba, Pixel(rgba))
<1> DEFINE L == Levels
           red == rgba % L
           green == (rgba \div L) % L
           blue == (rgba \div (L * L)) % L
           bgr == Pixel(rgba)
<1>0. L \in Nat \ {0} /\ L * L \in Nat \ {0} /\ L * L * L \in Nat \ {0}
    BY PresentAssumption
<1>1. red \in 0..(L - 1) /\ green \in 0..(L - 1) /\ blue \in 0..(L - 1)
    BY <1>0, QuotientRemainder
<1>2. bgr = red * L * L + green * L + blue
    BY DEF Pixel
<1>3. Weight[1] = 1 /\ Weight[2] = L /\ Weight[3] = L * L /\ Weight[4] = L * L * L
    BY DEF Weight
<1> HIDE DEF red, green, blue, bgr
<1>4. bgr = (red * L + green) * L + blue /\ red * L + green \in Nat
    BY <1>0, <1>1, <1>2
<1>5. bgr \div L = red * L + green /\ bgr % L = blue
    BY <1>0, <1>1, <1>4, Unique
<1>6. (red * L + green) % L = green
    BY <1>0, <1>1, Unique
<1>7. green * L + blue \in 0..(L * L - 1)
    BY <1>0, <1>1, InTable
<1>8. bgr = red * (L * L) + (green * L + blue)
    BY <1>0, <1>1, <1>2
<1>9. bgr \div (L * L) = red
    BY <1>0, <1>1, <1>7, <1>8, Unique
<1>10. bgr \in 0..(L * (L * L) - 1)
    BY <1>0, <1>1, <1>7, <1>8, InTable
<1>11. bgr \div (L * L * L) = 0
    <2>1. bgr = 0 * (L * L * L) + bgr /\ bgr \in 0..(L * L * L - 1)
        BY <1>0, <1>10
    <2> QED BY <1>0, <2>1, Unique
<1>12. red % L = red /\ 0 % L = 0
    <2>1. red = 0 * L + red /\ 0 = 0 * L + 0 /\ 0 \in 0..(L - 1)
        BY <1>0, <1>1
    <2> QED BY <1>0, <1>1, <2>1, Unique
<1>13. bgr \div 1 = bgr /\ rgba \div 1 = rgba
    BY <1>10
<1>14. Channel(bgr, 0) = blue /\ Channel(rgba, 2) = blue
    BY <1>3, <1>5, <1>13 DEF Channel, blue
<1>15. Channel(bgr, 1) = green /\ Channel(rgba, 1) = green
    BY <1>3, <1>5, <1>6 DEF Channel, green
<1>16. Channel(bgr, 2) = red /\ Channel(rgba, 0) = red
    BY <1>3, <1>9, <1>12, <1>13 DEF Channel, red
<1>17. Channel(bgr, 3) = 0
    BY <1>3, <1>11, <1>12 DEF Channel
<1>18. \A i \in 0..2 : Channel(bgr, i) = Channel(rgba, 2 - i)
    BY <1>14, <1>15, <1>16
<1>19. Pixel(rgba) \in Nat
    BY <1>10 DEF bgr
<1> QED BY <1>17, <1>18, <1>19 DEF Reversed, bgr

-----------------------------------------------------------------------------
(* The inductive invariant.                                                *)

FrameType == [0..(FrameWords - 1) -> Nat]

(* A request that waits has its counters at the start, one that is done has   *)
(* them past the last row.                                                  *)
CounterInv ==
    \A c \in Clients :
        /\ pc[c] = "idle" => source_y[c] = 0 /\ scale_y[c] = 0 /\ source_x[c] = 0
        /\ pc[c] = "done" => source_y[c] = Height /\ scale_y[c] = 0 /\ source_x[c] = 0

(* What a running request presents is a frame that counts as shown.           *)
SourceInv ==
    /\ shown \subseteq FrameType
    /\ \A c \in Clients : pc[c] # "idle" => source[c] \in shown

(* A painter that paints has rows left.                                     *)
PaintInv ==
    /\ probe \in {"start", "map section", "map video"} => painted = 0
    /\ probe = "paint" => painted < DisplayHeight

(* The words that the request of client c has behind it.                     *)
Passed(c, w) ==
    \/ Row(w) < source_y[c] * Scale + scale_y[c]
    \/ Row(w) = source_y[c] * Scale + scale_y[c] /\ Column(w) < source_x[c] * Scale

(* While a request runs alone, what it has behind it shows its frame.         *)
AloneInv ==
    \A c \in Clients : alone[c] /\ pc[c] # "idle" =>
        /\ \A d \in Clients \ {c} : pc[d] = "idle"
        /\ \A w \in Visible : Passed(c, w) => Shows(w, source[c])

IInv ==
    /\ ProbesTypeOK /\ CounterInv /\ SourceInv /\ PaintInv
    /\ EveryWordInItsPlace /\ AloneInv

(* The constants, and the sizes that follow from them.                       *)
LEMMA Sizes ==
    /\ Width \in Nat \ {0} /\ Height \in Nat \ {0} /\ Scale \in Nat \ {0}
    /\ DisplayWidth \in Nat \ {0} /\ MappedWords \in Nat \ {0} /\ Levels \in Nat \ {0}
    /\ FrameWords \in Nat \ {0} /\ DisplayHeight \in Nat \ {0}
    /\ Blank \notin Nat
    /\ PaintedWords \in Nat /\ PaintedWords <= MappedWords
<1>1. /\ Width \in Nat \ {0} /\ Height \in Nat \ {0} /\ Scale \in Nat \ {0}
      /\ DisplayWidth \in Nat \ {0} /\ MappedWords \in Nat \ {0} /\ Levels \in Nat \ {0}
      /\ Blank \notin Nat
    BY PresentAssumption
<1>2. FrameWords \in Nat \ {0} /\ DisplayHeight \in Nat \ {0}
    BY <1>1 DEF FrameWords, DisplayHeight
<1>3. PaintedWords = Height * Scale * DisplayWidth /\ PaintedWords \in Nat
    BY <1>1 DEF PaintedWords, DisplayHeight
<1> QED BY <1>1, <1>2, <1>3, PresentAssumption

(* A gradient is a number.                                                  *)
LEMMA GradientNat ==
    ASSUME NEW i \in Nat, NEW n \in Nat, n > 1
    PROVE  Gradient(i, n, Levels) \in Nat
<1>1. i * (Levels - 1) \in Nat /\ n - 1 \in Nat \ {0}
    BY Sizes
<1> QED BY <1>1, QuotientNat DEF Gradient

(* So is a square of the checker.                                           *)
LEMMA CheckerNat ==
    ASSUME NEW x, NEW y, NEW cell
    PROVE  Checker(x, y, cell) \in Nat
BY ProbesAssumption, Sizes DEF Checker

(* The picture of the test client is a frame.                                *)
LEMMA TestFrameType == TestFrame \in FrameType
<1>1. ASSUME NEW w \in 0..(FrameWords - 1)
      PROVE  LET x == w % Width
                 y == w \div Width
             IN  Gradient(x, Width, Levels) + Levels * (Gradient(y, Height, Levels)
                    + Levels * (Checker(x, y, FrameCell) + Levels * (Levels - 1))) \in Nat
    <2> DEFINE x == w % Width
               y == w \div Width
               green == Gradient(y, Height, Levels)
               red == Gradient(x, Width, Levels)
               blue == Checker(x, y, FrameCell)
    <2>0. w \in Nat
        BY Sizes
    <2>1. x \in Nat /\ y \in Nat
        BY <2>0, Sizes, QuotientNat
    <2>2. red \in Nat /\ green \in Nat
        BY <2>1, Sizes, ProbesAssumption, GradientNat
    <2>3. blue \in Nat
        BY CheckerNat
    <2> HIDE DEF x, y, green, red, blue
    <2>4. Levels \in Nat /\ Levels - 1 \in Nat
        BY Sizes
    <2>5. Levels * (Levels - 1) \in Nat
        BY <2>4
    <2>6. Levels * (blue + Levels * (Levels - 1)) \in Nat
        BY <2>3, <2>4, <2>5
    <2>7. red + Levels * (green + Levels * (blue + Levels * (Levels - 1))) \in Nat
        BY <2>2, <2>4, <2>6
    <2> QED BY <2>7 DEF x, y, green, red, blue
<1> QED BY <1>1 DEF TestFrame, FrameType

(* What a painter writes is a word.                                         *)
LEMMA TestWordNat ==
    ASSUME NEW x \in Nat, NEW y \in Nat
    PROVE  TestWord(x, y) \in Nat
<1>1. DisplayHeight > 1
    <2>1. Height * Scale >= Height * 1
        BY Sizes
    <2> QED BY <2>1, Sizes, ProbesAssumption DEF DisplayHeight
<1>2. DisplayWidth > 1
    <2>1. Width * Scale >= Width * 1
        BY Sizes
    <2> QED BY <2>1, Sizes, ProbesAssumption, PresentAssumption
<1>3. Gradient(y, DisplayHeight, Levels) \in Nat /\ Gradient(x, DisplayWidth, Levels) \in Nat
    BY <1>1, <1>2, Sizes, GradientNat
<1>4. Checker(x, y, DisplayCell) \in Nat
    BY CheckerNat
<1>5. ASSUME NEW a \in Nat, NEW b \in Nat, NEW c \in Nat
      PROVE  a + Levels * (b + Levels * c) \in Nat
    BY Sizes
<1> QED BY <1>3, <1>4, <1>5 DEF TestWord

(* A word that shows its pixel goes on to do so while nobody writes it.       *)
LEMMA PlaceKept ==
    ASSUME EveryWordInItsPlace, UNCHANGED <<FrameBuffer, painted>>, shown \subseteq shown'
    PROVE  EveryWordInItsPlace'
BY DEF EveryWordInItsPlace, FromItsPixel, Shows

-----------------------------------------------------------------------------
(* The steps.                                                              *)

(* Nobody has drawn anything yet.                                            *)
LEMMA InitInv == ProbesInit => IInv
<1> SUFFICES ASSUME ProbesInit PROVE IInv
    OBVIOUS
<1> USE DEF ProbesInit, Init
<1>1. ProbesTypeOK
    BY Sizes DEF ProbesTypeOK, TypeOK
<1>2. EveryWordInItsPlace
    BY DEF EveryWordInItsPlace
<1>3. CounterInv /\ SourceInv /\ PaintInv /\ AloneInv
    BY Sizes DEF CounterInv, SourceInv, PaintInv, AloneInv
<1> QED BY <1>1, <1>2, <1>3 DEF IInv

(* A request is made, or refused: what is copied is the whole frame.          *)
LEMMA PresentStep ==
    ASSUME IInv, NEW c \in Clients, NEW frame \in FrameType, NEW length \in Nat,
           PresentFrame(c, frame, length),
           tester' \in {"start", "asleep", "ended"}, UNCHANGED <<probe, granted, painted>>
    PROVE  IInv'
<1>0. ProbesTypeOK /\ TypeOK /\ CounterInv /\ SourceInv /\ PaintInv /\ EveryWordInItsPlace
        /\ AloneInv
    BY DEF IInv, ProbesTypeOK
<1>1. pc[c] = "idle" /\ UNCHANGED <<FrameBuffer, source_y, scale_y, source_x>>
    BY DEF PresentFrame, counters
<1>2. CASE length < FrameWords
    <2>1. UNCHANGED <<source, shown, pc, alone>>
        BY <1>2 DEF PresentFrame
    <2>2. ProbesTypeOK'
        BY <1>0, <1>1, <2>1 DEF ProbesTypeOK, TypeOK
    <2>3. CounterInv' /\ SourceInv' /\ PaintInv'
        BY <1>0, <1>1, <2>1 DEF CounterInv, SourceInv, PaintInv
    <2>4. AloneInv'
        BY <1>0, <1>1, <2>1 DEF AloneInv, Passed, Shows
    <2>5. EveryWordInItsPlace'
        BY <1>0, <1>1, <2>1, PlaceKept
    <2> QED BY <2>2, <2>3, <2>4, <2>5 DEF IInv
<1>3. CASE ~(length < FrameWords)
    <2>1. [w \in {v \in DOMAIN frame : v < length} |-> frame[w]] = frame
        <3>1. DOMAIN frame = 0..(FrameWords - 1)
            BY DEF FrameType
        <3>2. {v \in DOMAIN frame : v < length} = DOMAIN frame
            BY <1>3, <3>1, Sizes
        <3> QED BY <3>2 DEF FrameType
    <2>2. /\ source' = [source EXCEPT ![c] = frame]
          /\ shown' = shown \cup {frame}
          /\ pc' = [pc EXCEPT ![c] = "copy"]
          /\ alone' = [d \in Clients |-> d = c /\ \A e \in Clients : pc[e] = "idle"]
        BY <1>3, <2>1 DEF PresentFrame
    <2>3. pc' \in [Clients -> {"idle", "copy", "done"}] /\ DOMAIN source' = Clients
            /\ alone' \in [Clients -> BOOLEAN]
        BY <1>0, <2>2 DEF TypeOK
    <2>4. \A d \in Clients :
            pc'[d] = "copy" => source_y[d] < Height /\ DOMAIN source'[d] = 0..(FrameWords - 1)
        BY <1>0, <1>1, <2>2, Sizes DEF TypeOK, CounterInv, FrameType
    <2>5. ProbesTypeOK'
        BY <1>0, <1>1, <2>3, <2>4 DEF ProbesTypeOK, TypeOK
    <2>6. CounterInv' /\ PaintInv'
        BY <1>0, <1>1, <2>2 DEF CounterInv, PaintInv, TypeOK
    <2>7. SourceInv'
        BY <1>0, <1>1, <2>2 DEF SourceInv, TypeOK
    <2>8. AloneInv'
        <3> SUFFICES ASSUME NEW d \in Clients, alone'[d], pc'[d] # "idle"
                     PROVE  /\ \A e \in Clients \ {d} : pc'[e] = "idle"
                            /\ \A w \in Visible : ~Passed(d, w)'
            BY DEF AloneInv
        <3>1. d = c /\ \A e \in Clients : pc[e] = "idle"
            BY <2>2
        <3>2. \A e \in Clients \ {d} : pc'[e] = "idle"
            BY <1>0, <2>2, <3>1 DEF TypeOK
        <3>3. source_y'[d] = 0 /\ scale_y'[d] = 0 /\ source_x'[d] = 0
            BY <1>0, <1>1, <3>1 DEF CounterInv
        <3>4. ASSUME NEW w \in Visible PROVE ~Passed(d, w)'
            <4>1. w \in Nat
                BY Sizes DEF Visible
            <4>2. Row(w) \in Nat /\ Column(w) \in Nat
                BY <4>1, Sizes, QuotientNat DEF Row, Column
            <4>3. 0 * Scale = 0 /\ 0 * Scale + 0 = 0
                BY Sizes
            <4> QED BY <3>3, <4>2, <4>3 DEF Passed
        <3> QED BY <3>2, <3>4
    <2>9. EveryWordInItsPlace'
        BY <1>0, <1>1, <2>2, PlaceKept
    <2> QED BY <2>5, <2>6, <2>7, <2>8, <2>9 DEF IInv
<1> QED BY <1>2, <1>3

(* One turn of the innermost loop: Scale words get the pixel they lie over,   *)
(* and no other word changes.                                               *)
LEMMA CopyEffect ==
    ASSUME IInv, NEW c \in Clients, CopyPixel(c)
    PROVE  LET y == source_y[c]
               s == scale_y[c]
               x == source_x[c]
               first == Destination(y, s, x)
               pixel == Pixel(source[c][y * Width + x])
           IN  /\ y \in 0..(Height - 1) /\ s \in 0..(Scale - 1) /\ x \in 0..(Width - 1)
               /\ source[c] \in shown
               /\ source[c][y * Width + x] \in Nat
               /\ \A w \in 0..(MappedWords - 1) : FrameBuffer'[w] =
                    IF w \in first..(first + Scale - 1) THEN pixel ELSE FrameBuffer[w]
               /\ DOMAIN FrameBuffer' = 0..(MappedWords - 1)
<1>0. TypeOK /\ SourceInv
    BY DEF IInv, ProbesTypeOK
<1>1. pc[c] = "copy" /\ source_x[c] < Width
    BY DEF CopyPixel
<1>2. source_y[c] \in 0..(Height - 1) /\ scale_y[c] \in 0..(Scale - 1)
        /\ source_x[c] \in 0..(Width - 1)
    BY <1>0, <1>1, Sizes DEF TypeOK
<1>3. source[c] \in shown /\ source[c] \in FrameType
    BY <1>0, <1>1 DEF SourceInv
<1>4. source_y[c] * Width + source_x[c] \in 0..(FrameWords - 1)
    <2>1. FrameWords = Height * Width
        BY Sizes DEF FrameWords
    <2> QED BY <1>2, <2>1, Sizes, InTable
<1>5. source[c][source_y[c] * Width + source_x[c]] \in Nat
    BY <1>3, <1>4 DEF FrameType
<1>6. DOMAIN FrameBuffer = 0..(MappedWords - 1)
    BY <1>0 DEF TypeOK
<1> QED BY <1>2, <1>3, <1>5, <1>6 DEF CopyPixel

(* The words of the turn show the pixel; what was passed before still does.    *)
LEMMA CopyStep ==
    ASSUME IInv, NEW c \in Clients, CopyPixel(c), UNCHANGED probeVars
    PROVE  IInv'
<1> DEFINE y == source_y[c]
           s == scale_y[c]
           x == source_x[c]
           first == Destination(y, s, x)
           pixel == Pixel(source[c][y * Width + x])
<1>0. ProbesTypeOK /\ TypeOK /\ CounterInv /\ SourceInv /\ PaintInv /\ EveryWordInItsPlace
        /\ AloneInv
    BY DEF IInv, ProbesTypeOK
<1>1. UNCHANGED <<pc, source, source_y, scale_y, shown, alone>>
        /\ UNCHANGED <<tester, probe, granted, painted>>
    BY DEF CopyPixel, probeVars
<1>2. /\ y \in 0..(Height - 1) /\ s \in 0..(Scale - 1) /\ x \in 0..(Width - 1)
      /\ source[c] \in shown
      /\ source[c][y * Width + x] \in Nat
      /\ \A w \in 0..(MappedWords - 1) : FrameBuffer'[w] =
            IF w \in first..(first + Scale - 1) THEN pixel ELSE FrameBuffer[w]
    BY CopyEffect
<1>3. source_x' = [source_x EXCEPT ![c] = x + 1] /\ pc[c] = "copy"
    BY DEF CopyPixel
<1>4. pixel \in Nat /\ Reversed(source[c][y * Width + x], pixel)
    BY <1>2, PixelReversed
<1> HIDE DEF pixel, first
<1>5. ProbesTypeOK'
    <2>1. FrameBuffer' \in [0..(MappedWords - 1) -> Nat \cup {Blank}]
        <3>1. FrameBuffer' = [w \in DOMAIN FrameBuffer |->
                IF w \in first..(first + Scale - 1) THEN pixel ELSE FrameBuffer[w]]
            BY DEF CopyPixel, first, pixel
        <3> QED BY <1>0, <1>4, <3>1 DEF TypeOK
    <2>2. source_x' \in [Clients -> 0..Width]
        <3>1. x + 1 \in 0..Width
            BY <1>2, Sizes
        <3> QED BY <1>0, <1>3, <3>1 DEF TypeOK
    <2> QED BY <1>0, <1>1, <2>1, <2>2 DEF ProbesTypeOK, TypeOK
<1>6. CounterInv' /\ SourceInv' /\ PaintInv'
    BY <1>0, <1>1, <1>3 DEF CounterInv, SourceInv, PaintInv, TypeOK
<1>7. ASSUME NEW w \in first..(first + Scale - 1)
      PROVE  w \in Visible /\ Shows(w, source[c])'
    <2>1. /\ Row(w) \div Scale = y /\ Column(w) \div Scale = x /\ w \in Visible
        BY <1>2, <1>7, IndexLemma DEF first
    <2>2. w \in 0..(MappedWords - 1)
        BY <2>1 DEF Visible
    <2>3. FrameBuffer'[w] = pixel
        BY <1>2, <1>7, <2>2
    <2>4. FrameBuffer'[w] # Blank
        BY <1>4, <2>3, Sizes
    <2> QED BY <1>1, <1>4, <2>1, <2>3, <2>4 DEF Shows
<1>8. ASSUME NEW w \in 0..(MappedWords - 1), w \notin first..(first + Scale - 1)
      PROVE  FrameBuffer'[w] = FrameBuffer[w]
    BY <1>2, <1>8
<1>9. EveryWordInItsPlace'
    <2> SUFFICES ASSUME NEW w \in 0..(MappedWords - 1)
                 PROVE  \/ FrameBuffer'[w] = Blank
                        \/ FromItsPixel(w)'
                        \/ Row(w) < painted' /\ FrameBuffer'[w] = TestWord(Column(w), Row(w))
        BY DEF EveryWordInItsPlace
    <2>1. CASE w \in first..(first + Scale - 1)
        BY <1>1, <1>2, <1>7, <2>1 DEF FromItsPixel
    <2>2. CASE w \notin first..(first + Scale - 1)
        BY <1>0, <1>1, <1>8, <2>2 DEF EveryWordInItsPlace, FromItsPixel, Shows
    <2> QED BY <2>1, <2>2
<1>10. AloneInv'
    <2> SUFFICES ASSUME NEW d \in Clients, alone[d], pc[d] # "idle"
                 PROVE  /\ \A e \in Clients \ {d} : pc[e] = "idle"
                        /\ \A w \in Visible : Passed(d, w)' => Shows(w, source[d])'
        BY <1>1 DEF AloneInv
    <2>1. d = c
        BY <1>0, <1>3 DEF AloneInv
    <2>2. /\ \A e \in Clients \ {d} : pc[e] = "idle"
          /\ \A w \in Visible : Passed(c, w) => Shows(w, source[c])
        BY <1>0, <2>1 DEF AloneInv
    <2>3. ASSUME NEW w \in Visible, Passed(c, w)', w \notin first..(first + Scale - 1)
          PROVE  Passed(c, w)
        <3>1. w \in Nat
            BY Sizes DEF Visible
        <3>2. Row(w) \in Nat /\ Column(w) \in Nat
            BY <3>1, Sizes, QuotientNat DEF Row, Column
        <3>3. source_x'[c] = x + 1
            BY <1>0, <1>3 DEF TypeOK
        <3>4. \/ Row(w) < y * Scale + s
              \/ Row(w) = y * Scale + s /\ Column(w) < (x + 1) * Scale
            <4>1. source_y'[c] = y /\ scale_y'[c] = s
                BY <1>1
            <4>2. \/ Row(w) < source_y'[c] * Scale + scale_y'[c]
                  \/ /\ Row(w) = source_y'[c] * Scale + scale_y'[c]
                     /\ Column(w) < source_x'[c] * Scale
                BY <2>3 DEF Passed
            <4> QED BY <3>3, <4>1, <4>2
        <3>5. (x + 1) * Scale = x * Scale + Scale /\ x * Scale \in Nat
            BY <1>2, Sizes
        <3>6. Row(w) = y * Scale + s => Column(w) \notin (x * Scale)..(x * Scale + Scale - 1)
            BY <1>2, <2>3, <3>1, IndexConverse DEF first
        <3>7. ASSUME Row(w) = y * Scale + s, Column(w) < (x + 1) * Scale
              PROVE  Column(w) < x * Scale
            <4>1. Column(w) \notin (x * Scale)..(x * Scale + Scale - 1)
                BY <3>6, <3>7
            <4>2. Column(w) < x * Scale + Scale
                BY <3>5, <3>7
            <4> HIDE DEF x
            <4> QED BY <3>2, <3>5, <4>1, <4>2, Sizes
        <3> QED BY <3>4, <3>7 DEF Passed
    <2>4. ASSUME NEW w \in Visible, Passed(c, w)'
          PROVE  Shows(w, source[c])'
        <3>1. CASE w \in first..(first + Scale - 1)
            BY <1>7, <3>1
        <3>2. CASE w \notin first..(first + Scale - 1)
            <4>1. Shows(w, source[c])
                BY <2>2, <2>3, <2>4, <3>2
            <4>2. FrameBuffer'[w] = FrameBuffer[w]
                BY <1>8, <3>2 DEF Visible
            <4> QED BY <1>1, <4>1, <4>2 DEF Shows
        <3> QED BY <3>1, <3>2
    <2> QED BY <2>1, <2>2, <2>4
<1> QED BY <1>5, <1>6, <1>9, <1>10 DEF IInv

(* The end of a row: the counters say the row after it, and what lies over    *)
(* the row that ends is passed.                                             *)
LEMMA NextRowStep ==
    ASSUME IInv, NEW c \in Clients, NextRow(c), UNCHANGED probeVars
    PROVE  IInv'
<1> DEFINE repeat == scale_y[c] + 1 < Scale
<1>0. ProbesTypeOK /\ TypeOK /\ CounterInv /\ SourceInv /\ PaintInv /\ EveryWordInItsPlace
        /\ AloneInv
    BY DEF IInv, ProbesTypeOK
<1>1. UNCHANGED <<FrameBuffer, source, shown, alone>>
        /\ UNCHANGED <<tester, probe, granted, painted>>
    BY DEF NextRow, probeVars
<1>2. /\ pc[c] = "copy" /\ source_x[c] = Width
      /\ source_x' = [source_x EXCEPT ![c] = 0]
      /\ scale_y' = [scale_y EXCEPT ![c] = IF repeat THEN @ + 1 ELSE 0]
      /\ source_y' = [source_y EXCEPT ![c] = IF repeat THEN @ ELSE @ + 1]
      /\ pc' = [pc EXCEPT ![c] = IF ~repeat /\ source_y[c] + 1 = Height THEN "done" ELSE "copy"]
    BY DEF NextRow
<1>3. source_y[c] \in 0..(Height - 1) /\ scale_y[c] \in 0..(Scale - 1)
    BY <1>0, <1>2, Sizes DEF TypeOK
<1>4. /\ source_x'[c] = 0
      /\ scale_y'[c] = (IF repeat THEN scale_y[c] + 1 ELSE 0)
      /\ source_y'[c] = (IF repeat THEN source_y[c] ELSE source_y[c] + 1)
      /\ pc'[c] = (IF ~repeat /\ source_y[c] + 1 = Height THEN "done" ELSE "copy")
    BY <1>0, <1>2 DEF TypeOK
<1>5. \A d \in Clients \ {c} : /\ source_x'[d] = source_x[d] /\ scale_y'[d] = scale_y[d]
                               /\ source_y'[d] = source_y[d] /\ pc'[d] = pc[d]
    BY <1>0, <1>2 DEF TypeOK
<1>6. ProbesTypeOK'
    <2>1. source_x' \in [Clients -> 0..Width] /\ scale_y' \in [Clients -> 0..(Scale - 1)]
            /\ source_y' \in [Clients -> 0..Height]
        BY <1>0, <1>2, <1>3, Sizes DEF TypeOK
    <2>2. pc' \in [Clients -> {"idle", "copy", "done"}]
        BY <1>0, <1>2 DEF TypeOK
    <2>3. \A d \in Clients :
            pc'[d] = "copy" => source_y'[d] < Height /\ DOMAIN source[d] = 0..(FrameWords - 1)
        BY <1>0, <1>2, <1>3, <1>4, <1>5, Sizes DEF TypeOK
    <2> QED BY <1>0, <1>1, <2>1, <2>2, <2>3 DEF ProbesTypeOK, TypeOK
<1>7. CounterInv'
    BY <1>0, <1>3, <1>4, <1>5, Sizes DEF CounterInv
<1>8. SourceInv' /\ PaintInv'
    BY <1>0, <1>1, <1>2, <1>5 DEF SourceInv, PaintInv
<1>9. EveryWordInItsPlace'
    BY <1>0, <1>1, PlaceKept
<1>10. AloneInv'
    <2> SUFFICES ASSUME NEW d \in Clients, alone[d], pc'[d] # "idle"
                 PROVE  /\ \A e \in Clients \ {d} : pc'[e] = "idle"
                        /\ \A w \in Visible : Passed(d, w)' => Shows(w, source[d])
        BY <1>1 DEF AloneInv, Shows
    <2>1. pc[d] # "idle"
        BY <1>2, <1>5
    <2>2. d = c
        BY <1>0, <1>2, <2>1 DEF AloneInv
    <2>3. \A e \in Clients \ {d} : pc[e] = "idle"
        BY <1>0, <2>1 DEF AloneInv
    <2>4. source_y'[c] * Scale + scale_y'[c] = (source_y[c] * Scale + scale_y[c]) + 1
        <3>1. CASE repeat
            BY <1>3, <1>4, <3>1, Sizes
        <3>2. CASE ~repeat
            <4>1. scale_y[c] + 1 = Scale
                BY <1>3, <3>2, Sizes
            <4>2. (source_y[c] + 1) * Scale = source_y[c] * Scale + Scale
                    /\ source_y[c] * Scale \in Nat
                BY <1>3, Sizes
            <4> QED BY <1>3, <1>4, <3>2, <4>1, <4>2, Sizes
        <3> QED BY <3>1, <3>2
    <2>5. ASSUME NEW w \in Visible, Passed(c, w)'
          PROVE  Passed(c, w)
        <3>1. w \in Nat /\ Column(w) < Width * Scale
            BY Sizes DEF Visible
        <3>2. Row(w) \in Nat /\ Column(w) \in Nat
            BY <3>1, Sizes, QuotientNat DEF Row, Column
        <3>3. source_y[c] * Scale + scale_y[c] \in Nat
            BY <1>3, Sizes
        <3>4. \/ Row(w) < (source_y[c] * Scale + scale_y[c]) + 1
              \/ Column(w) < 0 * Scale
            BY <1>4, <2>4, <2>5 DEF Passed
        <3>5. 0 * Scale = 0
            BY Sizes
        <3>6. \/ Row(w) < source_y[c] * Scale + scale_y[c]
              \/ Row(w) = source_y[c] * Scale + scale_y[c]
            BY <3>2, <3>3, <3>4, <3>5
        <3> QED BY <1>2, <3>1, <3>6 DEF Passed
    <2> QED BY <1>0, <1>5, <2>1, <2>2, <2>3, <2>5 DEF AloneInv
<1> QED BY <1>6, <1>7, <1>8, <1>9, <1>10 DEF IInv

(* The request is completed: it waits again, with its counters at the start.  *)
LEMMA CompleteStep ==
    ASSUME IInv, NEW c \in Clients, Complete(c), UNCHANGED probeVars
    PROVE  IInv'
<1>0. ProbesTypeOK /\ TypeOK /\ CounterInv /\ SourceInv /\ PaintInv /\ EveryWordInItsPlace
        /\ AloneInv
    BY DEF IInv, ProbesTypeOK
<1>1. /\ pc[c] = "done"
      /\ pc' = [pc EXCEPT ![c] = "idle"]
      /\ source' = [source EXCEPT ![c] = <<>>]
      /\ source_y' = [source_y EXCEPT ![c] = 0]
      /\ scale_y' = [scale_y EXCEPT ![c] = 0]
      /\ alone' = [alone EXCEPT ![c] = FALSE]
      /\ UNCHANGED <<FrameBuffer, source_x, shown, tester, probe, granted, painted>>
    BY DEF Complete, probeVars
<1>2. ProbesTypeOK'
    <2>1. source_y' \in [Clients -> 0..Height] /\ scale_y' \in [Clients -> 0..(Scale - 1)]
            /\ pc' \in [Clients -> {"idle", "copy", "done"}]
            /\ alone' \in [Clients -> BOOLEAN] /\ DOMAIN source' = Clients
        BY <1>0, <1>1, Sizes DEF TypeOK
    <2>2. \A d \in Clients :
            pc'[d] = "copy" => source_y'[d] < Height /\ DOMAIN source'[d] = 0..(FrameWords - 1)
        BY <1>0, <1>1 DEF TypeOK
    <2> QED BY <1>0, <1>1, <2>1, <2>2 DEF ProbesTypeOK, TypeOK
<1>3. CounterInv' /\ SourceInv' /\ PaintInv'
    BY <1>0, <1>1 DEF CounterInv, SourceInv, PaintInv, TypeOK
<1>4. EveryWordInItsPlace'
    BY <1>0, <1>1, PlaceKept
<1>5. AloneInv'
    <2>1. \A d \in Clients : pc'[d] # "idle" => d # c
        BY <1>0, <1>1 DEF TypeOK
    <2>2. ASSUME NEW d \in Clients, d # c
          PROVE  /\ pc'[d] = pc[d] /\ source'[d] = source[d] /\ alone'[d] = alone[d]
                 /\ source_y'[d] = source_y[d] /\ scale_y'[d] = scale_y[d]
        BY <1>0, <1>1, <2>2 DEF TypeOK
    <2>3. ASSUME NEW d \in Clients, alone'[d], pc'[d] # "idle"
          PROVE  FALSE
        BY <1>0, <1>1, <2>1, <2>2, <2>3 DEF AloneInv
    <2> QED BY <2>3 DEF AloneInv
<1> QED BY <1>2, <1>3, <1>4, <1>5 DEF IInv

(* A row is painted: its words are those of the test picture.                 *)
LEMMA PaintStep ==
    ASSUME IInv, Paint
    PROVE  IInv'
<1>0. ProbesTypeOK /\ TypeOK /\ CounterInv /\ SourceInv /\ PaintInv /\ EveryWordInItsPlace
        /\ AloneInv
    BY DEF IInv, ProbesTypeOK
<1>1. /\ probe = "paint"
      /\ FrameBuffer' = [w \in DOMAIN FrameBuffer |->
            IF Row(w) = painted THEN TestWord(Column(w), Row(w)) ELSE FrameBuffer[w]]
      /\ painted' = painted + 1
      /\ probe' = (IF painted + 1 = DisplayHeight THEN "asleep" ELSE "paint")
      /\ alone' = [c \in Clients |-> FALSE]
      /\ UNCHANGED <<pc, source, source_y, scale_y, source_x, shown, tester, granted>>
    BY DEF Paint, counters
<1>2. painted \in 0..(DisplayHeight - 1)
    BY <1>0, <1>1, Sizes DEF ProbesTypeOK, PaintInv
<1>3. ASSUME NEW w \in 0..(MappedWords - 1)
      PROVE  Row(w) \in Nat /\ TestWord(Column(w), Row(w)) \in Nat
    <2>1. w \in Nat
        BY Sizes
    <2>2. Row(w) \in Nat /\ Column(w) \in Nat
        BY <2>1, Sizes, QuotientNat DEF Row, Column
    <2> QED BY <2>2, TestWordNat
<1>4. FrameBuffer' \in [0..(MappedWords - 1) -> Nat \cup {Blank}]
    BY <1>0, <1>1, <1>3 DEF TypeOK
<1>5. alone' \in [Clients -> BOOLEAN]
    BY <1>1
<1>6. TypeOK'
    BY <1>0, <1>1, <1>4, <1>5 DEF TypeOK
<1>7. ProbesTypeOK' /\ PaintInv'
    BY <1>0, <1>1, <1>2, <1>6, Sizes DEF ProbesTypeOK, PaintInv
<1>8. CounterInv' /\ SourceInv' /\ AloneInv'
    BY <1>0, <1>1 DEF CounterInv, SourceInv, AloneInv
<1>9. EveryWordInItsPlace'
    <2> SUFFICES ASSUME NEW w \in 0..(MappedWords - 1)
                 PROVE  \/ FrameBuffer'[w] = Blank
                        \/ FromItsPixel(w)'
                        \/ Row(w) < painted' /\ FrameBuffer'[w] = TestWord(Column(w), Row(w))
        BY DEF EveryWordInItsPlace
    <2>1. FrameBuffer'[w] =
            IF Row(w) = painted THEN TestWord(Column(w), Row(w)) ELSE FrameBuffer[w]
        BY <1>0, <1>1 DEF TypeOK
    <2>2. CASE Row(w) = painted
        BY <1>1, <1>2, <2>1, <2>2
    <2>3. CASE Row(w) # painted
        <3>1. FrameBuffer'[w] = FrameBuffer[w]
            BY <2>1, <2>3
        <3>2. Row(w) < painted => Row(w) < painted'
            BY <1>1, <1>2, <1>3
        <3>3. \/ FrameBuffer[w] = Blank \/ FromItsPixel(w)
              \/ Row(w) < painted /\ FrameBuffer[w] = TestWord(Column(w), Row(w))
            BY <1>0 DEF EveryWordInItsPlace
        <3>4. FromItsPixel(w) => FromItsPixel(w)'
            BY <1>1, <3>1 DEF FromItsPixel, Shows
        <3> QED BY <3>1, <3>2, <3>3, <3>4
    <2> QED BY <2>2, <2>3
<1> QED BY <1>6, <1>7, <1>8, <1>9 DEF IInv

(* A painter begins, or does not: it starts with the first row, in memory      *)
(* that has all of them.                                                    *)
LEMMA MapStep ==
    ASSUME IInv, OpenProbe \/ MapSection \/ MapVideo
    PROVE  IInv'
<1>0. ProbesTypeOK /\ TypeOK /\ CounterInv /\ SourceInv /\ PaintInv /\ EveryWordInItsPlace
        /\ AloneInv
    BY DEF IInv, ProbesTypeOK
<1>1. UNCHANGED <<FrameBuffer, pc, source, source_y, scale_y, source_x, shown, alone>>
        /\ UNCHANGED <<tester, painted>>
    BY DEF OpenProbe, MapSection, MapVideo, vars, counters
<1>2. TypeOK' /\ CounterInv' /\ SourceInv'
    BY <1>0, <1>1 DEF TypeOK, CounterInv, SourceInv
<1>3. AloneInv'
    BY <1>0, <1>1 DEF AloneInv, Passed, Shows
<1>4. EveryWordInItsPlace'
    BY <1>0, <1>1, PlaceKept
<1>5. ProbesTypeOK' /\ PaintInv'
    <2>0. 0 < DisplayHeight
        BY Sizes
    <2>1. CASE OpenProbe
        BY <1>0, <1>1, <1>2, <2>1, Sizes DEF OpenProbe, ProbesTypeOK, PaintInv
    <2>2. CASE MapSection
        <3>1. \/ probe' = "paint" /\ granted' = MappedWords
              \/ probe' = "ended" /\ granted' = granted
            BY <2>2 DEF MapSection
        <3>2. probe = "map section" /\ painted = 0
            BY <1>0, <2>2 DEF MapSection, PaintInv
        <3>3. granted' \in Nat /\ (probe' = "paint" => PaintedWords <= granted')
            BY <1>0, <3>1, Sizes DEF ProbesTypeOK
        <3>4. probe' \in {"paint", "ended"}
            BY <3>1
        <3> QED BY <1>0, <1>1, <1>2, <3>2, <3>3, <3>4, <2>0 DEF ProbesTypeOK, PaintInv
    <2>3. CASE MapVideo
        <3>1. PICK length \in Reported :
                IF length < PaintedWords THEN probe' = "ended" /\ UNCHANGED granted
                ELSE probe' = "paint" /\ granted' = length
            BY <2>3 DEF MapVideo
        <3>2. length \in Nat /\ probe = "map video"
            BY <2>3, ProbesAssumption DEF MapVideo
        <3>3. painted = 0
            BY <1>0, <3>2 DEF PaintInv
        <3>4. granted' \in Nat /\ (probe' = "paint" => PaintedWords <= granted')
            <4>1. CASE length < PaintedWords
                BY <1>0, <3>1, <4>1 DEF ProbesTypeOK
            <4>2. CASE ~(length < PaintedWords)
                <5>1. granted' = length
                    BY <3>1, <4>2
                <5>0. length \in Nat /\ PaintedWords \in Nat
                    BY <3>2, Sizes
                <5>2. PaintedWords <= length
                    BY <4>2, <5>0
                <5> QED BY <3>2, <5>1, <5>2
            <4> QED BY <4>1, <4>2
        <3>5. probe' \in {"paint", "ended"}
            BY <3>1
        <3> QED BY <1>0, <1>1, <1>2, <3>3, <3>4, <3>5, <2>0 DEF ProbesTypeOK, PaintInv
    <2> QED BY <2>1, <2>2, <2>3
<1> QED BY <1>2, <1>3, <1>4, <1>5 DEF IInv

(* Time that passes disturbs nothing.                                        *)
LEMMA StutterStep ==
    ASSUME IInv, UNCHANGED probesVars
    PROVE  IInv'
<1>0. ProbesTypeOK /\ TypeOK /\ CounterInv /\ SourceInv /\ PaintInv /\ EveryWordInItsPlace
        /\ AloneInv
    BY DEF IInv, ProbesTypeOK
<1>1. UNCHANGED <<FrameBuffer, pc, source, source_y, scale_y, source_x, shown, alone>>
        /\ UNCHANGED <<tester, probe, granted, painted>>
    BY DEF probesVars, vars, counters, probeVars
<1>2. TypeOK' /\ CounterInv' /\ SourceInv' /\ PaintInv'
    BY <1>0, <1>1 DEF TypeOK, CounterInv, SourceInv, PaintInv
<1>3. ProbesTypeOK'
    BY <1>0, <1>1, <1>2 DEF ProbesTypeOK
<1>4. AloneInv'
    BY <1>0, <1>1 DEF AloneInv, Passed, Shows
<1>5. EveryWordInItsPlace'
    BY <1>0, <1>1, PlaceKept
<1> QED BY <1>2, <1>3, <1>4, <1>5 DEF IInv

(* Every step keeps the invariant.                                          *)
LEMMA NextInv == IInv /\ [ProbesNext]_probesVars => IInv'
<1> SUFFICES ASSUME IInv, [ProbesNext]_probesVars PROVE IInv'
    OBVIOUS
<1>1. ASSUME NEW c \in Clients \ {Tester}, Present(c), UNCHANGED probeVars
      PROVE  IInv'
    <2>1. PICK frame \in Frames, length \in InputLengths : PresentFrame(c, frame, length)
        BY <1>1 DEF Present
    <2>2. frame \in FrameType /\ length \in Nat
        BY PresentAssumption DEF FrameType
    <2>3. tester' \in {"start", "asleep", "ended"} /\ UNCHANGED <<probe, granted, painted>>
        BY <1>1 DEF probeVars, IInv, ProbesTypeOK
    <2> QED BY <2>1, <2>2, <2>3, PresentStep
<1>2. ASSUME PresentTest PROVE IInv'
    <2>1. CASE tester' = "ended" /\ UNCHANGED vars
        <3>1. UNCHANGED <<FrameBuffer, pc, source, source_y, scale_y, source_x, shown, alone>>
                /\ UNCHANGED <<probe, granted, painted>>
            BY <1>2, <2>1 DEF vars, counters, PresentTest
        <3>2. TypeOK' /\ CounterInv' /\ SourceInv' /\ PaintInv'
            BY <3>1 DEF IInv, ProbesTypeOK, TypeOK, CounterInv, SourceInv, PaintInv
        <3>3. ProbesTypeOK'
            BY <2>1, <3>1, <3>2 DEF IInv, ProbesTypeOK
        <3>4. AloneInv'
            BY <3>1 DEF IInv, AloneInv, Passed, Shows
        <3>5. EveryWordInItsPlace'
            BY <3>1, PlaceKept DEF IInv
        <3> QED BY <3>2, <3>3, <3>4, <3>5 DEF IInv
    <2>2. CASE tester' = "asleep" /\ PresentFrame(Tester, TestFrame, FrameWords)
        BY <1>2, <2>2, PresentStep, TestFrameType, Sizes, ProbesAssumption DEF PresentTest
    <2> QED BY <1>2, <2>1, <2>2 DEF PresentTest
<1>3. ASSUME NEW c \in Clients, HandleRequest(c) PROVE IInv'
    BY <1>3, CopyStep, NextRowStep, CompleteStep DEF HandleRequest, Handle
<1> QED BY <1>1, <1>2, <1>3, MapStep, PaintStep, StutterStep DEF ProbesNext

-----------------------------------------------------------------------------
(* Two pictures of one: the frame of the test client scaled by the driver, and *)
(* what the painters write.                                                 *)

(* Fractions a level apart at most have quotients a level apart at most.       *)
LEMMA QuotientBelow ==
    ASSUME NEW a \in Nat, NEW b \in Nat \ {0}, NEW c \in Nat, NEW d \in Nat \ {0},
           a * d - c * b <= b * d
    PROVE  a \div b - c \div d <= 1
<1> DEFINE p == a \div b
           r == a % b
           q == c \div d
           s == c % d
<1>1. p \in Int /\ r \in 0..(b - 1) /\ a = b * p + r
    BY QuotientRemainder
<1>2. q \in Int /\ s \in 0..(d - 1) /\ c = d * q + s
    BY QuotientRemainder
<1> HIDE DEF p, r, q, s
<1> SUFFICES ASSUME p >= q + 2 PROVE FALSE
    BY <1>1, <1>2 DEF p, q
<1>3. b * d \in Nat \ {0} /\ (b * d) * p \in Int /\ (b * d) * q \in Int
    BY <1>1, <1>2
<1>4. a * d = (b * d) * p + r * d
    BY <1>1
<1>5. c * b = (b * d) * q + s * b
    BY <1>2
<1>6. r * d \in Nat
    BY <1>1
<1>7. s * b < b * d
    <2>1. (s + 1) * b <= d * b
        BY <1>2, Grows
    <2>2. (s + 1) * b = s * b + b /\ d * b = b * d /\ s * b \in Nat
        BY <1>2
    <2> QED BY <1>3, <2>1, <2>2
<1>8. (b * d) * q + 2 * (b * d) <= (b * d) * p
    <2>1. (q + 2) * (b * d) <= p * (b * d)
        BY <1>1, <1>2, <1>3, Grows
    <2>2. (q + 2) * (b * d) = (b * d) * q + 2 * (b * d) /\ p * (b * d) = (b * d) * p
        BY <1>1, <1>2, <1>3
    <2> QED BY <2>1, <2>2
<1>9. s * b \in Nat
    BY <1>2
<1> DEFINE m == b * d
           mp == (b * d) * p
           mq == (b * d) * q
           rd == r * d
           sb == s * b
           ad == a * d
           cb == c * b
<1>10. /\ m \in Nat \ {0} /\ mp \in Int /\ mq \in Int /\ rd \in Nat /\ sb \in Nat
       /\ ad = mp + rd /\ cb = mq + sb /\ sb < m /\ mq + 2 * m <= mp /\ ad - cb <= m
    BY <1>3, <1>4, <1>5, <1>6, <1>7, <1>8, <1>9
<1> HIDE DEF m, mp, mq, rd, sb, ad, cb
<1> QED BY <1>10

(* A gradient of n steps, and the gradient of S times as many in which each of  *)
(* them is repeated S times, are one level apart at most.                    *)
LEMMA NearGradients ==
    ASSUME NEW n \in Nat, n > 1, NEW S \in Nat \ {0}, NEW L \in Nat \ {0},
           (L - 1) * (S - 1) < n * S, NEW i \in 0..(n * S - 1)
    PROVE  Gradient(i \div S, n, L) - Gradient(i, n * S, L) \in -1..1
<1> DEFINE q == i \div S
           r == i % S
           l == L - 1
           b == n - 1
           d == n * S - 1
<1>1. l \in Nat /\ b \in Nat \ {0} /\ n * S \in Nat
    OBVIOUS
<1>2. d \in Nat \ {0}
    <2>1. 1 * n <= S * n
        BY Grows
    <2>2. 1 * n = n /\ S * n = n * S
        OBVIOUS
    <2> QED BY <1>1, <2>1, <2>2
<1>3. i \in Nat /\ q \in Nat /\ r \in 0..(S - 1) /\ i = S * q + r
    <2>1. i \in Nat
        BY <1>1
    <2>2. i \div S \in Nat /\ i % S \in 0..(S - 1) /\ i = S * (i \div S) + (i % S)
        BY <2>1, Divided
    <2> QED BY <2>1, <2>2
<1>4. q \in 0..b
    BY Scaled
<1> HIDE DEF q, r
<1>5. (q * l) * d - (i * l) * b = l * (q * (S - 1) - r * b)
    BY <1>1, <1>3, <1>4, Z3
<1>6. l * (S - 1) <= d /\ l * (S - 1) \in Nat
    BY <1>1
<1>7. l * (q * (S - 1)) <= b * d
    <2>1. q * (l * (S - 1)) <= b * (l * (S - 1))
        BY <1>1, <1>4, <1>6, Grows
    <2>2. (l * (S - 1)) * b <= d * b
        BY <1>1, <1>2, <1>6, Grows
    <2>3. q * (l * (S - 1)) = l * (q * (S - 1))
        BY <1>1, <1>4
    <2>4. b * (l * (S - 1)) = (l * (S - 1)) * b /\ d * b = b * d
        BY <1>1, <1>2, <1>6
    <2>5. q * (l * (S - 1)) \in Int /\ b * (l * (S - 1)) \in Int /\ d * b \in Int
        BY <1>1, <1>2, <1>4, <1>6
    <2> QED BY <2>1, <2>2, <2>3, <2>4, <2>5
<1>8. l * (r * b) <= b * d
    <2>1. r * (l * b) <= (S - 1) * (l * b)
        <3>1. l * b \in Nat
            BY <1>1
        <3> QED BY <1>3, <3>1, Grows
    <2>2. (l * (S - 1)) * b <= d * b
        BY <1>1, <1>2, <1>6, Grows
    <2>3. r * (l * b) = l * (r * b) /\ (S - 1) * (l * b) = (l * (S - 1)) * b
        BY <1>1, <1>3
    <2>4. d * b = b * d
        BY <1>1, <1>2
    <2>5. r * (l * b) \in Int /\ (S - 1) * (l * b) \in Int /\ d * b \in Int
        BY <1>1, <1>2, <1>3
    <2> QED BY <2>1, <2>2, <2>3, <2>4, <2>5
<1>9. /\ l * (q * (S - 1) - r * b) = l * (q * (S - 1)) - l * (r * b)
      /\ l * (q * (S - 1)) \in Nat /\ l * (r * b) \in Nat /\ b * d \in Nat
    <2>1. q * (S - 1) \in Nat /\ r * b \in Nat
        BY <1>1, <1>3, <1>4
    <2> QED BY <1>1, <1>2, <2>1
<1>10. q * l \in Nat /\ i * l \in Nat /\ (q * l) * d \in Nat /\ (i * l) * b \in Nat
    <2>1. q * l \in Nat /\ i * l \in Nat
        BY <1>1, <1>3
    <2> QED BY <1>1, <1>2, <2>1
<1>11. (q * l) * d - (i * l) * b <= b * d
    BY <1>5, <1>7, <1>9, <1>10
<1>12. (i * l) * b - (q * l) * d <= d * b
    <2>1. d * b = b * d
        BY <1>1, <1>2
    <2> QED BY <1>5, <1>8, <1>9, <1>10, <2>1
<1> HIDE DEF l, b, d
<1>13. (q * l) \div b - (i * l) \div d <= 1
    BY <1>1, <1>2, <1>10, <1>11, QuotientBelow
<1>14. (i * l) \div d - (q * l) \div b <= 1
    BY <1>1, <1>2, <1>10, <1>12, QuotientBelow
<1>15. (q * l) \div b \in Int /\ (i * l) \div d \in Int
    BY <1>1, <1>2, <1>10, QuotientNat
<1>16. Gradient(i \div S, n, L) = (q * l) \div b /\ Gradient(i, n * S, L) = (i * l) \div d
    BY DEF Gradient, q, l, b, d
<1> QED BY <1>13, <1>14, <1>15, <1>16

(* A gradient stays among the levels.                                        *)
LEMMA GradientLevel ==
    ASSUME NEW n \in Nat, n > 1, NEW i \in 0..(n - 1)
    PROVE  Gradient(i, n, Levels) \in 0..(Levels - 1)
<1> DEFINE l == Levels - 1
           b == n - 1
<1>1. l \in Nat /\ b \in Nat \ {0} /\ i \in 0..b
    BY Sizes
<1> HIDE DEF l, b
<1>2. i * l \in Nat /\ l * b \in Nat
    BY <1>1
<1>3. i * l <= b * l /\ b * l = l * b
    BY <1>1, Grows
<1> DEFINE q == (i * l) \div b
           r == (i * l) % b
<1>4. q \in Nat /\ r \in 0..(b - 1) /\ i * l = b * q + r
    BY <1>1, <1>2, Divided
<1> HIDE DEF q, r
<1>5. q <= l
    <2> SUFFICES ASSUME q >= l + 1 PROVE FALSE
        BY <1>1, <1>4
    <2>1. (l + 1) * b <= q * b
        BY <1>1, <1>4, Grows
    <2>2. (l + 1) * b = l * b + b /\ q * b = b * q /\ b * q \in Nat
        BY <1>1, <1>4
    <2> QED BY <1>1, <1>2, <1>3, <1>4, <2>1, <2>2
<1>6. Gradient(i, n, Levels) = q
    BY DEF Gradient, q, l, b
<1> QED BY <1>1, <1>4, <1>5, <1>6 DEF l

(* A place lies in the same square at either size.                           *)
LEMMA SameSquare ==
    ASSUME NEW X \in Nat
    PROVE  X \div DisplayCell = (X \div Scale) \div FrameCell
<1> DEFINE q == X \div Scale
           r == X % Scale
           p == q \div FrameCell
           t == q % FrameCell
<1>0. Scale \in Nat \ {0} /\ FrameCell \in Nat \ {0} /\ DisplayCell = FrameCell * Scale
    BY PresentAssumption, ProbesAssumption, PictureAssumption
<1>1. q \in Nat /\ r \in 0..(Scale - 1) /\ X = Scale * q + r
    BY <1>0, Divided
<1> HIDE DEF q, r
<1>2. p \in Nat /\ t \in 0..(FrameCell - 1) /\ q = FrameCell * p + t
    BY <1>0, <1>1, Divided
<1> HIDE DEF p, t
<1>3. t * Scale + r \in 0..(FrameCell * Scale - 1)
    BY <1>0, <1>1, <1>2, InTable
<1>4. X = p * (FrameCell * Scale) + (t * Scale + r)
    BY <1>0, <1>1, <1>2
<1>5. FrameCell * Scale \in Nat \ {0}
    BY <1>0
<1>6. X \div (FrameCell * Scale) = p
    BY <1>2, <1>3, <1>4, <1>5, Unique
<1> QED BY <1>0, <1>6 DEF p, q

(* The channels of a word that is put together from them.                     *)
LEMMA ChannelsOf ==
    ASSUME NEW a \in 0..(Levels - 1), NEW b \in 0..(Levels - 1), NEW c \in 0..(Levels - 1),
           NEW e \in Nat, NEW word, word = a + Levels * (b + Levels * (c + Levels * e))
    PROVE  Channel(word, 0) = a /\ Channel(word, 1) = b /\ Channel(word, 2) = c
<1> DEFINE L == Levels
           u == c + L * e
           v == b + L * u
<1>0. L \in Nat \ {0} /\ L * L \in Nat \ {0}
    BY Sizes
<1>1. u \in Nat /\ u = e * L + c
    BY <1>0
<1> HIDE DEF u
<1>2. v \in Nat /\ v = u * L + b
    BY <1>0, <1>1
<1> HIDE DEF v
<1>3. word = v * L + a /\ word \in Nat
    BY <1>0, <1>1, <1>2 DEF u, v
<1>4. word % L = a /\ word \div L = v
    BY <1>0, <1>2, <1>3, Unique
<1>5. v % L = b
    BY <1>0, <1>1, <1>2, Unique
<1>6. b * L + a \in 0..(L * L - 1)
    BY <1>0, InTable
<1>7. word = u * (L * L) + (b * L + a)
    BY <1>0, <1>1, <1>2, <1>3
<1>8. word \div (L * L) = u
    BY <1>0, <1>1, <1>6, <1>7, Unique
<1>9. u % L = c
    BY <1>0, <1>1, Unique
<1>10. Weight[1] = 1 /\ Weight[2] = L /\ Weight[3] = L * L
    BY DEF Weight
<1>11. word \div 1 = word
    BY <1>3
<1> QED BY <1>4, <1>5, <1>8, <1>9, <1>10, <1>11 DEF Channel

(* What the display shows of the test frame is near what a painter writes.    *)
LEMMA PicturesNear ==
    ASSUME TypeOK, NEW w \in Visible, Shows(w, TestFrame), NEW i \in 0..2
    PROVE  Near(Channel(FrameBuffer[w], i), Channel(TestWord(Column(w), Row(w)), i), i)
<1> DEFINE X == Column(w)
           Y == Row(w)
           x == X \div Scale
           y == Y \div Scale
           p == y * Width + x
           red == Gradient(x, Width, Levels)
           green == Gradient(y, Height, Levels)
           blue == Checker(x, y, FrameCell)
           Red == Gradient(X, DisplayWidth, Levels)
           Green == Gradient(Y, DisplayHeight, Levels)
           Blue == Checker(X, Y, DisplayCell)
<1>0. /\ Width \in Nat \ {0} /\ Height \in Nat \ {0} /\ Scale \in Nat \ {0}
      /\ DisplayWidth = Width * Scale /\ DisplayHeight = Height * Scale
      /\ Width > 1 /\ Height > 1
      /\ Levels \in Nat \ {0}
    BY PresentAssumption, ProbesAssumption, PictureAssumption DEF DisplayHeight
<1>1. w \in Nat /\ X < Width * Scale /\ Y < Height * Scale
    BY Sizes DEF Visible
<1>2. X \in Nat /\ Y \in Nat
    BY <1>1, Sizes, QuotientNat DEF Row, Column
<1>3. X \in 0..(Width * Scale - 1) /\ Y \in 0..(Height * Scale - 1)
    <2>1. Width * Scale \in Nat /\ Height * Scale \in Nat
        BY <1>0
    <2> QED BY <1>1, <1>2, <2>1
<1> HIDE DEF X, Y
<1>4. x \in 0..(Width - 1) /\ y \in 0..(Height - 1)
    BY <1>0, <1>3, Scaled
<1> HIDE DEF x, y
<1>5. p \in 0..(FrameWords - 1)
    <2>1. p \in 0..(Height * Width - 1) /\ Height * Width = Width * Height
        BY <1>0, <1>4, InTable
    <2> QED BY <2>1 DEF FrameWords
<1>6. p \div Width = y /\ p % Width = x
    BY <1>0, <1>4, Unique
<1>7. TestFrame[p] = red + Levels * (green + Levels * (blue + Levels * (Levels - 1)))
    BY <1>5, <1>6 DEF TestFrame
<1>8. TestWord(X, Y) = Blue + Levels * (Green + Levels * Red)
    BY DEF TestWord
<1>9. red \in 0..(Levels - 1) /\ green \in 0..(Levels - 1)
    BY <1>0, <1>4, GradientLevel
<1>10. Red \in 0..(Levels - 1) /\ Green \in 0..(Levels - 1)
    <2>1. Width * Scale \in Nat /\ Height * Scale \in Nat
        BY <1>0
    <2>2. Width * Scale > 1 /\ Height * Scale > 1
        <3>1. 1 * Width <= Scale * Width /\ 1 * Height <= Scale * Height
            BY <1>0, Grows
        <3>2. 1 * Width = Width /\ 1 * Height = Height
                /\ Scale * Width = Width * Scale /\ Scale * Height = Height * Scale
            BY <1>0
        <3> QED BY <1>0, <2>1, <3>1, <3>2
    <2> QED BY <1>0, <1>3, <2>1, <2>2, GradientLevel
<1>11. red - Red \in -1..1
    BY <1>0, <1>3, PictureAssumption, NearGradients DEF x
<1>12. green - Green \in -1..1
    BY <1>0, <1>3, PictureAssumption, NearGradients DEF y
<1>13. blue = Blue /\ blue \in 0..(Levels - 1)
    <2>1. X \div DisplayCell = x \div FrameCell /\ Y \div DisplayCell = y \div FrameCell
        BY <1>2, SameSquare DEF x, y
    <2> QED BY <2>1, ProbesAssumption DEF Checker
<1> HIDE DEF p, red, green, blue, Red, Green, Blue
<1>14. /\ Channel(TestFrame[p], 0) = red /\ Channel(TestFrame[p], 1) = green
       /\ Channel(TestFrame[p], 2) = blue
    <2>1. Levels - 1 \in Nat
        BY <1>0
    <2> QED BY <1>7, <1>9, <1>13, <2>1, ChannelsOf
<1>15. /\ Channel(TestWord(X, Y), 0) = Blue /\ Channel(TestWord(X, Y), 1) = Green
       /\ Channel(TestWord(X, Y), 2) = Red
    <2>1. Red = Red + Levels * 0
        BY <1>0, <1>10
    <2>2. TestWord(X, Y) = Blue + Levels * (Green + Levels * (Red + Levels * 0))
        BY <1>8, <2>1
    <2> QED BY <1>10, <1>13, <2>2, ChannelsOf
<1>16. Reversed(TestFrame[p], FrameBuffer[w])
    BY DEF Shows, p, x, y, X, Y
<1>17. /\ Channel(FrameBuffer[w], 0) = blue /\ Channel(FrameBuffer[w], 1) = green
       /\ Channel(FrameBuffer[w], 2) = red
    <2>1. \A j \in 0..2 : Channel(FrameBuffer[w], j) = Channel(TestFrame[p], 2 - j)
        BY <1>16 DEF Reversed
    <2> QED BY <1>14, <2>1
<1>18. Near(Channel(FrameBuffer[w], i), Channel(TestWord(X, Y), i), i)
    <2>1. CASE i = 0
        BY <1>13, <1>15, <1>17, <2>1 DEF Near
    <2>2. CASE i = 1
        BY <1>12, <1>15, <1>17, <2>2 DEF Near
    <2>3. CASE i = 2
        BY <1>11, <1>15, <1>17, <2>3 DEF Near
    <2> QED BY <2>1, <2>2, <2>3
<1> QED BY <1>18 DEF X, Y

(* The display test presents its own picture and nothing else.                *)
TesterInv == pc[Tester] # "idle" => source[Tester] = TestFrame

(* No other program presents in its name, and a request keeps its frame.     *)
LEMMA TesterNext == IInv /\ TesterInv /\ [ProbesNext]_probesVars => TesterInv'
<1> SUFFICES ASSUME IInv, TesterInv, [ProbesNext]_probesVars PROVE TesterInv'
    OBVIOUS
<1>0. Tester \in Clients /\ DOMAIN source = Clients
        /\ pc \in [Clients -> {"idle", "copy", "done"}]
    BY ProbesAssumption DEF IInv, ProbesTypeOK, TypeOK
<1>1. ASSUME NEW c \in Clients \ {Tester}, Present(c)
      PROVE  TesterInv'
    <2>1. PICK frame \in Frames, length \in InputLengths : PresentFrame(c, frame, length)
        BY <1>1 DEF Present
    <2>2. pc'[Tester] = pc[Tester] /\ source'[Tester] = source[Tester]
        BY <1>0, <2>1 DEF PresentFrame
    <2> QED BY <2>2 DEF TesterInv
<1>2. ASSUME PresentTest PROVE TesterInv'
    <2>1. CASE tester' = "ended" /\ UNCHANGED vars
        BY <2>1 DEF vars, TesterInv
    <2>2. CASE tester' = "asleep" /\ PresentFrame(Tester, TestFrame, FrameWords)
        <3>1. [v \in {u \in DOMAIN TestFrame : u < FrameWords} |-> TestFrame[v]] = TestFrame
            <4>1. DOMAIN TestFrame = 0..(FrameWords - 1) /\ TestFrame \in FrameType
                BY TestFrameType DEF TestFrame
            <4>2. {u \in DOMAIN TestFrame : u < FrameWords} = DOMAIN TestFrame
                BY <4>1, Sizes
            <4> QED BY <4>1, <4>2 DEF FrameType
        <3>2. source' = [source EXCEPT ![Tester] = TestFrame]
            BY <2>2, <3>1, Sizes DEF PresentFrame
        <3> QED BY <1>0, <3>2 DEF TesterInv
    <2> QED BY <1>2, <2>1, <2>2 DEF PresentTest
<1>3. ASSUME NEW c \in Clients, HandleRequest(c) PROVE TesterInv'
    <2>1. CASE CopyPixel(c)
        BY <2>1 DEF CopyPixel, TesterInv
    <2>2. CASE NextRow(c)
        BY <1>0, <2>2 DEF NextRow, TesterInv
    <2>3. CASE Complete(c)
        BY <1>0, <2>3 DEF Complete, TesterInv
    <2> QED BY <1>3, <2>1, <2>2, <2>3 DEF HandleRequest, Handle
<1>4. ASSUME OpenProbe \/ MapSection \/ MapVideo \/ Paint PROVE TesterInv'
    BY <1>4 DEF OpenProbe, MapSection, MapVideo, Paint, vars, TesterInv
<1>5. ASSUME UNCHANGED probesVars PROVE TesterInv'
    BY <1>5 DEF probesVars, vars, TesterInv
<1> QED BY <1>1, <1>2, <1>3, <1>4, <1>5 DEF ProbesNext

-----------------------------------------------------------------------------
(* The theorems.                                                           *)

(* The inductive invariant holds in every reachable state.                    *)
THEOREM Invariance == ProbesSpec => []IInv
BY InitInv, NextInv, PTL DEF ProbesSpec

(* No loop leaves its range, no write leaves the mapping, and a painter has    *)
(* mapped all it paints.                                                     *)
THEOREM TypeCorrect == ProbesSpec => []ProbesTypeOK
<1>1. IInv => ProbesTypeOK
    BY DEF IInv
<1> QED BY <1>1, Invariance, PTL

(* Win0DoomPresent and the painters tear pictures, and never misplace or       *)
(* miscolour a pixel, whoever they interleave with.                           *)
THEOREM PixelsInPlace == ProbesSpec => []EveryWordInItsPlace
<1>1. IInv => EveryWordInItsPlace
    BY DEF IInv
<1> QED BY <1>1, Invariance, PTL

(* A request nobody else's work overlaps leaves the whole picture of its       *)
(* frame: the three loops reach every visible word.                           *)
THEOREM WholeFrame == ProbesSpec => []AloneShowsWholeFrame
<1>1. IInv => AloneShowsWholeFrame
    <2> SUFFICES ASSUME IInv, NEW c \in Clients, pc[c] = "done", alone[c], NEW w \in Visible
                 PROVE  Shows(w, source[c])
        BY DEF AloneShowsWholeFrame
    <2>1. source_y[c] = Height /\ scale_y[c] = 0
        BY DEF IInv, CounterInv
    <2>2. Height * Scale \in Nat
        BY Sizes
    <2>3. Row(w) < Height * Scale + 0
        BY <2>2 DEF Visible
    <2>4. source_y[c] * Scale + scale_y[c] = Height * Scale + 0
        BY <2>1
    <2>5. Row(w) < source_y[c] * Scale + scale_y[c]
        BY <2>3, <2>4
    <2>6. Passed(c, w)
        BY <2>5 DEF Passed
    <2> QED BY <2>6 DEF IInv, AloneInv
<1> QED BY <1>1, Invariance, PTL

(* The picture the display test shows through the driver, when nobody draws     *)
(* over it, is the one the painters write: the driver swaps the channels and   *)
(* scales so that the squares coincide and the gradients round within a level. *)
THEOREM PicturesAgree == ProbesSpec => []TestPicturesAgree
<1>1. ProbesInit => TesterInv
    BY ProbesAssumption DEF ProbesInit, Init, TesterInv
<1>2. ProbesSpec => []TesterInv
    BY <1>1, TesterNext, Invariance, PTL DEF ProbesSpec
<1>3. IInv /\ AloneShowsWholeFrame /\ TesterInv => TestPicturesAgree
    <2> SUFFICES ASSUME IInv, AloneShowsWholeFrame, TesterInv,
                        pc[Tester] = "done", alone[Tester],
                        NEW w \in Visible, NEW i \in 0..2
                 PROVE  Near(Channel(FrameBuffer[w], i),
                             Channel(TestWord(Column(w), Row(w)), i), i)
        BY DEF TestPicturesAgree
    <2>1. Shows(w, TestFrame)
        BY ProbesAssumption DEF AloneShowsWholeFrame, TesterInv
    <2> QED BY <2>1, PicturesNear DEF IInv, ProbesTypeOK
<1> QED BY <1>2, <1>3, Invariance, WholeFrame, PTL

===============================================================================
