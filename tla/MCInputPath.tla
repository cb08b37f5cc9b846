------------------------------ MODULE MCInputPath ------------------------------
(* Two keyboards with Enter, or one with Enter and the left shift key, and a  *)
(* ring of two records.                                                      *)
EXTENDS InputPath

CONSTANTS b1, b2

MCKeyboards == {b1, b2}
MCOneKeyboard == {b1}
MCEnter == [code |-> 28, prefix |-> "none"]
MCEnterOnly == {MCEnter}
MCEnterAndShift == {MCEnter, [code |-> 42, prefix |-> "none"]}
===============================================================================
