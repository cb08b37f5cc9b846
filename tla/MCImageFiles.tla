----------------------------- MODULE MCImageFiles -----------------------------
(* Two runs of scripts, of any kind each, around one target. *)
EXTENDS WindowsBuilder, TLC

CONSTANTS p1, p2

MCScripts == {p1, p2}

Symmetry == Permutations(MCScripts)
===============================================================================
