------------------------------ MODULE MCNbdAttach ------------------------------
(* Three scripts, for three images, and two nbd devices.                      *)
EXTENDS NbdAttach, TLC

CONSTANTS i1, i2, i3

MCScripts == {i1, i2, i3}

Symmetry == Permutations(MCScripts)
===============================================================================
