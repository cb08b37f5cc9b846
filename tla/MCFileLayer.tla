------------------------------ MODULE MCFileLayer ------------------------------
(* Two volumes, the wad and a file of settings, and up to two files open.     *)
EXTENDS FileLayer, TLC

CONSTANTS f1, f2, wad, settings

MCFiles == {f1, f2}
MCNames == {wad, settings}
MCOffsets == {-1, 0, 1}

Symmetry == Permutations(MCFiles)
===============================================================================
