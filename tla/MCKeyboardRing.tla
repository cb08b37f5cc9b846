---------------------------- MODULE MCKeyboardRing ----------------------------
(* Two keyboards and a client that opens and polls, around a ring of three   *)
(* slots, which overflows as soon as three records are pending.  The model   *)
(* values are not permuted: liveness is checked in the same run.             *)
EXTENDS KeyboardRing

CONSTANTS k1, k2, c1

MCKeyboards == {k1, k2}
MCClients == {c1}
===============================================================================
