---------------------------- MODULE MCFilterDriver ----------------------------
(* Two keyboard stacks, which come and go while the driver is loaded.        *)
EXTENDS FilterDriver

CONSTANTS s1, s2

MCStacks == {s1, s2}
===============================================================================
