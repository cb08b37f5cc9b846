------------------------------- MODULE ScanCodes -------------------------------
(***************************************************************************)
(* The keyboard translation of native/win0-doom.c: which doom key a scan   *)
(* code is.  A doom key is named by its DOOM_KEY_ constant.                *)
(***************************************************************************)
EXTENDS Integers, Sequences, TLC

UNKNOWN == "UNKNOWN"

Row(first, names) == [code \in first..(first + Len(names) - 1) |-> names[code - first + 1]]

(* The codes that carry KEY_E0. *)
E0Keys ==
    (72 :> "UP_ARROW") @@ (75 :> "LEFT_ARROW") @@ (77 :> "RIGHT_ARROW")
        @@ (80 :> "DOWN_ARROW") @@ (29 :> "CTRL") @@ (56 :> "ALT")

(* All others, those that carry KEY_E1 among them. *)
PlainKeys ==
    Row(1, <<"ESCAPE", "1", "2", "3", "4", "5", "6", "7", "8", "9", "0", "MINUS",
             "EQUALS", "BACKSPACE", "TAB", "Q", "W", "E", "R", "T", "Y", "U", "I", "O",
             "P", "LEFT_BRACKET", "RIGHT_BRACKET", "ENTER", "CTRL", "A", "S", "D", "F",
             "G", "H", "J", "K", "L", "SEMICOLON", "APOSTROPHE">>)
        @@ Row(42, <<"SHIFT">>)
        @@ Row(44, <<"Z", "X", "C", "V", "B", "N", "M", "COMMA", "PERIOD", "SLASH",
                     "SHIFT", "MULTIPLY", "ALT", "SPACE">>)
        @@ Row(59, <<"F1", "F2", "F3", "F4", "F5", "F6", "F7", "F8", "F9">>)

Lookup(table, code) == IF code \in DOMAIN table THEN table[code] ELSE UNKNOWN

(* A physical key is its make code and the prefix flag its records carry.   *)
scan_code_to_doom(key) ==
    Lookup(IF key.prefix = "E0" THEN E0Keys ELSE PlainKeys, key.code)
===============================================================================
