--------------------------- MODULE MCStringObject ---------------------------
(***************************************************************************)
(* An instance of StringObject for TLC: binary digits, and every text of   *)
(* up to four characters, of which set looks at the first three lengths.   *)
(***************************************************************************)
EXTENDS StringObject

MCInputs == UNION {[1 .. n -> {0, 1, Minus, Letter}] : n \in 1 .. 4}
MCBounds == -3 .. 6
=============================================================================
