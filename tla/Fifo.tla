-------------------------------- MODULE Fifo --------------------------------
(***************************************************************************)
(* What a list object promises: values come out in the order they went in, *)
(* and a walk over them shows them all.                                    *)
(***************************************************************************)
EXTENDS Naturals, Sequences

CONSTANT Values

VARIABLES
    q,          \* the values of the list, the oldest first
    reply       \* the values the last command has printed

vars == << q, reply >>

Init == q = << >> /\ reply = << >>

Push(v) == q' = Append(q, v) /\ reply' = << >>
Pop == q # << >> /\ q' = Tail(q) /\ reply' = << Head(q) >>
Show == q' = q /\ reply' = q
Clear == q' = << >> /\ reply' = << >>
Hush == q' = q /\ reply' = << >>

Next == (\E v \in Values : Push(v)) \/ Pop \/ Show \/ Clear \/ Hush

Spec == Init /\ [][Next]_vars
=============================================================================
