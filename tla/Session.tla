------------------------------ MODULE Session ------------------------------
(***************************************************************************)
(* What a connection promises the client program: each request is executed *)
(* once, as it was sent, and its reply comes back before the next request. *)
(* A client that does not wait for its replies is promised nothing: the    *)
(* protocol of server/SdbServer.hpp has no place for it.                   *)
(***************************************************************************)
EXTENDS Naturals, Sequences

VARIABLES
    eager,      \* the client does not wait for replies
    asked,      \* how many requests it has sent
    served,     \* the requests executed, in order
    heard       \* the executions whose replies the client has, in order

vars == << eager, asked, served, heard >>

Init ==
    /\ eager \in BOOLEAN
    /\ asked = 0
    /\ served = << >>
    /\ heard = << >>

Ask ==
    /\ Len(heard) = asked
    /\ asked' = asked + 1
    /\ UNCHANGED << served, heard >>

Serve ==
    /\ Len(served) < asked
    /\ served' = Append(served, asked)
    /\ UNCHANGED << asked, heard >>

Hear ==
    /\ Len(heard) < Len(served)
    /\ heard' = Append(heard, Len(served))
    /\ UNCHANGED << asked, served >>

Next == UNCHANGED eager /\ (Ask \/ Serve \/ Hear \/ eager)

Spec == Init /\ [][Next]_vars
=============================================================================
