----------------------------- MODULE LinkedList -----------------------------
(***************************************************************************)
(* The list of a list object (core/List.hpp): a chain of nodes, each owned *)
(* by the one before it, with pointers to both ends.  Nothing ever sets    *)
(* pre, so no node has two owners but the last, which tail owns too.       *)
(*                                                                         *)
(* A list object is used (core/SDBObject.hpp: push, pop, llen, print) and  *)
(* at last destroyed, by del or because its key has expired.  print walks  *)
(* the chain; destroying the first node destroys the next inside its own   *)
(* destructor, so that each takes room on the stack.                       *)
(***************************************************************************)
EXTENDS Integers, Sequences, FiniteSets

CONSTANTS
    Values,     \* what clients push
    Nodes,      \* memory for nodes
    Nil,        \* the null pointer
    Frames      \* how many destructors inside one another the stack holds

ASSUME NodesAssumption == IsFiniteSet(Nodes) /\ Nil \notin Nodes
ASSUME FramesAssumption == Frames \in Nat \ {0}

VARIABLES
    data, next,     \* the members of the nodes
    head, tail, length,
    phase,          \* idle, or inside print or the destructor
    temp,           \* print's pointer, or the node being destroyed
    out,            \* what the last command printed
    depth,          \* destructors that have not returned
    fate            \* whether the process runs, or what ended it

list == << data, next, head, tail, length >>
walk == << phase, temp, depth >>
vars == << list, walk, out, fate >>

Pointers == Nodes \cup {Nil}

(* Pointers point to nodes or nowhere. *)
ListTypeOK ==
    /\ data \in [Nodes -> Values \cup {Nil}]
    /\ next \in [Nodes -> Pointers]
    /\ {head, tail, temp} \subseteq Pointers
    /\ length \in 0 .. Cardinality(Nodes)
    /\ phase \in {"idle", "print", "destroy"}
    /\ out \in Seq(Values)
    /\ depth \in 0 .. Frames
    /\ fate \in {"up", "nullpointer", "stackoverflow"}

AllNil == [n \in Nodes |-> Nil]

Init ==
    /\ data = AllNil /\ next = AllNil
    /\ head = Nil /\ tail = Nil /\ length = 0
    /\ phase = "idle" /\ temp = Nil /\ depth = 0
    /\ out = << >>
    /\ fate = "up"

(* The i-th node from the head. *)
Nth[i \in 1 .. Cardinality(Nodes) + 1] ==
    IF i = 1 THEN head ELSE IF Nth[i - 1] = Nil THEN Nil ELSE next[Nth[i - 1]]

(* The nodes that a pointer keeps in memory. *)
Owned == ({Nth[i] : i \in DOMAIN Nth} \cup {tail}) \ {Nil}

Idle == fate = "up" /\ phase = "idle"
-----------------------------------------------------------------------------
(* make_shared *)
NewNode == CHOOSE n \in Nodes \ Owned : TRUE

push(v) ==
    /\ Idle /\ Owned # Nodes
    /\ LET n == NewNode IN
       /\ IF head = Nil
          THEN head' = n /\ next' = [next EXCEPT ![n] = Nil]
          ELSE UNCHANGED head /\ next' = [next EXCEPT ![tail] = n, ![n] = Nil]
       /\ tail' = n
       /\ data' = [data EXCEPT ![n] = v]
    /\ length' = length + 1
    /\ out' = << >>
    /\ UNCHANGED << walk, fate >>

(* Bug: the links are cut before the head has moved on. *)
cutsFirst ==
    /\ next' = [next EXCEPT ![head] = Nil]
    /\ head' = Nil
    /\ tail' = IF length = 1 THEN Nil ELSE tail
    /\ length' = length - 1

(* Bug: tail stays behind at a node that has been popped. *)
tailStays ==
    /\ head' = next[head]
    /\ next' = [next EXCEPT ![head] = Nil]
    /\ length' = length - 1
    /\ UNCHANGED tail

Unlink ==
    /\ head' = next[head]
    /\ length' = length - 1
    /\ IF length' = 0 THEN tail' = head' /\ UNCHANGED next
       ELSE next' = [next EXCEPT ![head] = Nil] /\ UNCHANGED tail

(* SDBObject::pop prints through the null pointer an empty list returns. *)
pop ==
    /\ Idle
    /\ IF length = 0
       THEN fate' = "nullpointer" /\ UNCHANGED << list, out >>
       ELSE /\ Unlink
            /\ out' = << data[head] >>
            /\ UNCHANGED << data, fate >>
    /\ UNCHANGED walk

print ==
    /\ Idle
    /\ phase' = "print" /\ temp' = head /\ out' = << >>
    /\ UNCHANGED << list, depth, fate >>

printStalls == fate = "up" /\ phase = "print" /\ temp # Nil /\ UNCHANGED vars  \* bug

printNode ==
    /\ fate = "up" /\ phase = "print"
    /\ IF temp = Nil
       THEN phase' = "idle" /\ UNCHANGED << temp, out >>
       ELSE temp' = next[temp] /\ out' = Append(out, data[temp]) /\ UNCHANGED phase
    /\ UNCHANGED << list, depth, fate >>

(* SDBObject::free deletes the list, tail first. *)
destroy ==
    /\ Idle
    /\ phase' = "destroy" /\ temp' = head /\ tail' = Nil /\ out' = << >>
    /\ UNCHANGED << data, next, head, length, depth, fate >>

(* One more destructor inside the others, or back out of them all. *)
destroyNode ==
    /\ fate = "up" /\ phase = "destroy"
    /\ IF temp = Nil
       THEN /\ data' = AllNil /\ next' = AllNil
            /\ head' = Nil /\ length' = 0
            /\ phase' = "idle" /\ depth' = 0
            /\ UNCHANGED << tail, temp, fate >>
       ELSE /\ IF depth = Frames
               THEN fate' = "stackoverflow" /\ UNCHANGED << depth, temp >>
               ELSE depth' = depth + 1 /\ temp' = next[temp] /\ UNCHANGED fate
            /\ UNCHANGED << list, phase >>
    /\ UNCHANGED out

Next ==
    \/ \E v \in Values : push(v)
    \/ pop
    \/ print \/ printNode
    \/ destroy \/ destroyNode

Spec == Init /\ [][Next]_vars /\ WF_vars(printNode) /\ WF_vars(destroyNode)
-----------------------------------------------------------------------------
(* Head, tail and length agree: following next from the head takes length    *)
(* nodes, the last of them tail, and nothing that was popped hangs on them   *)
(* (List::push and pop).                                                     *)
EndsAgree ==
    phase # "destroy" =>
        /\ length = Cardinality({i \in DOMAIN Nth : Nth[i] # Nil})
        /\ tail = IF length = 0 THEN Nil ELSE Nth[length]
        /\ Cardinality(Owned) = length

(* Both: no pointer of the list dangles or falls behind. *)
ListInv == ListTypeOK /\ EndsAgree

(* The list is a queue, through the steps of print too, which shows what was *)
(* in it when it began.                                                      *)
contents == [i \in 1 .. Cardinality({j \in DOMAIN Nth : Nth[j] # Nil}) |-> data[Nth[i]]]
shown == IF phase = "print" THEN << >> ELSE out

F == INSTANCE Fifo WITH q <- IF phase = "destroy" THEN << >> ELSE contents,
                        reply <- shown
ImplementsFifo == F!Spec

(* Every walk over the nodes ends, print's and the destructor's, but one     *)
(* case of it: destroying a list that is longer than the stack is deep ends  *)
(* the process (ListNode has no destructor that would take them in a loop).  *)
WalksEnd ==
    phase # "idle" ~> phase = "idle" \/ (fate = "stackoverflow" /\ length > Frames)
=============================================================================
