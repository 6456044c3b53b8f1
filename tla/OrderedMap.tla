----------------------------- MODULE OrderedMap -----------------------------
(***************************************************************************)
(* What an ordered set promises (core/OrderedSet.hpp): a map from scores   *)
(* to members.  A call takes effect at once, somewhere between its start   *)
(* and its return; inserting under a score that is taken replaces the      *)
(* member.                                                                 *)
(***************************************************************************)
EXTENDS Integers

CONSTANTS Scores, Vals, None

VARIABLES
    contents,   \* the member under each score, or None
    call,       \* the call under way: its operation, score and member
    answer      \* what the last search returned

vars == << contents, call, answer >>

Idle == << "idle", None, None >>

Init ==
    /\ contents = [s \in Scores |-> None]
    /\ call = Idle
    /\ answer = None

Begin(op, s, v) ==
    /\ call = Idle
    /\ call' = << op, s, v >>
    /\ UNCHANGED << contents, answer >>

Insert(s, v) ==
    /\ call = << "insert", s, v >>
    /\ contents' = [contents EXCEPT ![s] = v]
    /\ call' = Idle
    /\ UNCHANGED answer

Delete(s) ==
    /\ call = << "del", s, None >>
    /\ contents' = [contents EXCEPT ![s] = None]
    /\ call' = Idle
    /\ UNCHANGED answer

Search(s) ==
    /\ call = << "search", s, None >>
    /\ answer' = contents[s]
    /\ call' = Idle
    /\ UNCHANGED contents

Next ==
    \E s \in Scores :
        \/ \E v \in Vals : Begin("insert", s, v) \/ Insert(s, v)
        \/ Begin("del", s, None) \/ Delete(s)
        \/ Begin("search", s, None) \/ Search(s)

Spec == Init /\ [][Next]_vars
=============================================================================
