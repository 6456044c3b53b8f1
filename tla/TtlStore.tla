------------------------------ MODULE TtlStore ------------------------------
(***************************************************************************)
(* What one database promises its clients: a typed store whose keys vanish *)
(* the moment their deadline has passed.  There is no collector and no     *)
(* stale entry here; core/Db.hpp gets the same effect by collecting a key  *)
(* lazily, when a command next looks it up (README.md:51).                 *)
(***************************************************************************)
EXTENDS SdbObject

CONSTANTS
    Keys,       \* the keys of the database
    Lifetimes,  \* the lifetimes expire and pexpire can ask for, in ticks
    Second      \* ticks per second: a deadline may fall short by less than that

VARIABLES
    store,      \* the object clients see under a key, or Absent
    deadline,   \* the last instant at which the key is seen, or None
    now,        \* the wall clock, in ticks
    up,         \* the process is running
    reply       \* the answer to the last command

vars == << store, deadline, now, up, reply >>

Passed(k, t) == deadline[k] # None /\ t > deadline[k]

Init ==
    /\ store = [k \in Keys |-> Absent]
    /\ deadline = [k \in Keys |-> None]
    /\ now = 0
    /\ up = TRUE
    /\ reply = Quiet
-----------------------------------------------------------------------------
(* A key is created or changed: the object is the one seen, or an empty one. *)
Write(k) ==
    /\ up
    /\ \E o \in IF store[k] = Absent THEN Creations ELSE {store[k]} :
         \E p \in Additions(o) \ {Unsupported} :
            store' = [store EXCEPT ![k] = p]
    /\ reply' = Done("add")
    /\ UNCHANGED << deadline, now, up >>

(* Something is taken out of an object; the key stays, empty or not. *)
Shrink(k) ==
    /\ up
    /\ store[k] # Absent
    /\ \E p \in Removals(store[k]) \ {Unsupported} :
         store' = [store EXCEPT ![k] = p]
    /\ reply' = Done("take")
    /\ UNCHANGED << deadline, now, up >>

Pop(k) ==
    /\ up
    /\ store[k] \in ListObjects
    /\ store[k].list # << >>
    /\ store' = [store EXCEPT ![k] = pop(@)]
    /\ reply' = Element(Head(store[k].list))
    /\ UNCHANGED << deadline, now, up >>

(* A command answers from what is seen, and only "null" where nothing is. *)
Read(k) ==
    /\ up
    /\ reply' = IF store[k] = Absent THEN Null ELSE From(store[k])
    /\ UNCHANGED << store, deadline, now, up >>

(* The command has the wrong type, or too few or malformed words: an error,  *)
(* or nothing at all from a del without a key.                               *)
Reject ==
    /\ up
    /\ reply' \in {Error, Ok}
    /\ UNCHANGED << store, deadline, now, up >>

(* The key goes; its deadline does not. *)
Remove(k) ==
    /\ up
    /\ store' = [store EXCEPT ![k] = Absent]
    /\ reply' = Done("del")
    /\ UNCHANGED << deadline, now, up >>

(* The first deadline holds, rounded down to a whole second; one that has *)
(* passed already takes the key at once.                                  *)
SetDeadline(k) ==
    /\ up
    /\ deadline[k] = None
    /\ \E ttl \in Lifetimes : \E d \in (now + ttl - Second + 1) .. (now + ttl) :
         IF now > d
         THEN /\ store' = [store EXCEPT ![k] = Absent]
              /\ UNCHANGED deadline
         ELSE /\ deadline' = [deadline EXCEPT ![k] = d]
              /\ UNCHANGED store
    /\ reply' = Done("expire")
    /\ UNCHANGED << now, up >>

(* A second deadline is ignored, as may be one for a key that is not there. *)
KeepDeadline(k) ==
    /\ up
    /\ deadline[k] # None \/ store[k] = Absent
    /\ reply' = Done("expire")
    /\ UNCHANGED << store, deadline, now, up >>
-----------------------------------------------------------------------------
Tick ==
    /\ now' = now + 1
    /\ store' = [k \in Keys |-> IF Passed(k, now') THEN Absent ELSE store[k]]
    /\ deadline' = [k \in Keys |->
                      IF Passed(k, now') THEN None ELSE deadline[k]]
    /\ reply' = Quiet
    /\ UNCHANGED up

(* The answer has been taken. *)
Hush ==
    /\ reply' = Quiet
    /\ UNCHANGED << store, deadline, now, up >>

Die ==
    /\ up
    /\ store' = [k \in Keys |-> Absent]
    /\ deadline' = [k \in Keys |-> None]
    /\ up' = FALSE
    /\ reply' = Died
    /\ UNCHANGED now

Restart ==
    /\ ~up
    /\ up' = TRUE
    /\ reply' = Quiet
    /\ UNCHANGED << store, deadline, now >>

Next ==
    \/ \E k \in Keys : \/ Write(k) \/ Shrink(k) \/ Pop(k) \/ Read(k)
                       \/ Remove(k) \/ SetDeadline(k) \/ KeepDeadline(k)
    \/ Reject
    \/ Tick
    \/ Hush
    \/ Die
    \/ Restart

Spec == Init /\ [][Next]_vars
=============================================================================
