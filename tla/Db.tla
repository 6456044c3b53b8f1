--------------------------------- MODULE Db ---------------------------------
(***************************************************************************)
(* One database (core/Db.hpp) and every command that works on it           *)
(* (executor/Do*.hpp), but save and load.  The server runs a command to    *)
(* its end before it reads the next, so each command is one step; the wall *)
(* clock moves between commands.                                           *)
(*                                                                         *)
(* An expired key keeps its object and its deadline until some command     *)
(* looks it up with Db::find; del erases the object only, and expire never *)
(* replaces a deadline.                                                    *)
(***************************************************************************)
EXTENDS SdbObject

CONSTANTS
    Sent,       \* the words that clients send
    Keys,       \* the keys of the database
    Ttls,       \* the arguments of expire, in ticks
    MilliTtls,  \* the arguments of pexpire, in ticks
    Second,     \* ticks per second
    Horizon,    \* bound: the clock stops here
    MaxLen,     \* bound: longest list, and most appends to a string
    Commands    \* the commands the clients issue

ASSUME SentAssumption == Sent \subseteq Vals
ASSUME TimeAssumption ==
    /\ Ttls \subseteq Int
    /\ MilliTtls \subseteq Int
    /\ Second \in Nat \ {0}
    /\ Horizon \in Nat

VARIABLES
    db,         \* the map of objects, Absent where it has no entry
    expire,     \* the deadlines, None where it has no entry
    now,        \* system_clock, in ticks since some whole second
    up,         \* the process is running
    reply       \* what the last command wrote to its client

vars == << db, expire, now, up, reply >>

(* Each table entry is an object or a deadline; a null object is what the *)
(* subscript operator of the map leaves behind for a key it did not have.  *)
TypeOK ==
    /\ db \in [Keys -> Objects \cup {Absent, NullPtr}]
    /\ expire \in [Keys -> Int \cup {None}]
    /\ now \in Nat
    /\ up \in BOOLEAN
    /\ reply \in Replies

Init ==
    /\ db = [k \in Keys |-> Absent]
    /\ expire = [k \in Keys |-> None]
    /\ now = 0
    /\ up = TRUE
    /\ reply = Quiet
-----------------------------------------------------------------------------
(* checkOutOfDate answers 1: the deadline is strictly in the past. *)
Expired(k) == expire[k] # None /\ now > expire[k]

(* What Db::find returns, a null pointer being as good as no entry, and what *)
(* it leaves in the two tables.                                              *)
findAnything(k) == IF db[k] = NullPtr THEN Absent ELSE db[k]    \* bug
find(k) == IF Expired(k) \/ db[k] = NullPtr THEN Absent ELSE db[k]

(* Bugs: the deadline stays; the clock is not looked at. *)
deadlineStays(table, k, none) ==
    IF Expired(k) /\ none = Absent THEN [table EXCEPT ![k] = none] ELSE table
clockIgnored(table, k, none) ==
    IF expire[k] # None THEN [table EXCEPT ![k] = none] ELSE table

Collected(table, k, none) ==
    IF Expired(k) THEN [table EXCEPT ![k] = none] ELSE table

Serve(cmd) == up /\ cmd \in Commands

(* Answer a command that changed nothing itself but looked k up. *)
Answer(k, r) ==
    /\ db' = Collected(db, k, Absent)
    /\ expire' = Collected(expire, k, None)
    /\ reply' = r
    /\ UNCHANGED << now, up >>

(* Put the changed object back under k, unless the call threw. *)
storesAnyway(k, obj, r) ==      \* bug: the exception goes unnoticed
    /\ db' = [Collected(db, k, Absent) EXCEPT ![k] = obj]
    /\ expire' = Collected(expire, k, None)
    /\ reply' = r
    /\ UNCHANGED << now, up >>

Commit(k, obj, r) ==
    IF obj = Unsupported
    THEN Answer(k, Error)
    ELSE /\ db' = [Collected(db, k, Absent) EXCEPT ![k] = obj]
         /\ expire' = Collected(expire, k, None)
         /\ reply' = r
         /\ UNCHANGED << now, up >>

(* The object a command adds to: the one found, or the one it creates. *)
Opened(k, created) == IF find(k) = Absent THEN created ELSE find(k)

(* A command that only reads, for objects of the given types. *)
Query(k, types) ==
    Answer(k, IF find(k) = Absent THEN Null
              ELSE IF find(k).type \in types THEN From(find(k)) ELSE Error)

AnyType == {"string", "list", "hash", "set", "orderedset"}

(* Undefined behaviour that ends the process: the memory is gone. *)
Crash ==
    /\ db' = [k \in Keys |-> Absent]
    /\ expire' = [k \in Keys |-> None]
    /\ up' = FALSE
    /\ reply' = Died
    /\ UNCHANGED now

(* Bounds. *)
Room(k) == /\ find(k).type = "list" => Len(find(k).list) < MaxLen
           /\ find(k).type = "string" => Len(find(k).str) < MaxLen
-----------------------------------------------------------------------------
(* executor/DoString.hpp *)
doSset(k, v) ==
    Serve("set") /\ Commit(k, set(Opened(k, CreateStrObject), v), Done("add"))

doAppend(k, v) ==
    /\ Serve("append")
    /\ Room(k)
    /\ Commit(k, append(Opened(k, CreateStrObject), v), Done("add"))

doSget(k) == Serve("get") /\ Query(k, AnyType)
doStrlen(k) == Serve("strlen") /\ Query(k, {"string"})

(* The bounds are converted after the lookup and only if something is found. *)
doGetRange(k, wellFormed) ==
    /\ Serve("getrange")
    /\ IF find(k) # Absent /\ ~wellFormed
       THEN Answer(k, Error)
       ELSE Query(k, {"string"})

(* executor/DoList.hpp *)
doPush(k, v) ==
    /\ Serve("lpush")
    /\ Room(k)
    /\ Commit(k, push(Opened(k, CreateListObject), v), Done("add"))

(* Popping an empty list prints through a null node. *)
doPop(k) ==
    /\ Serve("lpop")
    /\ IF find(k) = Absent THEN Answer(k, Null)
       ELSE IF find(k).type # "list" THEN Answer(k, Error)
       ELSE IF find(k).list = << >> THEN Crash
       ELSE Commit(k, pop(find(k)), Element(Head(find(k).list)))

doLGetAll(k) == Serve("lgetall") /\ Query(k, AnyType)
doLlen(k) == Serve("llen") /\ Query(k, {"list"})

(* executor/DoHash.hpp *)
doHadd(k, f, v) ==
    Serve("hadd") /\ Commit(k, hadd(Opened(k, CreateHashObject), f, v), Done("add"))

(* Anything but a hash is used as one, which a member found in a set, whose  *)
(* nodes are smaller, does not survive, and else the memory decides.         *)
doHdel(k, f) ==
    /\ Serve("hdel")
    /\ IF find(k) = Absent
       THEN Answer(k, Null)
       ELSE \/ /\ find(k).type = "set" => f \notin find(k).uset
               /\ Commit(k, hdel(find(k), f), Done("take"))
            \/ find(k).type # "hash" /\ Crash

doHgetall(k) == Serve("hgetall") /\ Query(k, AnyType)

(* executor/DoSet.hpp *)
doSadd(k, v) ==
    Serve("sadd") /\ Commit(k, sadd(Opened(k, CreateSetObject), v), Done("add"))

doSdel(k, v) ==
    /\ Serve("sdel")
    /\ IF find(k) = Absent THEN Answer(k, Null)
                           ELSE Commit(k, sdel(find(k), v), Done("take"))

doSgetall(k) == Serve("sgetall") /\ Query(k, AnyType)

(* executor/DoOset.hpp: the score is converted after the lookup. *)
doOadd(k, s, v) ==
    Serve("oadd") /\ Commit(k, oadd(Opened(k, CreateOSetObject), s, v), Done("add"))

doOdel(k, s) ==
    /\ Serve("odel")
    /\ IF find(k) = Absent THEN Answer(k, Null)
                           ELSE Commit(k, odel(find(k), s), Done("take"))

malformedScore(k) ==
    \/ Serve("oadd") /\ Answer(k, Error)
    \/ Serve("odel") /\ Answer(k, IF find(k) = Absent THEN Null ELSE Error)

doOgetall(k) == Serve("ogetall") /\ Query(k, AnyType)

(* executor/DoObject.hpp: its type or its encoding *)
doObject(k) == Serve("object") /\ Query(k, AnyType)
-----------------------------------------------------------------------------
(* executor/DoDb.hpp *)
doDel(k) ==
    /\ Serve("del")
    /\ db' = [db EXCEPT ![k] = Absent]
    /\ reply' = Done("del")
    /\ UNCHANGED << expire, now, up >>

(* to_time_t drops the part of a second. *)
Deadline(t) == t - (t % Second)

(* unordered_map::insert leaves an entry that is there alone. *)
addExpire(k, ttl) ==
    /\ expire' = IF expire[k] = None
                 THEN [expire EXCEPT ![k] = Deadline(now + ttl)]
                 ELSE expire
    /\ reply' = Done("expire")
    /\ UNCHANGED << db, now, up >>

doExpire(k, ttl) == Serve("expire") /\ addExpire(k, ttl)
doPrecisionExpire(k, ttl) == Serve("pexpire") /\ addExpire(k, ttl)

(* Too few words, or a lifetime that is no number: thrown before any lookup, *)
(* but del does not count its words and reads a key past the last of them.   *)
missingArguments(cmd) ==
    /\ Serve(cmd)
    /\ \/ /\ reply' = IF cmd = "del" THEN Ok ELSE Error
          /\ UNCHANGED << db, expire, now, up >>
       \/ cmd = "del" /\ Crash

Tick ==
    /\ now < Horizon
    /\ now' = now + 1
    /\ reply' = Quiet
    /\ UNCHANGED << db, expire, up >>

Restart ==
    /\ ~up
    /\ up' = TRUE
    /\ reply' = Quiet
    /\ UNCHANGED << db, expire, now >>

Strings(k) ==
    \/ \E v \in Sent : doSset(k, v) \/ doAppend(k, v)
    \/ doSget(k)
    \/ doStrlen(k)
    \/ \E ok \in BOOLEAN : doGetRange(k, ok)

Lists(k) == (\E v \in Sent : doPush(k, v)) \/ doPop(k) \/ doLGetAll(k) \/ doLlen(k)

Hashes(k) ==
    \/ \E f \in Sent : (\E v \in Sent : doHadd(k, f, v)) \/ doHdel(k, f)
    \/ doHgetall(k)

Sets(k) == (\E v \in Sent : doSadd(k, v) \/ doSdel(k, v)) \/ doSgetall(k)

Osets(k) ==
    \/ \E s \in Scores : (\E v \in Sent : doOadd(k, s, v)) \/ doOdel(k, s)
    \/ malformedScore(k)
    \/ doOgetall(k)

Lives(k) ==
    \/ doDel(k)
    \/ \E ttl \in Ttls : doExpire(k, ttl)
    \/ \E ttl \in MilliTtls : doPrecisionExpire(k, ttl)

(* The commands of the function table (Executor::initFuncTables). *)
Command ==
    \/ \E k \in Keys : \/ Strings(k) \/ Lists(k) \/ Hashes(k) \/ Sets(k)
                       \/ Osets(k) \/ doObject(k) \/ Lives(k)
    \/ \E cmd \in Commands : missingArguments(cmd)

Next == Command \/ Tick \/ Restart

Spec == Init /\ [][Next]_vars
-----------------------------------------------------------------------------
(* The clients' view: an expired key is gone, whatever the tables still hold. *)
seen == [k \in Keys |-> find(k)]
pending == [k \in Keys |-> IF Expired(k) THEN None ELSE expire[k]]

T == INSTANCE TtlStore WITH store <- seen, deadline <- pending,
                            Lifetimes <- Ttls \cup MilliTtls

(* Collecting lazily cannot be told from collecting at the deadline: every   *)
(* command behaves as on a store whose expired keys are gone (Db::find), so  *)
(* no command, in any order with the clock, sees or changes expired data.    *)
EagerExpiry == T!Spec

(* What is under an expired key is never changed in place: it stays, goes,   *)
(* or makes room, deadline and all, for an object created from nothing.      *)
NothingRevives ==
    [][\A k \in Keys : Expired(k) =>
          \/ db'[k] \in {db[k], Absent}
          \/ /\ expire'[k] = None
             /\ \E o \in Creations : db'[k] \in Additions(o)]_vars

(* A deadline is neither moved nor lifted before it passes while the process *)
(* lives: not by expire, nor by deleting the key and creating it again.      *)
DeadlineFirm ==
    [][\A k \in Keys : expire[k] # None /\ ~Expired(k) =>
          expire'[k] = expire[k] \/ ~up']_vars
=============================================================================
