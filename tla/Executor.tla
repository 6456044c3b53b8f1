------------------------------ MODULE Executor ------------------------------
(***************************************************************************)
(* The databases of the server (core/DbList.hpp), the one in use, which    *)
(* belongs to the server and not to a connection (executor/Executor.hpp),  *)
(* and select (executor/DoDb.hpp).                                         *)
(*                                                                         *)
(* Module Db is the database in use: db and expire are its tables.  Those  *)
(* of the others are on a shelf, and a select changes them over.           *)
(***************************************************************************)
EXTENDS Db

CONSTANTS
    Clients,        \* the connections commands come from
    InitialDbs,     \* the argument of DbList::init
    Limit,          \* the numbers select refuses begin here
    UIntSize,       \* how many values an unsigned int has
    Numbers         \* the numerals clients give select

ASSUME DbsAssumption ==
    /\ InitialDbs \in Nat \ {0}
    /\ Limit \in Nat /\ InitialDbs < Limit
    /\ UIntSize \in Nat /\ Limit <= UIntSize
    /\ Numbers \subseteq Nat
ASSUME ClientsAssumption == None \notin Clients
ASSUME KeysAssumption == Keys # {}

VARIABLES
    currentdb,      \* the number of the database in use
    size,           \* how many databases there are
    shelf,          \* the tables of those not in use, by their numbers
    chosen,         \* history: the database each client selected, 0 by default
    mover           \* history: the last client whose select succeeded

executorVars == << currentdb, size, shelf, chosen, mover >>
allVars == << vars, executorVars >>

Ids == 0 .. (Limit - 1)

Blank == [db |-> [k \in Keys |-> Absent], expire |-> [k \in Keys |-> None]]
Tables == [db : [Keys -> Objects \cup {Absent, NullPtr}],
           expire : [Keys -> Int \cup {None}]]

(* Db's tables and reply are typed, there is a database to start with, and  *)
(* nothing is on the shelf under the number in use.                          *)
ExecutorTypeOK ==
    /\ TypeOK
    /\ currentdb \in Ids
    /\ size \in InitialDbs .. Limit
    /\ shelf \in [Ids -> Tables] /\ shelf[currentdb] = Blank
    /\ chosen \in [Clients -> Ids]
    /\ mover \in Clients \cup {None}

(* Executor::Executor *)
ExecutorInit ==
    /\ Init
    /\ currentdb = 0
    /\ size = InitialDbs
    /\ shelf = [i \in Ids |-> Blank]
    /\ chosen = [c \in Clients |-> 0]
    /\ mover = None

(* The process that comes after a crash begins anew. *)
StartOver ==
    /\ currentdb' = 0
    /\ size' = InitialDbs
    /\ shelf' = [i \in Ids |-> Blank]
    /\ chosen' = [c \in Clients |-> 0]
    /\ mover' = None

CrashAll == Crash /\ StartOver

Answered(r) == reply' = r /\ UNCHANGED << db, expire, now, up >>
-----------------------------------------------------------------------------
(* Executor::execute hands the database in use to the function. *)
execute ==
    /\ currentdb < size
    /\ Command
    /\ IF up' THEN UNCHANGED executorVars ELSE StartOver

(* Nothing has been constructed there: a command that throws before it looks *)
(* does so, one that reads or deletes may find nothing, and else the process *)
(* ends.                                                                     *)
executePastEnd ==
    /\ up /\ currentdb >= size
    /\ \/ /\ \E r \in {Error, Null, Done("del")} : Answered(r)
          /\ UNCHANGED executorVars
       \/ CrashAll

(* A first word that is no command is thrown for, an empty line is nothing. *)
noCommand ==
    /\ up
    /\ \E r \in {Error, Quiet} : Answered(r)
    /\ UNCHANGED executorVars

(* Bug: never resize. *)
forgetsToGrow(n) == size

Grown(n) == IF n > size THEN n ELSE size

(* Bug: the function table keeps its reference to the database before. *)
keepsReference(n) ==
    /\ currentdb' = n
    /\ size' = Grown(n)
    /\ UNCHANGED << db, expire, shelf >>

(* resize drops what is at or above the new size; database n comes into use. *)
Change(n) ==
    LET parked == [shelf EXCEPT ![currentdb] = [db |-> db, expire |-> expire]]
        kept == [i \in Ids |-> IF i < Grown(n) THEN parked[i] ELSE Blank]
    IN
    /\ currentdb' = n
    /\ size' = Grown(n)
    /\ shelf' = [kept EXCEPT ![n] = Blank]
    /\ db' = kept[n].db
    /\ expire' = kept[n].expire

(* Bug: a select that fails goes back to the default. *)
refusesToDefault ==
    Change(0) /\ reply' = Error /\ UNCHANGED << now, up, chosen, mover >>

Refuse == Answered(Error) /\ UNCHANGED executorVars

(* The number of a numeral, which may wrap around. *)
Parsed(numeral) == numeral % UIntSize

doSelect(c, numeral) ==
    LET n == Parsed(numeral) IN
    /\ up
    /\ \/ /\ n = currentdb \/ n < Limit
          /\ IF n = currentdb THEN UNCHANGED << db, expire, currentdb, size, shelf >>
                              ELSE Change(n)
          /\ chosen' = [chosen EXCEPT ![c] = n]
          /\ mover' = c
          /\ reply' = Quiet
          /\ UNCHANGED << now, up >>
       \/ n # currentdb /\ n >= Limit /\ Refuse

(* A word that is no number. *)
selectWord == up /\ Refuse

(* Without a word select reads beyond the end of its own. *)
selectNothing == up /\ (Refuse \/ CrashAll)

ExecutorNext ==
    \/ execute \/ executePastEnd \/ noCommand
    \/ \E c \in Clients : \E numeral \in Numbers : doSelect(c, numeral)
    \/ selectWord \/ selectNothing
    \/ (Tick \/ Restart) /\ UNCHANGED executorVars

ExecutorSpec == ExecutorInit /\ [][ExecutorNext]_allVars
-----------------------------------------------------------------------------
(* What is in database i, and how a client sees it. *)
TablesOf(i) == IF i = currentdb THEN [db |-> db, expire |-> expire] ELSE shelf[i]

LateIn(i, k) == TablesOf(i).expire[k] # None /\ now > TablesOf(i).expire[k]

seenIn(i) == [k \in Keys |-> IF LateIn(i, k) \/ TablesOf(i).db[k] = NullPtr
                             THEN Absent ELSE TablesOf(i).db[k]]
pendingIn(i) == [k \in Keys |-> IF LateIn(i, k) THEN None ELSE TablesOf(i).expire[k]]
saidBy(i) == IF up /\ i # currentdb THEN Quiet ELSE reply

Store(i) == INSTANCE TtlStore WITH store <- seenIn(i), deadline <- pendingIn(i),
                                   reply <- saidBy(i),
                                   Lifetimes <- Ttls \cup MilliTtls

(* Each number is a store of its own, whose keys vanish at their deadlines   *)
(* also while another is in use: no select, in any order with the commands   *)
(* and the growth of the list, loses, mixes or revives what is in one        *)
(* (doSelect, Executor::execute).                                            *)
EachIsAStore ==
    /\ \A i \in Ids : Store(i)!Init
    /\ [][\A i \in Ids : [Store(i)!Next]_(Store(i)!vars)]_allVars

(* The database in use is at most one past the end of the list, and the last *)
(* number select accepts is never in it (DoDb.hpp:29-33).                    *)
OnePastAtMost == currentdb <= size /\ size < Limit

(* Both: the list only grows, and never catches up with what is in use. *)
ExecutorInv == ExecutorTypeOK /\ OnePastAtMost

(* The database in use is the one selected last, whoever did it, and a       *)
(* select that is refused moves nobody (DoDb.hpp:18-36).                     *)
LastSelectRules ==
    IF mover = None THEN currentdb = 0 ELSE currentdb = chosen[mover]

(* README.md:50, "select chooses the current database, 0 by default": there  *)
(* is one to choose.  Violated: a new database n needs n + 1 of them.        *)
SelectedExists == currentdb < size
=============================================================================
