--------------------------- MODULE ExecutorProofs ---------------------------
(***************************************************************************)
(* For every number of databases, every limit and every set of clients and *)
(* numerals: the list of databases stays sound, the selection is what was  *)
(* selected last, and each database is a store of its own.                 *)
(***************************************************************************)
EXTENDS Executor, DbProofs

(* What is on the shelf is typed, however the list grows. *)
LEMMA BlankTyped == Blank \in Tables
BY DEF Blank, Tables

LEMMA GrownBounded ==
    ASSUME ExecutorTypeOK, NEW n \in Ids
    PROVE  /\ Grown(n) \in InitialDbs .. Limit
           /\ Grown(n) >= n /\ Grown(n) >= size
           /\ size < Limit => Grown(n) < Limit
BY DbsAssumption DEF ExecutorTypeOK, Grown, Ids

Parked == [shelf EXCEPT ![currentdb] = [db |-> db, expire |-> expire]]
Kept(n) == [i \in Ids |-> IF i < Grown(n) THEN Parked[i] ELSE Blank]

LEMMA KeptTyped ==
    ASSUME ExecutorTypeOK, NEW n \in Ids
    PROVE  /\ Parked \in [Ids -> Tables]
           /\ Kept(n) \in [Ids -> Tables]
<1>1. [db |-> db, expire |-> expire] \in Tables
  BY DEF ExecutorTypeOK, TypeOK, Tables
<1>2. Parked \in [Ids -> Tables]
  BY <1>1 DEF Parked, ExecutorTypeOK
<1> QED
  BY <1>2, BlankTyped DEF Kept

LEMMA ChangeEffect ==
    ASSUME NEW n, Change(n)
    PROVE  /\ currentdb' = n /\ size' = Grown(n)
           /\ shelf' = [Kept(n) EXCEPT ![n] = Blank]
           /\ db' = Kept(n)[n].db /\ expire' = Kept(n)[n].expire
BY DEF Change, Kept, Parked

LEMMA ChangeTyped ==
    ASSUME ExecutorTypeOK, NEW n \in Ids, NEW c \in Clients, NEW r \in Replies,
           Change(n), chosen' \in [Clients -> Ids], mover' \in Clients \cup {None},
           reply' = r, UNCHANGED << now, up >>
    PROVE  ExecutorTypeOK'
<1>1. /\ currentdb' = n
      /\ size' = Grown(n)
      /\ shelf' = [Kept(n) EXCEPT ![n] = Blank]
      /\ db' = Kept(n)[n].db /\ expire' = Kept(n)[n].expire
  BY ChangeEffect
<1>2. Kept(n)[n] \in Tables
  BY KeptTyped
<1>3. TypeOK'
  BY <1>1, <1>2 DEF TypeOK, ExecutorTypeOK, Tables
<1>4. size' \in InitialDbs .. Limit
  BY <1>1, GrownBounded
<1>5. shelf' \in [Ids -> Tables] /\ shelf'[currentdb'] = Blank
  BY <1>1, KeptTyped, BlankTyped
<1> QED
  BY <1>1, <1>3, <1>4, <1>5 DEF ExecutorTypeOK
-----------------------------------------------------------------------------
(* Nothing is in the databases the list has not grown to, so that cutting it *)
(* there loses nothing.                                                      *)
Beyond == \A i \in Ids : i >= size => TablesOf(i) = Blank

Inv == ExecutorInv /\ LastSelectRules /\ Beyond

LEMMA CrashAllInv ==
    ASSUME TypeOK, CrashAll
    PROVE  Inv' /\ \A i \in Ids : (TablesOf(i) = Blank)'
<1>0. TypeOK' /\ StartOver
  BY CrashTyped DEF CrashAll
<1>1. 0 \in Ids /\ 0 < InitialDbs /\ InitialDbs < Limit
  BY DbsAssumption DEF Ids
<1>2. shelf' \in [Ids -> Tables] /\ shelf'[currentdb'] = Blank
  BY <1>0, <1>1, BlankTyped DEF StartOver
<1>3. ExecutorTypeOK'
  BY <1>0, <1>1, <1>2, DbsAssumption DEF StartOver, ExecutorTypeOK
<1>4. OnePastAtMost' /\ LastSelectRules'
  BY <1>0, <1>1, DbsAssumption DEF StartOver, OnePastAtMost, LastSelectRules
<1>5. \A i \in Ids : (TablesOf(i) = Blank)'
  BY <1>0 DEF CrashAll, Crash, StartOver, TablesOf, Blank
<1> QED
  BY <1>3, <1>4, <1>5 DEF Inv, ExecutorInv, Beyond

(* A step that leaves the list of databases alone. *)
LEMMA SameListInv ==
    ASSUME Inv, TypeOK', UNCHANGED executorVars,
           currentdb < size \/ UNCHANGED << db, expire >>
    PROVE  Inv'
<1>1. ExecutorTypeOK' /\ OnePastAtMost' /\ LastSelectRules'
  BY DEF Inv, ExecutorInv, ExecutorTypeOK, OnePastAtMost, LastSelectRules,
         executorVars
<1>2. Beyond'
  <2>1. currentdb \in Int /\ size \in Int
    BY DbsAssumption DEF Inv, ExecutorInv, ExecutorTypeOK, Ids
  <2> QED
    BY <2>1 DEF Inv, Beyond, TablesOf, executorVars
<1> QED
  BY <1>1, <1>2 DEF Inv, ExecutorInv

LEMMA AnsweredInv ==
    ASSUME Inv, NEW r \in Replies, Answered(r), UNCHANGED executorVars
    PROVE  Inv'
<1>1. TypeOK'
  BY DEF Answered, Inv, ExecutorInv, ExecutorTypeOK, TypeOK
<1> QED
  BY <1>1, SameListInv DEF Answered

(* Changing the database in use over moves the tables, and changes none. *)
LEMMA ChangeKeeps ==
    ASSUME Inv, NEW n \in Ids, n # currentdb, Change(n), NEW i \in Ids
    PROVE  TablesOf(i)' = TablesOf(i)
<1>1. /\ currentdb' = n
      /\ shelf' = [Kept(n) EXCEPT ![n] = Blank]
      /\ db' = Kept(n)[n].db /\ expire' = Kept(n)[n].expire
  BY ChangeEffect
<1>2. Kept(n) \in [Ids -> Tables]
  BY KeptTyped DEF Inv, ExecutorInv
<1>3. \A j \in Ids : Kept(n)[j] = TablesOf(j)
  <2> SUFFICES ASSUME NEW j \in Ids
               PROVE  Kept(n)[j] = TablesOf(j)
    OBVIOUS
  <2>1. Parked[j] = TablesOf(j)
    BY DEF Parked, TablesOf, Inv, ExecutorInv, ExecutorTypeOK
  <2>2. j >= Grown(n) => j >= size
    BY GrownBounded, DbsAssumption DEF Inv, ExecutorInv, ExecutorTypeOK, Ids
  <2>3. Grown(n) \in Int /\ j \in Int
    BY GrownBounded DEF Inv, ExecutorInv, Ids
  <2> QED
    BY <2>1, <2>2, <2>3 DEF Kept, Inv, Beyond
<1>4. CASE i = n
  <2>1. TablesOf(i)' = [db |-> db', expire |-> expire']
    BY <1>1, <1>4 DEF TablesOf
  <2> QED
    BY <1>1, <1>2, <1>3, <1>4, <2>1 DEF Tables
<1>5. CASE i # n
  <2>1. TablesOf(i)' = shelf'[i]
    BY <1>1, <1>5 DEF TablesOf
  <2> QED
    BY <1>1, <1>2, <1>3, <1>5, <2>1
<1> QED
  BY <1>4, <1>5

LEMMA ParsedTyped ==
    ASSUME NEW numeral \in Numbers
    PROVE  Parsed(numeral) \in Nat
<1>1. UIntSize \in Nat \ {0} /\ numeral \in Nat
  BY DbsAssumption
<1> QED
  BY <1>1 DEF Parsed

LEMMA SelectInv ==
    ASSUME Inv, NEW c \in Clients, NEW numeral \in Numbers, doSelect(c, numeral)
    PROVE  Inv'
<1> DEFINE n == Parsed(numeral)
<1>1. n \in Nat
  BY ParsedTyped
<1>2. CASE Refuse
  BY <1>2, AnsweredInv, ReplyTyped DEF Refuse
<1>3. CASE /\ n = currentdb \/ n < Limit
           /\ IF n = currentdb THEN UNCHANGED << db, expire, currentdb, size, shelf >>
                               ELSE Change(n)
           /\ chosen' = [chosen EXCEPT ![c] = n]
           /\ mover' = c
           /\ reply' = Quiet
           /\ UNCHANGED << now, up >>
  <2>1. n \in Ids
    BY <1>1, <1>3, DbsAssumption DEF Inv, ExecutorInv, ExecutorTypeOK, Ids
  <2> HIDE DEF n
  <2>2. chosen' \in [Clients -> Ids] /\ mover' \in Clients /\ chosen'[mover'] = n
    BY <1>3, <2>1 DEF Inv, ExecutorInv, ExecutorTypeOK
  <2>3. mover' # None
    BY <2>2, ClientsAssumption
  <2>4. CASE n = currentdb
    <3>1. UNCHANGED << db, expire, now, up, currentdb, size, shelf >>
      BY <1>3, <2>4
    <3>2. TypeOK'
      BY <1>3, <3>1, ReplyTyped DEF Inv, ExecutorInv, ExecutorTypeOK, TypeOK
    <3>3. ExecutorTypeOK'
      BY <2>2, <3>1, <3>2 DEF Inv, ExecutorInv, ExecutorTypeOK
    <3>4. Beyond'
      BY <3>1 DEF Inv, Beyond, TablesOf
    <3> QED
      BY <2>2, <2>3, <2>4, <3>1, <3>3, <3>4
      DEF Inv, ExecutorInv, OnePastAtMost, LastSelectRules
  <2>5. CASE n # currentdb
    <3>1. Change(n)
      BY <1>3, <2>5
    <3>2. ExecutorTypeOK'
      BY <1>3, <2>1, <2>2, <3>1, ChangeTyped, ReplyTyped DEF Inv, ExecutorInv
    <3>3. currentdb' = n /\ size' = Grown(n)
      BY <3>1, ChangeEffect
    <3>4. OnePastAtMost'
      BY <2>1, <3>3, GrownBounded DEF Inv, ExecutorInv, OnePastAtMost
    <3>5. \A i \in Ids : (TablesOf(i) = Blank)' <=> TablesOf(i) = Blank
      BY <2>1, <2>5, <3>1, ChangeKeeps DEF Blank
    <3>6. \A i \in Ids : i >= size' => i >= size
      BY <2>1, <3>3, GrownBounded, DbsAssumption
      DEF Inv, ExecutorInv, ExecutorTypeOK, Ids
    <3>7. Beyond'
      BY <3>5, <3>6 DEF Inv, Beyond
    <3> QED
      BY <2>2, <2>3, <3>2, <3>3, <3>4, <3>7 DEF Inv, ExecutorInv, LastSelectRules
  <2> QED
    BY <2>4, <2>5
<1> QED
  BY <1>2, <1>3 DEF doSelect

LEMMA InvInductive ==
    ASSUME Inv, [ExecutorNext]_allVars
    PROVE  Inv'
<1>1. TypeOK
  BY DEF Inv, ExecutorInv, ExecutorTypeOK
<1>2. CASE execute
  <2>1. TypeOK'
    BY <1>1, <1>2, CommandTyped DEF execute
  <2>2. CASE up'
    BY <1>2, <2>1, <2>2, SameListInv DEF execute
  <2>3. CASE ~up'
    BY <1>1, <1>2, <2>3, CommandClock, CrashAllInv DEF execute, CrashAll
  <2> QED
    BY <2>2, <2>3
<1>3. CASE executePastEnd
  BY <1>1, <1>3, AnsweredInv, CrashAllInv, ReplyTyped DEF executePastEnd
<1>4. CASE noCommand
  BY <1>4, AnsweredInv, ReplyTyped DEF noCommand
<1>5. ASSUME NEW c \in Clients, NEW numeral \in Numbers, doSelect(c, numeral)
      PROVE  Inv'
  BY <1>5, SelectInv
<1>6. CASE selectWord \/ selectNothing
  BY <1>1, <1>6, AnsweredInv, CrashAllInv, ReplyTyped
  DEF selectWord, selectNothing, Refuse
<1>7. CASE (Tick \/ Restart) /\ UNCHANGED executorVars
  <2>1. Tick => TypeOK'
    BY <1>1, ReplyTyped DEF Tick, TypeOK
  <2>2. Restart => TypeOK'
    BY <1>1, ReplyTyped DEF Restart, TypeOK
  <2> QED
    BY <1>7, <2>1, <2>2, SameListInv DEF Tick, Restart
<1>8. CASE UNCHANGED allVars
  <2>1. TypeOK' /\ UNCHANGED executorVars /\ UNCHANGED << db, expire >>
    BY <1>1, <1>8 DEF TypeOK, allVars, vars
  <2> QED
    BY <2>1, SameListInv
<1> QED
  BY <1>2, <1>3, <1>4, <1>5, <1>6, <1>7, <1>8 DEF ExecutorNext

THEOREM InvHolds == ExecutorSpec => []Inv
<1>1. ExecutorInit => Inv
  <2> SUFFICES ASSUME ExecutorInit PROVE Inv
    OBVIOUS
  <2>1. TypeOK
    BY ReplyTyped DEF ExecutorInit, Init, TypeOK
  <2>2. 0 \in Ids /\ 0 < InitialDbs /\ InitialDbs < Limit
    BY DbsAssumption DEF Ids
  <2>3. shelf \in [Ids -> Tables] /\ shelf[currentdb] = Blank
    BY <2>2, BlankTyped DEF ExecutorInit
  <2>4. ExecutorTypeOK
    BY <2>1, <2>2, <2>3, DbsAssumption DEF ExecutorInit, ExecutorTypeOK
  <2>5. Beyond
    BY DEF ExecutorInit, Init, Beyond, TablesOf, Blank
  <2> QED
    BY <2>2, <2>4, <2>5, DbsAssumption
    DEF ExecutorInit, Inv, ExecutorInv, OnePastAtMost, LastSelectRules
<1>2. Inv /\ [ExecutorNext]_allVars => Inv'
  BY InvInductive
<1> QED
  BY <1>1, <1>2, PTL DEF ExecutorSpec

(* Whatever is selected and however the list grows, the database in use is   *)
(* at most one past its end, nothing but the shelf holds the tables of the   *)
(* others, and the list never takes in the last number select accepts        *)
(* (doSelect of DoDb.hpp, DbList::resize).                                   *)
THEOREM ListIsSound == ExecutorSpec => []ExecutorInv
<1>1. Inv => ExecutorInv
  BY DEF Inv
<1> QED
  BY <1>1, InvHolds, PTL

(* With any number of clients the database in use is the one the last select *)
(* that succeeded named, whoever sent it: refused ones move nobody.          *)
THEOREM SelectionIsLast == ExecutorSpec => []LastSelectRules
<1>1. Inv => LastSelectRules
  BY DEF Inv
<1> QED
  BY <1>1, InvHolds, PTL
-----------------------------------------------------------------------------
(* TtlStore's records are those of the databases, whichever is looked at. *)
LEMMA StoreRecords ==
    ASSUME NEW i \in Ids
    PROVE  /\ Store(i)!Absent = Absent /\ Store(i)!Unsupported = Unsupported
           /\ Store(i)!Ok = Ok /\ Store(i)!Null = Null
           /\ Store(i)!Error = Error /\ Store(i)!Died = Died
           /\ Store(i)!Quiet = Quiet
           /\ \A kind : Store(i)!Done(kind) = Done(kind)
           /\ \A o : Store(i)!From(o) = From(o)
           /\ \A v : Store(i)!Element(v) = Element(v)
BY DEF Store!Absent, Absent, Store!Unsupported, Unsupported, Store!Ok, Ok,
       Store!Null, Null, Store!Error, Error, Store!Died, Died, Store!Quiet,
       Quiet, Store!Done, Done, Store!From, From, Store!Element, Element

LEMMA StoreObjects ==
    ASSUME NEW i \in Ids
    PROVE  /\ Store(i)!Creations = Creations
           /\ Store(i)!ListObjects = ListObjects
           /\ \A o : Store(i)!pop(o) = pop(o)
BY StoreRecords
   DEF Store!Creations, Creations, Store!CreateStrObject, CreateStrObject,
       Store!CreateListObject, CreateListObject, Store!CreateHashObject,
       CreateHashObject, Store!CreateSetObject, CreateSetObject,
       Store!CreateOSetObject, CreateOSetObject, Store!ListObjects, ListObjects,
       Store!pop, pop

LEMMA StoreChanges ==
    ASSUME NEW i \in Ids, NEW o
    PROVE  /\ Store(i)!Additions(o) = Additions(o)
           /\ Store(i)!Removals(o) = Removals(o)
<1>1. \A v : /\ Store(i)!set(o, v) = set(o, v)
             /\ Store(i)!append(o, v) = append(o, v)
             /\ Store(i)!push(o, v) = push(o, v)
             /\ Store(i)!sadd(o, v) = sadd(o, v)
             /\ Store(i)!sdel(o, v) = sdel(o, v)
  BY StoreRecords
  DEF Store!set, set, Store!append, append, Store!push, push, Store!sadd, sadd,
      Store!sdel, sdel
<1>2. \A f, v : /\ Store(i)!hadd(o, f, v) = hadd(o, f, v)
                /\ Store(i)!hdel(o, f) = hdel(o, f)
  BY StoreRecords DEF Store!hadd, hadd, Store!hdel, hdel
<1>3. \A s, v : /\ Store(i)!oadd(o, s, v) = oadd(o, s, v)
                /\ Store(i)!odel(o, s) = odel(o, s)
  BY StoreRecords DEF Store!oadd, oadd, Store!odel, odel
<1>4. ASSUME NEW x
      PROVE  x \in Store(i)!Additions(o) <=> x \in Additions(o)
  BY <1>1, <1>2, <1>3 DEF Store!Additions, Additions
<1>5. ASSUME NEW x
      PROVE  x \in Store(i)!Removals(o) <=> x \in Removals(o)
  BY <1>1, <1>2, <1>3 DEF Store!Removals, Removals
<1> QED
  BY <1>4, <1>5

(* The database in use is seen as Db sees it, before and after a step. *)
InUse(i) == seenIn(i) = seen /\ pendingIn(i) = pending /\ saidBy(i) = reply

LEMMA CurrentView ==
    ASSUME NEW i \in Ids
    PROVE  /\ i = currentdb => InUse(i)
           /\ i = currentdb' => InUse(i)'
BY DEF InUse, seenIn, pendingIn, saidBy, LateIn, TablesOf, seen, pending, find, Expired

(* What a step does to the store in use, it does to the store of its number. *)
LEMMA InUseServed ==
    ASSUME NEW i \in Ids, InUse(i), InUse(i)', T!Next
    PROVE  Store(i)!Next
<1> USE StoreRecords, SameRecords DEF InUse
<1>1. ASSUME NEW k \in Keys, T!Write(k)
      PROVE  Store(i)!Write(k)
  <2>1. PICK o \in IF seen[k] = Absent THEN Creations ELSE {seen[k]} :
          \E p \in Additions(o) \ {Unsupported} : seen' = [seen EXCEPT ![k] = p]
    BY <1>1, SameObjects, SameChanges DEF T!Write
  <2>2. o \in IF seenIn(i)[k] = Store(i)!Absent THEN Store(i)!Creations
                                               ELSE {seenIn(i)[k]}
    BY StoreObjects
  <2>3. \E p \in Store(i)!Additions(o) \ {Store(i)!Unsupported} :
          seenIn(i)' = [seenIn(i) EXCEPT ![k] = p]
    BY <2>1, StoreChanges
  <2> QED
    BY <1>1, <2>2, <2>3 DEF T!Write, Store!Write
<1>2. ASSUME NEW k \in Keys, T!Shrink(k)
      PROVE  Store(i)!Shrink(k)
  BY <1>2, StoreChanges, SameChanges DEF T!Shrink, Store!Shrink
<1>3. ASSUME NEW k \in Keys, T!Pop(k)
      PROVE  Store(i)!Pop(k)
  <2>1. Store(i)!pop(seen[k]) = T!pop(seen[k])
    BY StoreObjects, SameObjects
  <2>2. Store(i)!Element(Head(seen[k].list)) = T!Element(Head(seen[k].list))
    OBVIOUS
  <2>3. Store(i)!ListObjects = T!ListObjects
    BY StoreObjects, SameObjects
  <2> QED
    BY <1>3, <2>1, <2>2, <2>3 DEF T!Pop, Store!Pop
<1>4. ASSUME NEW k \in Keys, T!Read(k) \/ T!Remove(k)
      PROVE  Store(i)!Read(k) \/ Store(i)!Remove(k)
  BY <1>4 DEF T!Read, Store!Read, T!Remove, Store!Remove
<1>5. ASSUME NEW k \in Keys, T!SetDeadline(k)
      PROVE  Store(i)!SetDeadline(k)
  BY <1>5 DEF T!SetDeadline, Store!SetDeadline
<1>6. ASSUME NEW k \in Keys, T!KeepDeadline(k)
      PROVE  Store(i)!KeepDeadline(k)
  BY <1>6 DEF T!KeepDeadline, Store!KeepDeadline
<1>7. CASE T!Reject \/ T!Hush
  BY <1>7 DEF T!Reject, Store!Reject, T!Hush, Store!Hush, Store!Next
<1>8. CASE T!Tick
  BY <1>8 DEF T!Tick, Store!Tick, T!Passed, Store!Passed, Store!Next
<1>9. CASE T!Die \/ T!Restart
  BY <1>9 DEF T!Die, Store!Die, T!Restart, Store!Restart, Store!Next
<1> QED
  BY <1>1, <1>2, <1>3, <1>4, <1>5, <1>6, <1>7, <1>8, <1>9 DEF T!Next, Store!Next
-----------------------------------------------------------------------------
(* A store whose tables stay where the clock does is seen as before. *)
LEMMA SameTables ==
    ASSUME NEW i \in Ids, TablesOf(i)' = TablesOf(i), now' = now
    PROVE  seenIn(i)' = seenIn(i) /\ pendingIn(i)' = pendingIn(i)
<1>1. \A k \in Keys : LateIn(i, k)' <=> LateIn(i, k)
  BY DEF LateIn
<1> QED
  BY <1>1 DEF seenIn, pendingIn

LEMMA Unheard ==
    ASSUME NEW i \in Ids, TablesOf(i)' = TablesOf(i), now' = now, up' = up,
           saidBy(i)' = Quiet
    PROVE  Store(i)!Next
BY SameTables, StoreRecords DEF Store!Hush, Store!Next

LEMMA Refused ==
    ASSUME NEW i \in Ids, up, Answered(Error), UNCHANGED executorVars
    PROVE  Store(i)!Next
<1>1. TablesOf(i)' = TablesOf(i) /\ now' = now /\ up' = up
  BY DEF Answered, TablesOf, executorVars
<1>2. saidBy(i)' \in {Quiet, Error}
  BY DEF Answered, saidBy
<1>3. CASE saidBy(i)' = Error
  BY <1>1, <1>3, SameTables, StoreRecords DEF Store!Reject, Store!Next
<1> QED
  BY <1>1, <1>2, <1>3, Unheard

LEMMA AllDie ==
    ASSUME Inv, up, CrashAll, NEW i \in Ids
    PROVE  Store(i)!Next
<1>1. (TablesOf(i) = Blank)'
  BY CrashAllInv DEF Inv, ExecutorInv, ExecutorTypeOK
<1>2. \A k \in Keys : /\ ~LateIn(i, k)'
                      /\ TablesOf(i)'.db[k] = Absent
                      /\ TablesOf(i)'.expire[k] = None
  BY <1>1 DEF LateIn, Blank
<1>3. seenIn(i)' = [k \in Keys |-> Absent]
  BY <1>2 DEF seenIn
<1>4. pendingIn(i)' = [k \in Keys |-> None]
  BY <1>2 DEF pendingIn
<1>5. saidBy(i)' = Died /\ up' = FALSE /\ now' = now
  BY DEF CrashAll, Crash, saidBy
<1> QED
  BY <1>3, <1>4, <1>5, StoreRecords DEF Store!Die, Store!Next

LEMMA TicksEverywhere ==
    ASSUME Inv, Tick, UNCHANGED executorVars, NEW i \in Ids
    PROVE  Store(i)!Next
<1>1. TablesOf(i)' = TablesOf(i) /\ now' = now + 1
  BY DEF Tick, TablesOf, executorVars
<1>2. TablesOf(i) \in Tables /\ now \in Int
  BY DEF TablesOf, Inv, ExecutorInv, ExecutorTypeOK, TypeOK, Tables
<1>3. \A k \in Keys : TablesOf(i).expire[k] \in Int \cup {None}
  BY <1>2 DEF Tables
<1>4. \A k \in Keys : Store(i)!Passed(k, now') <=>
                        /\ ~LateIn(i, k) /\ TablesOf(i).expire[k] # None
                        /\ now' > TablesOf(i).expire[k]
  BY DEF Store!Passed, pendingIn
<1>5. \A k \in Keys : LateIn(i, k)' <=> LateIn(i, k) \/ Store(i)!Passed(k, now')
  BY <1>1, <1>2, <1>3, <1>4 DEF LateIn
<1>6. seenIn(i)' = [k \in Keys |-> IF Store(i)!Passed(k, now')
                                   THEN Absent ELSE seenIn(i)[k]]
  BY <1>1, <1>5 DEF seenIn
<1>7. pendingIn(i)' = [k \in Keys |-> IF Store(i)!Passed(k, now')
                                      THEN None ELSE pendingIn(i)[k]]
  BY <1>1, <1>5 DEF pendingIn
<1>8. saidBy(i)' = Quiet /\ up' = up
  BY DEF Tick, saidBy
<1> QED
  BY <1>1, <1>6, <1>7, <1>8, StoreRecords DEF Store!Tick, Store!Next

(* Past the end nothing is found, and there is nothing to delete. *)
LEMMA NothingPastEnd ==
    ASSUME Inv, up, currentdb >= size, UNCHANGED executorVars,
           Answered(Null) \/ Answered(Done("del")), NEW i \in Ids
    PROVE  Store(i)!Next
<1>1. TablesOf(i)' = TablesOf(i) /\ now' = now /\ up' = up
  BY DEF Answered, TablesOf, executorVars
<1>2. CASE i # currentdb
  <2>1. saidBy(i)' = Quiet
    BY <1>2 DEF Answered, saidBy, executorVars
  <2> QED
    BY <1>1, <2>1, Unheard
<1>3. CASE i = currentdb
  <2>1. TablesOf(i) = Blank
    BY <1>3 DEF Inv, Beyond
  <2>2. seenIn(i) = [k \in Keys |-> Absent]
    BY <2>1 DEF seenIn, LateIn, Blank
  <2>3. saidBy(i)' = reply'
    BY <1>3 DEF saidBy, executorVars
  <2>4. PICK k \in Keys : TRUE
    BY KeysAssumption
  <2>5. Store(i)!Read(k) \/ Store(i)!Remove(k)
    BY <1>1, <2>2, <2>3, SameTables, StoreRecords
    DEF Answered, Store!Read, Store!Remove
  <2> QED
    BY <2>5 DEF Store!Next
<1> QED
  BY <1>2, <1>3

LEMMA EveryStep ==
    ASSUME Inv, [ExecutorNext]_allVars, NEW i \in Ids
    PROVE  [Store(i)!Next]_(Store(i)!vars)
<1>1. TypeOK
  BY DEF Inv, ExecutorInv, ExecutorTypeOK
<1>2. CASE execute
  <2>1. CASE ~up'
    BY <1>1, <1>2, <2>1, CommandClock, AllDie DEF execute, CrashAll
  <2>2. CASE up' /\ i = currentdb
    <3>1. InUse(i) /\ InUse(i)'
      BY <1>2, <2>2, CurrentView DEF execute, executorVars
    <3>2. T!Next
      BY <1>1, <1>2, CommandServed DEF execute
    <3> QED
      BY <3>1, <3>2, InUseServed
  <2>3. CASE up' /\ i # currentdb
    <3>1. up /\ now' = now
      BY <1>2, CommandClock DEF execute
    <3>2. TablesOf(i)' = TablesOf(i) /\ saidBy(i)' = Quiet
      BY <1>2, <2>3 DEF execute, executorVars, TablesOf, saidBy
    <3>3. up' = up
      BY <1>1, <1>2, <2>3, <3>1, CommandTyped DEF execute, TypeOK
    <3> QED
      BY <3>1, <3>2, <3>3, Unheard
  <2> QED
    BY <2>1, <2>2, <2>3
<1>3. CASE executePastEnd
  BY <1>3, Refused, NothingPastEnd, AllDie DEF executePastEnd
<1>4. CASE noCommand
  <2>1. CASE Answered(Quiet) /\ UNCHANGED executorVars
    <3>1. /\ TablesOf(i)' = TablesOf(i) /\ now' = now /\ up' = up
          /\ saidBy(i)' = Quiet
      BY <2>1 DEF Answered, TablesOf, saidBy, executorVars
    <3> QED
      BY <3>1, Unheard
  <2> QED
    BY <1>4, <2>1, Refused DEF noCommand
<1>5. ASSUME NEW c \in Clients, NEW numeral \in Numbers, doSelect(c, numeral)
      PROVE  Store(i)!Next
  <2> DEFINE n == Parsed(numeral)
  <2>1. CASE Refuse
    BY <1>5, <2>1, Refused DEF Refuse, doSelect
  <2>2. CASE /\ n = currentdb \/ n < Limit
             /\ IF n = currentdb
                THEN UNCHANGED << db, expire, currentdb, size, shelf >>
                ELSE Change(n)
             /\ reply' = Quiet
             /\ UNCHANGED << now, up >>
    <3>1. n # currentdb => n \in Ids
      BY <2>2, ParsedTyped, DbsAssumption DEF Ids
    <3>2. TablesOf(i)' = TablesOf(i)
      <4>1. CASE n = currentdb
        BY <2>2, <4>1 DEF TablesOf
      <4> QED
        BY <2>2, <3>1, <4>1, ChangeKeeps
    <3>3. saidBy(i)' = Quiet
      BY <2>2 DEF saidBy
    <3> QED
      BY <2>2, <3>2, <3>3, Unheard
  <2> QED
    BY <1>5, <2>1, <2>2 DEF doSelect
<1>6. CASE selectWord \/ selectNothing
  BY <1>6, Refused, AllDie DEF selectWord, selectNothing, Refuse
<1>7. CASE Tick /\ UNCHANGED executorVars
  BY <1>7, TicksEverywhere
<1>8. CASE Restart /\ UNCHANGED executorVars
  <2>1. TablesOf(i)' = TablesOf(i) /\ now' = now
    BY <1>8 DEF Restart, TablesOf, executorVars
  <2>2. saidBy(i)' = Quiet /\ ~up /\ up' = TRUE
    BY <1>8 DEF Restart, saidBy
  <2> QED
    BY <2>1, <2>2, SameTables, StoreRecords DEF Store!Restart, Store!Next
<1>9. CASE UNCHANGED allVars
  <2>1. TablesOf(i)' = TablesOf(i) /\ now' = now
    BY <1>9 DEF TablesOf, allVars, vars, executorVars
  <2>2. saidBy(i)' = saidBy(i) /\ up' = up
    BY <1>9 DEF saidBy, allVars, vars, executorVars
  <2> QED
    BY <2>1, <2>2, SameTables DEF Store!vars
<1> QED
  BY <1>2, <1>3, <1>4, <1>5, <1>6, <1>7, <1>8, <1>9 DEF ExecutorNext

(* However selects, refused selects, growth of the list and commands follow  *)
(* one another, each number of a database is a store of its own, whose keys  *)
(* vanish at their deadlines also while another is in use (doSelect,         *)
(* DbList::resize, Executor::execute).                                       *)
THEOREM EachIsAStoreHolds == ExecutorSpec => EachIsAStore
<1>1. ExecutorInit => \A i \in Ids : Store(i)!Init
  <2> SUFFICES ASSUME ExecutorInit, NEW i \in Ids
               PROVE  Store(i)!Init
    OBVIOUS
  <2>1. TablesOf(i) = Blank
    BY DEF ExecutorInit, Init, TablesOf, Blank
  <2>2. /\ seenIn(i) = [k \in Keys |-> Absent]
        /\ pendingIn(i) = [k \in Keys |-> None]
    BY <2>1 DEF seenIn, pendingIn, LateIn, Blank, Absent, NullPtr
  <2>3. saidBy(i) = Quiet /\ now = 0 /\ up = TRUE
    BY DEF ExecutorInit, Init, saidBy
  <2> QED
    BY <2>2, <2>3, StoreRecords DEF Store!Init
<1>2. /\ Inv
      /\ [ExecutorNext]_allVars
      => [\A i \in Ids : [Store(i)!Next]_(Store(i)!vars)]_allVars
  BY EveryStep
<1> QED
  BY <1>1, <1>2, InvHolds, PTL DEF ExecutorSpec, EachIsAStore
=============================================================================
