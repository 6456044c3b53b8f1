------------------------------ MODULE DbProofs ------------------------------
(***************************************************************************)
(* For every set of keys, words, scores and lifetimes: Db keeps its types, *)
(* and implements the eager store TtlStore.                                *)
(***************************************************************************)
EXTENDS Db, TLAPS

(* The operations of SdbObject return typed objects, and members of the sets *)
(* Additions and Removals the abstract store is written with.                *)
Subjects == Objects \cup Creations

(* The type of an object says which payload it has. *)
LEMMA Shapes ==
    ASSUME NEW o \in Subjects
    PROVE  /\ o.type = "list" => o \in ListObjects
           /\ o.type = "hash" => o \in HashObjects
           /\ o.type = "set" => o \in SetObjects
           /\ o.type = "orderedset" => o \in OsetObjects
           /\ o.type = "string" => o \in StringObjects
           /\ o.type \in {"null", "string", "list", "hash", "set", "orderedset"}
           /\ o \notin {Absent, NullPtr, Unsupported}
<1>1. CASE o \in Creations
  <2>1. << >> \in Seq(Vals)
    OBVIOUS
  <2>2. [f \in Vals |-> None] \in [Vals -> Vals \cup {None}]
    OBVIOUS
  <2>3. [s \in Scores |-> None] \in [Scores -> Vals \cup {None}]
    OBVIOUS
  <2>4. CASE o = CreateStrObject
    BY <2>4 DEF CreateStrObject, Absent, NullPtr, Unsupported
  <2>5. CASE o = CreateListObject
    BY <2>5, <2>1 DEF CreateListObject, ListObjects, Absent, NullPtr, Unsupported
  <2>6. CASE o = CreateHashObject
    BY <2>6, <2>2 DEF CreateHashObject, HashObjects, Absent, NullPtr, Unsupported
  <2>7. CASE o = CreateSetObject
    BY <2>7 DEF CreateSetObject, SetObjects, Absent, NullPtr, Unsupported
  <2>8. CASE o = CreateOSetObject
    BY <2>8, <2>3 DEF CreateOSetObject, OsetObjects, Absent, NullPtr, Unsupported
  <2> QED
    BY <1>1, <2>4, <2>5, <2>6, <2>7, <2>8 DEF Creations
<1>2. CASE o \in Objects
  BY <1>2 DEF Objects, StringObjects, ListObjects, HashObjects, SetObjects,
              OsetObjects, Absent, NullPtr, Unsupported
<1> QED
  BY <1>1, <1>2 DEF Subjects

(* One lemma per operator: it returns an object, or throws, and an object *)
(* found in the table stays of its type.                                  *)
LEMMA SetTyped ==
    ASSUME NEW o \in Subjects, NEW v \in Vals
    PROVE  set(o, v) \in Objects \cup {Unsupported}
<1>1. << Encoded[v] >> \in Seq(Vals)
  BY EncodedAssumption
<1> QED
  BY <1>1 DEF set, Objects, StringObjects

LEMMA AppendTyped ==
    ASSUME NEW o \in Subjects, NEW v \in Vals
    PROVE  append(o, v) \in Objects \cup {Unsupported}
<1>1. << v >> \in Seq(Vals)
  OBVIOUS
<1>2. o.type = "string" => Append(o.str, v) \in Seq(Vals)
  BY Shapes DEF StringObjects
<1> QED
  BY <1>1, <1>2 DEF append, Objects, StringObjects

LEMMA PushTyped ==
    ASSUME NEW o \in Subjects, NEW v \in Vals
    PROVE  push(o, v) \in Objects \cup {Unsupported}
<1>1. CASE o.type = "list"
  <2>1. o \in ListObjects /\ Append(o.list, v) \in Seq(Vals)
    BY <1>1, Shapes DEF ListObjects
  <2> QED
    BY <1>1, <2>1 DEF push, Objects, ListObjects
<1> QED
  BY <1>1 DEF push

LEMMA PopTyped ==
    ASSUME NEW o \in ListObjects, o.list # << >>
    PROVE  pop(o) \in Objects /\ Head(o.list) \in Vals
<1>1. Tail(o.list) \in Seq(Vals) /\ Head(o.list) \in Vals
  BY DEF ListObjects
<1> QED
  BY <1>1 DEF pop, Objects, ListObjects

LEMMA HaddTyped ==
    ASSUME NEW o \in Subjects, NEW f \in Vals, NEW v \in Vals
    PROVE  hadd(o, f, v) \in Objects \cup {Unsupported}
BY Shapes DEF hadd, Objects, HashObjects

LEMMA HdelTyped ==
    ASSUME NEW o \in Objects, NEW f \in Vals
    PROVE  hdel(o, f) \in Objects
<1>1. o \in Subjects
  BY DEF Subjects
<1> QED
  BY <1>1, Shapes DEF hdel, Objects, HashObjects

LEMMA SaddTyped ==
    ASSUME NEW o \in Subjects, NEW v \in Vals
    PROVE  sadd(o, v) \in Objects \cup {Unsupported}
BY Shapes DEF sadd, Objects, SetObjects

LEMMA SdelTyped ==
    ASSUME NEW o \in Subjects, NEW v \in Vals
    PROVE  sdel(o, v) \in Objects \cup {Unsupported}
BY Shapes DEF sdel, Objects, SetObjects

LEMMA OaddTyped ==
    ASSUME NEW o \in Subjects, NEW s \in Scores, NEW v \in Vals
    PROVE  oadd(o, s, v) \in Objects \cup {Unsupported}
BY Shapes DEF oadd, Objects, OsetObjects

LEMMA OdelTyped ==
    ASSUME NEW o \in Subjects, NEW s \in Scores
    PROVE  odel(o, s) \in Objects \cup {Unsupported}
BY Shapes DEF odel, Objects, OsetObjects

(* Each command's operator is one of the additions or removals. *)
LEMMA AdditionsCover ==
    ASSUME NEW o, NEW v \in Vals
    PROVE  /\ set(o, v) \in Additions(o)
           /\ append(o, v) \in Additions(o)
           /\ push(o, v) \in Additions(o)
           /\ sadd(o, v) \in Additions(o)
           /\ \A f \in Vals : hadd(o, f, v) \in Additions(o)
           /\ \A s \in Scores : oadd(o, s, v) \in Additions(o)
<1>1. \A x \in {set(o, v), append(o, v), push(o, v), sadd(o, v)} :
         x \in Additions(o)
  BY DEF Additions
<1>2. ASSUME NEW f \in Vals
      PROVE  hadd(o, f, v) \in Additions(o)
  BY DEF Additions
<1>3. ASSUME NEW s \in Scores
      PROVE  oadd(o, s, v) \in Additions(o)
  BY DEF Additions
<1> QED
  BY <1>1, <1>2, <1>3

LEMMA RemovalsCover ==
    ASSUME NEW o, NEW v \in Vals
    PROVE  /\ hdel(o, v) \in Removals(o)
           /\ sdel(o, v) \in Removals(o)
<1>1. \A x \in {hdel(o, v), sdel(o, v)} : x \in Removals(o)
  BY DEF Removals
<1> QED
  BY <1>1

LEMMA OdelCovers ==
    ASSUME NEW o, NEW s \in Scores
    PROVE  odel(o, s) \in Removals(o)
BY DEF Removals
-----------------------------------------------------------------------------
LEMMA ReplyTyped ==
    /\ {Ok, Null, Error, Died, Quiet} \subseteq Replies
    /\ {Done("add"), Done("take"), Done("del"), Done("expire")} \subseteq Replies
    /\ \A o \in Objects : From(o) \in Replies
    /\ \A v \in Vals : Element(v) \in Replies
BY DEF Replies, Done, From, Element

LEMMA FindTyped ==
    ASSUME TypeOK, NEW k \in Keys
    PROVE  /\ find(k) \in Objects \cup {Absent}
           /\ find(k) # Absent => find(k) \in Subjects
BY DEF find, TypeOK, Subjects

LEMMA OpenedTyped ==
    ASSUME TypeOK, NEW k \in Keys, NEW c \in Creations
    PROVE  Opened(k, c) \in Subjects
BY FindTyped DEF Opened, Subjects

LEMMA AnswerTyped ==
    ASSUME TypeOK, NEW k \in Keys, NEW r \in Replies, Answer(k, r)
    PROVE  TypeOK'
<1>1. db' \in [Keys -> Objects \cup {Absent, NullPtr}]
  BY DEF TypeOK, Answer, Collected
<1>2. expire' \in [Keys -> Int \cup {None}]
  BY DEF TypeOK, Answer, Collected
<1> QED
  BY <1>1, <1>2 DEF TypeOK, Answer

LEMMA CommitTyped ==
    ASSUME TypeOK, NEW k \in Keys, NEW obj \in Objects \cup {Unsupported},
           NEW r \in Replies, Commit(k, obj, r)
    PROVE  TypeOK'
<1>1. CASE obj = Unsupported
  BY <1>1, AnswerTyped, ReplyTyped DEF Commit
<1>2. CASE obj # Unsupported
  <2>1. db' \in [Keys -> Objects \cup {Absent, NullPtr}]
    BY <1>2 DEF TypeOK, Commit, Collected
  <2>2. expire' \in [Keys -> Int \cup {None}]
    BY <1>2 DEF TypeOK, Commit, Collected
  <2> QED
    BY <1>2, <2>1, <2>2 DEF TypeOK, Commit
<1> QED
  BY <1>1, <1>2

LEMMA QueryTyped ==
    ASSUME TypeOK, NEW k \in Keys, NEW types, Query(k, types)
    PROVE  TypeOK'
<1>1. PICK r \in Replies : Answer(k, r)
  BY FindTyped, ReplyTyped DEF Query
<1> QED
  BY <1>1, AnswerTyped

LEMMA CrashTyped ==
    ASSUME TypeOK, Crash
    PROVE  TypeOK'
BY ReplyTyped DEF Crash, TypeOK
-----------------------------------------------------------------------------
LEMMA DeadlineTyped ==
    ASSUME NEW t \in Int
    PROVE  /\ Deadline(t) \in Int
           /\ Deadline(t) <= t
           /\ t - Second < Deadline(t)
BY TimeAssumption DEF Deadline

(* Each command of the server leaves typed tables and a typed reply. *)
LEMMA StringsTyped ==
    ASSUME TypeOK, NEW k \in Keys, Strings(k)
    PROVE  TypeOK'
<1>1. ASSUME NEW v \in Vals, doSset(k, v)
      PROVE  TypeOK'
  <2>1. set(Opened(k, CreateStrObject), v) \in Objects \cup {Unsupported}
    BY OpenedTyped, SetTyped DEF Creations
  <2> QED
    BY <1>1, <2>1, CommitTyped, ReplyTyped DEF doSset
<1>2. ASSUME NEW v \in Vals, doAppend(k, v)
      PROVE  TypeOK'
  <2>1. append(Opened(k, CreateStrObject), v) \in Objects \cup {Unsupported}
    BY OpenedTyped, AppendTyped DEF Creations
  <2> QED
    BY <1>2, <2>1, CommitTyped, ReplyTyped DEF doAppend
<1>3. ASSUME NEW ok \in BOOLEAN, doGetRange(k, ok)
      PROVE  TypeOK'
  BY <1>3, AnswerTyped, ReplyTyped, QueryTyped DEF doGetRange
<1> QED
  BY <1>1, <1>2, <1>3, QueryTyped, SentAssumption DEF Strings, doSget, doStrlen

LEMMA ListsTyped ==
    ASSUME TypeOK, NEW k \in Keys, Lists(k)
    PROVE  TypeOK'
<1>1. ASSUME NEW v \in Vals, doPush(k, v)
      PROVE  TypeOK'
  <2>1. push(Opened(k, CreateListObject), v) \in Objects \cup {Unsupported}
    BY OpenedTyped, PushTyped DEF Creations
  <2> QED
    BY <1>1, <2>1, CommitTyped, ReplyTyped DEF doPush
<1>2. ASSUME doPop(k)
      PROVE  TypeOK'
  <2>1. CASE find(k) = Absent \/ find(k).type # "list"
    BY <1>2, <2>1, AnswerTyped, ReplyTyped DEF doPop
  <2>2. CASE Crash
    BY <2>2, CrashTyped
  <2>3. CASE /\ find(k) # Absent /\ find(k).type = "list"
             /\ find(k).list # << >>
             /\ Commit(k, pop(find(k)), Element(Head(find(k).list)))
    <3>1. find(k) \in ListObjects
      BY <2>3, FindTyped, Shapes
    <3> QED
      BY <2>3, <3>1, PopTyped, CommitTyped, ReplyTyped
  <2> QED
    BY <1>2, <2>1, <2>2, <2>3 DEF doPop
<1> QED
  BY <1>1, <1>2, QueryTyped, SentAssumption DEF Lists, doLGetAll, doLlen

LEMMA HashesTyped ==
    ASSUME TypeOK, NEW k \in Keys, Hashes(k)
    PROVE  TypeOK'
<1>1. ASSUME NEW f \in Vals, NEW v \in Vals, doHadd(k, f, v)
      PROVE  TypeOK'
  <2>1. hadd(Opened(k, CreateHashObject), f, v) \in Objects \cup {Unsupported}
    BY OpenedTyped, HaddTyped DEF Creations
  <2> QED
    BY <1>1, <2>1, CommitTyped, ReplyTyped DEF doHadd
<1>2. ASSUME NEW f \in Vals, doHdel(k, f)
      PROVE  TypeOK'
  <2>1. CASE Answer(k, Null)
    BY <2>1, AnswerTyped, ReplyTyped
  <2>2. CASE find(k) # Absent /\ Commit(k, hdel(find(k), f), Done("take"))
    BY <2>2, FindTyped, HdelTyped, CommitTyped, ReplyTyped
  <2> QED
    BY <1>2, <2>1, <2>2, CrashTyped DEF doHdel
<1> QED
  BY <1>1, <1>2, QueryTyped, SentAssumption DEF Hashes, doHgetall

LEMMA SetsTyped ==
    ASSUME TypeOK, NEW k \in Keys, Sets(k)
    PROVE  TypeOK'
<1>1. ASSUME NEW v \in Vals, doSadd(k, v)
      PROVE  TypeOK'
  <2>1. sadd(Opened(k, CreateSetObject), v) \in Objects \cup {Unsupported}
    BY OpenedTyped, SaddTyped DEF Creations
  <2> QED
    BY <1>1, <2>1, CommitTyped, ReplyTyped DEF doSadd
<1>2. ASSUME NEW v \in Vals, doSdel(k, v)
      PROVE  TypeOK'
  <2>1. find(k) # Absent => sdel(find(k), v) \in Objects \cup {Unsupported}
    BY FindTyped, SdelTyped
  <2> QED
    BY <1>2, <2>1, AnswerTyped, CommitTyped, ReplyTyped DEF doSdel
<1> QED
  BY <1>1, <1>2, QueryTyped, SentAssumption DEF Sets, doSgetall

LEMMA OsetsTyped ==
    ASSUME TypeOK, NEW k \in Keys, Osets(k)
    PROVE  TypeOK'
<1>1. ASSUME NEW s \in Scores, NEW v \in Vals, doOadd(k, s, v)
      PROVE  TypeOK'
  <2>1. oadd(Opened(k, CreateOSetObject), s, v) \in Objects \cup {Unsupported}
    BY OpenedTyped, OaddTyped DEF Creations
  <2> QED
    BY <1>1, <2>1, CommitTyped, ReplyTyped DEF doOadd
<1>2. ASSUME NEW s \in Scores, doOdel(k, s)
      PROVE  TypeOK'
  <2>1. find(k) # Absent => odel(find(k), s) \in Objects \cup {Unsupported}
    BY FindTyped, OdelTyped
  <2> QED
    BY <1>2, <2>1, AnswerTyped, CommitTyped, ReplyTyped DEF doOdel
<1>3. ASSUME malformedScore(k)
      PROVE  TypeOK'
  BY <1>3, AnswerTyped, ReplyTyped DEF malformedScore
<1> QED
  BY <1>1, <1>2, <1>3, QueryTyped, SentAssumption DEF Osets, doOgetall

LEMMA LivesTyped ==
    ASSUME TypeOK, NEW k \in Keys, Lives(k)
    PROVE  TypeOK'
<1>1. CASE doDel(k)
  BY <1>1, ReplyTyped DEF doDel, TypeOK
<1>2. ASSUME NEW ttl \in Ttls \cup MilliTtls, addExpire(k, ttl)
      PROVE  TypeOK'
  <2>1. Deadline(now + ttl) \in Int
    BY TimeAssumption, DeadlineTyped DEF TypeOK
  <2> QED
    BY <1>2, <2>1, ReplyTyped DEF addExpire, TypeOK
<1> QED
  BY <1>1, <1>2 DEF Lives, doExpire, doPrecisionExpire

LEMMA CommandTyped ==
    ASSUME TypeOK, Command
    PROVE  TypeOK'
<1>1. ASSUME NEW k \in Keys, doObject(k)
      PROVE  TypeOK'
  BY <1>1, QueryTyped DEF doObject
<1>2. ASSUME NEW cmd \in Commands, missingArguments(cmd)
      PROVE  TypeOK'
  <2>1. CASE Crash
    BY <2>1, CrashTyped
  <2> QED
    BY <1>2, <2>1, ReplyTyped DEF missingArguments, TypeOK
<1> QED
  BY <1>1, <1>2, StringsTyped, ListsTyped, HashesTyped, SetsTyped, OsetsTyped,
     LivesTyped DEF Command
-----------------------------------------------------------------------------
(* The tables hold typed objects and deadlines, and replies are well formed, *)
(* whatever commands arrive in whatever order.                               *)
THEOREM TypeCorrect == Spec => []TypeOK
<1>1. Init => TypeOK
  BY ReplyTyped DEF Init, TypeOK
<1>2. TypeOK /\ [Next]_vars => TypeOK'
  <2> SUFFICES ASSUME TypeOK, [Next]_vars PROVE TypeOK'
    OBVIOUS
  <2>1. CASE Tick
    BY <2>1, ReplyTyped DEF Tick, TypeOK
  <2>2. CASE Restart
    BY <2>2, ReplyTyped DEF Restart, TypeOK
  <2>3. CASE UNCHANGED vars
    BY <2>3 DEF vars, TypeOK
  <2> QED
    BY <2>1, <2>2, <2>3, CommandTyped DEF Next
<1> QED
  BY <1>1, <1>2, PTL DEF Spec
-----------------------------------------------------------------------------
(* Looking a key up, which may collect it, changes nothing clients see. *)
LEMMA AnswerUnseen ==
    ASSUME TypeOK, NEW k \in Keys, NEW r, Answer(k, r)
    PROVE  seen' = seen /\ pending' = pending /\ reply' = r
           /\ now' = now /\ up' = up
<1>1. \A j \in Keys : find(j)' = find(j)
  BY DEF Answer, Collected, find, Expired, TypeOK, Absent, NullPtr
<1>2. \A j \in Keys : (IF Expired(j) THEN None ELSE expire[j])'
                        = IF Expired(j) THEN None ELSE expire[j]
  BY DEF Answer, Collected, Expired, TypeOK
<1> QED
  BY <1>1, <1>2 DEF seen, pending, Answer

(* A command that succeeds changes the one key it names, to the new object; *)
(* its deadline stays as clients know it.                                   *)
LEMMA CommitSeen ==
    ASSUME TypeOK, NEW k \in Keys, NEW obj \in Objects, NEW r,
           Commit(k, obj, r)
    PROVE  /\ seen' = [seen EXCEPT ![k] = obj]
           /\ pending' = pending /\ reply' = r /\ now' = now /\ up' = up
<1>1. obj \notin {Unsupported, Absent, NullPtr}
  BY Shapes DEF Subjects
<1>2. \A j \in Keys : find(j)' = IF j = k THEN obj ELSE find(j)
  BY <1>1 DEF Commit, Collected, find, Expired, TypeOK
<1>3. \A j \in Keys : (IF Expired(j) THEN None ELSE expire[j])'
                        = IF Expired(j) THEN None ELSE expire[j]
  BY <1>1 DEF Commit, Collected, Expired, TypeOK
<1> QED
  BY <1>1, <1>2, <1>3 DEF seen, pending, Commit

(* TtlStore's copy of SdbObject is the same module. *)
LEMMA SameRecords ==
    /\ T!Absent = Absent /\ T!Unsupported = Unsupported
    /\ T!Ok = Ok /\ T!Null = Null /\ T!Error = Error /\ T!Died = Died
    /\ T!Quiet = Quiet
    /\ \A kind : T!Done(kind) = Done(kind)
    /\ \A o : T!From(o) = From(o)
    /\ \A v : T!Element(v) = Element(v)
BY DEF T!Absent, Absent, T!Unsupported, Unsupported, T!Ok, Ok, T!Null, Null,
       T!Error, Error, T!Died, Died, T!Quiet, Quiet, T!Done, Done, T!From, From,
       T!Element, Element

LEMMA SameObjects ==
    /\ T!Creations = Creations
    /\ T!ListObjects = ListObjects
    /\ \A o : T!pop(o) = pop(o)
BY SameRecords
   DEF T!Creations, Creations, T!CreateStrObject, CreateStrObject,
       T!CreateListObject, CreateListObject, T!CreateHashObject,
       CreateHashObject, T!CreateSetObject, CreateSetObject,
       T!CreateOSetObject, CreateOSetObject, T!ListObjects, ListObjects,
       T!pop, pop

LEMMA SameChanges ==
    ASSUME NEW o
    PROVE  T!Additions(o) = Additions(o) /\ T!Removals(o) = Removals(o)
<1>1. \A v : /\ T!set(o, v) = set(o, v)
             /\ T!append(o, v) = append(o, v)
             /\ T!push(o, v) = push(o, v)
             /\ T!sadd(o, v) = sadd(o, v)
             /\ T!sdel(o, v) = sdel(o, v)
  BY SameRecords DEF T!set, set, T!append, append, T!push, push, T!sadd, sadd,
                     T!sdel, sdel
<1>2. \A f, v : T!hadd(o, f, v) = hadd(o, f, v) /\ T!hdel(o, f) = hdel(o, f)
  BY SameRecords DEF T!hadd, hadd, T!hdel, hdel
<1>3. \A s, v : T!oadd(o, s, v) = oadd(o, s, v) /\ T!odel(o, s) = odel(o, s)
  BY SameRecords DEF T!oadd, oadd, T!odel, odel
<1>4. ASSUME NEW x
      PROVE  x \in T!Additions(o) <=> x \in Additions(o)
  BY <1>1, <1>2, <1>3 DEF T!Additions, Additions
<1>5. ASSUME NEW x
      PROVE  x \in T!Removals(o) <=> x \in Removals(o)
  BY <1>1, <1>2, <1>3 DEF T!Removals, Removals
<1> QED
  BY <1>4, <1>5

LEMMA CommitWrites ==
    ASSUME TypeOK, up, NEW k \in Keys, NEW c \in Creations,
           NEW obj \in Additions(Opened(k, c)), obj \in Objects \cup {Unsupported},
           Commit(k, obj, Done("add"))
    PROVE  T!Write(k) \/ T!Reject
<1>1. CASE obj = Unsupported
  BY <1>1, AnswerUnseen, SameRecords DEF Commit, T!Reject
<1>2. CASE obj # Unsupported
  <2>1. seen[k] = find(k)
    BY DEF seen
  <2>2. Opened(k, c) \in IF seen[k] = Absent THEN Creations ELSE {seen[k]}
    BY <2>1 DEF Opened
  <2>3. /\ seen' = [seen EXCEPT ![k] = obj]
        /\ pending' = pending /\ reply' = Done("add") /\ now' = now /\ up' = up
    BY <1>2, CommitSeen
  <2> QED
    BY <1>2, <2>2, <2>3, SameRecords, SameObjects, SameChanges DEF T!Write
<1> QED
  BY <1>1, <1>2

LEMMA CommitShrinks ==
    ASSUME TypeOK, up, NEW k \in Keys, find(k) # Absent,
           NEW obj \in Removals(find(k)), obj \in Objects \cup {Unsupported},
           Commit(k, obj, Done("take"))
    PROVE  T!Shrink(k) \/ T!Reject
<1>1. CASE obj = Unsupported
  BY <1>1, AnswerUnseen, SameRecords DEF Commit, T!Reject
<1>2. CASE obj # Unsupported
  <2>1. seen[k] = find(k)
    BY DEF seen
  <2>2. /\ seen' = [seen EXCEPT ![k] = obj]
        /\ pending' = pending /\ reply' = Done("take") /\ now' = now /\ up' = up
    BY <1>2, CommitSeen
  <2> QED
    BY <1>2, <2>1, <2>2, SameRecords, SameChanges DEF T!Shrink
<1> QED
  BY <1>1, <1>2

LEMMA QueryReads ==
    ASSUME TypeOK, up, NEW k \in Keys, NEW types, Query(k, types)
    PROVE  T!Read(k) \/ T!Reject
<1>1. seen[k] = find(k)
  BY DEF seen
<1>2. CASE find(k) = Absent
  BY <1>1, <1>2, AnswerUnseen, SameRecords DEF Query, T!Read
<1>3. CASE find(k) # Absent /\ find(k).type \in types
  BY <1>1, <1>3, AnswerUnseen, SameRecords DEF Query, T!Read
<1>4. CASE find(k) # Absent /\ find(k).type \notin types
  BY <1>4, AnswerUnseen, SameRecords DEF Query, T!Reject
<1> QED
  BY <1>2, <1>3, <1>4

LEMMA AnswersRefine ==
    ASSUME TypeOK, up, NEW k \in Keys
    PROVE  /\ find(k) = Absent /\ Answer(k, Null) => T!Read(k)
           /\ Answer(k, Error) => T!Reject
<1>1. seen[k] = find(k)
  BY DEF seen
<1> QED
  BY <1>1, AnswerUnseen, SameRecords DEF T!Read, T!Reject

LEMMA CrashDies ==
    ASSUME TypeOK, up, Crash
    PROVE  T!Die
<1>1. seen' = [k \in Keys |-> Absent]
  BY DEF Crash, seen, find, Expired, Absent, NullPtr
<1>2. pending' = [k \in Keys |-> None]
  BY DEF Crash, pending, Expired
<1> QED
  BY <1>1, <1>2, SameRecords DEF Crash, T!Die

LEMMA DelRemoves ==
    ASSUME TypeOK, NEW k \in Keys, doDel(k)
    PROVE  T!Remove(k)
<1>1. seen' = [seen EXCEPT ![k] = Absent]
  BY DEF doDel, seen, find, Expired, TypeOK, Absent, NullPtr
<1>2. pending' = pending
  BY DEF doDel, pending, Expired
<1> QED
  BY <1>1, <1>2, SameRecords DEF doDel, Serve, T!Remove

(* Expire sets the first deadline, which may have passed before it is set;  *)
(* it keeps one that stands, and on an expired key it sets nothing that is  *)
(* seen: the key is not there.                                              *)
LEMMA ExpireRefines ==
    ASSUME TypeOK, up, NEW k \in Keys, NEW ttl \in Ttls \cup MilliTtls,
           addExpire(k, ttl)
    PROVE  T!SetDeadline(k) \/ T!KeepDeadline(k)
<1> DEFINE d == Deadline(now + ttl)
<1>1. /\ d \in Int
      /\ d \in (now + ttl - Second + 1) .. (now + ttl)
  BY DeadlineTyped, TimeAssumption DEF TypeOK
<1>2. seen[k] = find(k) /\ pending[k] = IF Expired(k) THEN None ELSE expire[k]
  BY DEF seen, pending
<1>3. CASE expire[k] # None
  <2>1. seen' = seen /\ pending' = pending
    BY <1>3 DEF addExpire, seen, pending, find, Expired
  <2>2. pending[k] # None \/ seen[k] = Absent
    BY <1>2, <1>3 DEF find
  <2> QED
    BY <2>1, <2>2, SameRecords DEF addExpire, T!KeepDeadline
<1>4. CASE expire[k] = None /\ now > d
  <2>1. expire' = [expire EXCEPT ![k] = d] /\ db' = db /\ now' = now
    BY <1>4 DEF addExpire
  <2>2. d # None
    BY <1>1, NoneAssumption
  <2>3. seen' = [seen EXCEPT ![k] = Absent]
    BY <1>1, <1>4, <2>1, <2>2 DEF seen, find, Expired, TypeOK
  <2>4. pending' = pending
    BY <1>1, <1>4, <2>1, <2>2 DEF pending, Expired, TypeOK
  <2>5. pending[k] = None
    BY <1>2, <1>4
  <2> QED
    BY <1>1, <1>4, <2>3, <2>4, <2>5, SameRecords DEF addExpire, T!SetDeadline
<1>5. CASE expire[k] = None /\ ~(now > d)
  <2>1. expire' = [expire EXCEPT ![k] = d] /\ db' = db /\ now' = now
    BY <1>5 DEF addExpire
  <2>2. d # None
    BY <1>1, NoneAssumption
  <2>3. seen' = seen
    BY <1>1, <1>5, <2>1, <2>2 DEF seen, find, Expired, TypeOK
  <2>4. pending' = [pending EXCEPT ![k] = d]
    BY <1>1, <1>5, <2>1, <2>2 DEF pending, Expired, TypeOK
  <2>5. pending[k] = None
    BY <1>2, <1>5
  <2> QED
    BY <1>1, <1>5, <2>3, <2>4, <2>5, SameRecords DEF addExpire, T!SetDeadline
<1> QED
  BY <1>3, <1>4, <1>5

(* The tick at which a deadline passes takes the key from the clients' view. *)
LEMMA TickRefines ==
    ASSUME TypeOK, Tick
    PROVE  T!Tick
<1>1. now' = now + 1 /\ db' = db /\ expire' = expire
  BY DEF Tick
<1>2. \A k \in Keys : T!Passed(k, now') <=>
                        ~Expired(k) /\ expire[k] # None /\ now' > expire[k]
  BY DEF T!Passed, pending
<1>3. \A k \in Keys : Expired(k)' <=> Expired(k) \/ T!Passed(k, now')
  BY <1>1, <1>2 DEF Expired, TypeOK
<1>4. seen' = [k \in Keys |-> IF T!Passed(k, now') THEN Absent ELSE seen[k]]
  <2>1. \A k \in Keys : find(k)' = IF T!Passed(k, now') THEN Absent ELSE find(k)
    BY <1>1, <1>3 DEF find
  <2> QED
    BY <2>1 DEF seen
<1>5. pending' = [k \in Keys |->
                    IF T!Passed(k, now') THEN None ELSE pending[k]]
  BY <1>1, <1>3 DEF pending
<1> QED
  BY <1>1, <1>4, <1>5, SameRecords DEF Tick, T!Tick
-----------------------------------------------------------------------------
(* Every command is a step of the eager store. *)
Served(k) == \/ T!Write(k) \/ T!Shrink(k) \/ T!Pop(k) \/ T!Read(k)
             \/ T!Remove(k) \/ T!SetDeadline(k) \/ T!KeepDeadline(k)
             \/ T!Reject \/ T!Die

LEMMA StringsServed ==
    ASSUME TypeOK, NEW k \in Keys, Strings(k)
    PROVE  Served(k)
<1>1. ASSUME NEW v \in Vals, doSset(k, v)
      PROVE  Served(k)
  <2>1. /\ Opened(k, CreateStrObject) \in Subjects
        /\ CreateStrObject \in Creations
    BY OpenedTyped DEF Creations
  <2> QED
    BY <1>1, <2>1, SetTyped, AdditionsCover, CommitWrites
    DEF doSset, Serve, Served
<1>2. ASSUME NEW v \in Vals, doAppend(k, v)
      PROVE  Served(k)
  <2>1. /\ Opened(k, CreateStrObject) \in Subjects
        /\ CreateStrObject \in Creations
    BY OpenedTyped DEF Creations
  <2> QED
    BY <1>2, <2>1, AppendTyped, AdditionsCover, CommitWrites
    DEF doAppend, Serve, Served
<1>3. ASSUME NEW ok \in BOOLEAN, doGetRange(k, ok)
      PROVE  Served(k)
  BY <1>3, AnswersRefine, QueryReads DEF doGetRange, Serve, Served
<1> QED
  BY <1>1, <1>2, <1>3, QueryReads, SentAssumption DEF Strings, doSget, doStrlen, Serve, Served

LEMMA ListsServed ==
    ASSUME TypeOK, NEW k \in Keys, Lists(k)
    PROVE  Served(k)
<1>1. ASSUME NEW v \in Vals, doPush(k, v)
      PROVE  Served(k)
  <2>1. /\ Opened(k, CreateListObject) \in Subjects
        /\ CreateListObject \in Creations
    BY OpenedTyped DEF Creations
  <2> QED
    BY <1>1, <2>1, PushTyped, AdditionsCover, CommitWrites
    DEF doPush, Serve, Served
<1>2. ASSUME doPop(k)
      PROVE  Served(k)
  <2>1. up
    BY <1>2 DEF doPop, Serve
  <2>2. CASE find(k) = Absent \/ find(k).type # "list"
    BY <1>2, <2>1, <2>2, AnswersRefine DEF doPop, Served
  <2>3. CASE Crash
    BY <2>1, <2>3, CrashDies DEF Served
  <2>4. CASE /\ find(k) # Absent /\ find(k).type = "list"
             /\ find(k).list # << >>
             /\ Commit(k, pop(find(k)), Element(Head(find(k).list)))
    <3>1. find(k) \in ListObjects /\ pop(find(k)) \in Objects
      BY <2>4, FindTyped, Shapes, PopTyped
    <3>2. seen[k] = find(k)
      BY DEF seen
    <3>3. /\ seen' = [seen EXCEPT ![k] = pop(find(k))]
          /\ pending' = pending /\ now' = now /\ up' = up
          /\ reply' = Element(Head(find(k).list))
      BY <2>4, <3>1, CommitSeen
    <3>4. T!Pop(k)
      BY <2>1, <2>4, <3>1, <3>2, <3>3, SameRecords, SameObjects DEF T!Pop
    <3> QED
      BY <3>4 DEF Served
  <2> QED
    BY <1>2, <2>2, <2>3, <2>4 DEF doPop
<1> QED
  BY <1>1, <1>2, QueryReads, SentAssumption DEF Lists, doLGetAll, doLlen, Serve, Served

LEMMA HashesServed ==
    ASSUME TypeOK, NEW k \in Keys, Hashes(k)
    PROVE  Served(k)
<1>1. ASSUME NEW f \in Vals, NEW v \in Vals, doHadd(k, f, v)
      PROVE  Served(k)
  <2>1. /\ Opened(k, CreateHashObject) \in Subjects
        /\ CreateHashObject \in Creations
    BY OpenedTyped DEF Creations
  <2> QED
    BY <1>1, <2>1, HaddTyped, AdditionsCover, CommitWrites
    DEF doHadd, Serve, Served
<1>2. ASSUME NEW f \in Vals, doHdel(k, f)
      PROVE  Served(k)
  <2>1. up
    BY <1>2 DEF doHdel, Serve
  <2>2. CASE find(k) = Absent /\ Answer(k, Null)
    BY <2>1, <2>2, AnswersRefine DEF Served
  <2>3. CASE find(k) # Absent /\ Commit(k, hdel(find(k), f), Done("take"))
    <3>1. hdel(find(k), f) \in Objects /\ hdel(find(k), f) \in Removals(find(k))
      BY <2>3, FindTyped, HdelTyped, RemovalsCover
    <3> QED
      BY <2>1, <2>3, <3>1, CommitShrinks DEF Served
  <2>4. CASE Crash
    BY <2>1, <2>4, CrashDies DEF Served
  <2> QED
    BY <1>2, <2>2, <2>3, <2>4 DEF doHdel
<1> QED
  BY <1>1, <1>2, QueryReads, SentAssumption DEF Hashes, doHgetall, Serve, Served

LEMMA SetsServed ==
    ASSUME TypeOK, NEW k \in Keys, Sets(k)
    PROVE  Served(k)
<1>1. ASSUME NEW v \in Vals, doSadd(k, v)
      PROVE  Served(k)
  <2>1. /\ Opened(k, CreateSetObject) \in Subjects
        /\ CreateSetObject \in Creations
    BY OpenedTyped DEF Creations
  <2> QED
    BY <1>1, <2>1, SaddTyped, AdditionsCover, CommitWrites
    DEF doSadd, Serve, Served
<1>2. ASSUME NEW v \in Vals, doSdel(k, v)
      PROVE  Served(k)
  <2>1. find(k) # Absent => /\ sdel(find(k), v) \in Objects \cup {Unsupported}
                            /\ sdel(find(k), v) \in Removals(find(k))
    BY FindTyped, SdelTyped, RemovalsCover
  <2> QED
    BY <1>2, <2>1, AnswersRefine, CommitShrinks DEF doSdel, Serve, Served
<1> QED
  BY <1>1, <1>2, QueryReads, SentAssumption DEF Sets, doSgetall, Serve, Served

LEMMA OsetsServed ==
    ASSUME TypeOK, NEW k \in Keys, Osets(k)
    PROVE  Served(k)
<1>1. ASSUME NEW s \in Scores, NEW v \in Vals, doOadd(k, s, v)
      PROVE  Served(k)
  <2>1. /\ Opened(k, CreateOSetObject) \in Subjects
        /\ CreateOSetObject \in Creations
    BY OpenedTyped DEF Creations
  <2> QED
    BY <1>1, <2>1, OaddTyped, AdditionsCover, CommitWrites
    DEF doOadd, Serve, Served
<1>2. ASSUME NEW s \in Scores, doOdel(k, s)
      PROVE  Served(k)
  <2>1. find(k) # Absent => /\ odel(find(k), s) \in Objects \cup {Unsupported}
                            /\ odel(find(k), s) \in Removals(find(k))
    BY FindTyped, OdelTyped, OdelCovers
  <2> QED
    BY <1>2, <2>1, AnswersRefine, CommitShrinks DEF doOdel, Serve, Served
<1>3. ASSUME malformedScore(k)
      PROVE  Served(k)
  BY <1>3, AnswersRefine DEF malformedScore, Serve, Served
<1> QED
  BY <1>1, <1>2, <1>3, QueryReads, SentAssumption DEF Osets, doOgetall, Serve, Served

LEMMA LivesServed ==
    ASSUME TypeOK, NEW k \in Keys, Lives(k)
    PROVE  Served(k)
BY DelRemoves, ExpireRefines DEF Lives, doExpire, doPrecisionExpire, Serve, Served

LEMMA CommandServed ==
    ASSUME TypeOK, Command
    PROVE  T!Next
<1>1. ASSUME NEW k \in Keys, Served(k)
      PROVE  T!Next
  BY <1>1 DEF Served, T!Next
<1>2. ASSUME NEW k \in Keys, doObject(k)
      PROVE  T!Next
  BY <1>2, QueryReads DEF doObject, Serve, T!Next
<1>3. ASSUME NEW cmd \in Commands, missingArguments(cmd)
      PROVE  T!Next
  <2>1. CASE Crash
    BY <1>3, <2>1, CrashDies DEF missingArguments, Serve, T!Next
  <2>2. CASE UNCHANGED << db, expire, now, up >> /\ reply' \in {Error, Ok}
    <3>1. seen' = seen /\ pending' = pending
      BY <2>2 DEF seen, pending, find, Expired
    <3> QED
      BY <1>3, <2>2, <3>1, SameRecords
      DEF missingArguments, Serve, T!Reject, T!Next
  <2> QED
    BY <1>3, <2>1, <2>2 DEF missingArguments
<1> QED
  BY <1>1, <1>2, <1>3, StringsServed, ListsServed, HashesServed, SetsServed,
     OsetsServed, LivesServed DEF Command
-----------------------------------------------------------------------------
(* Clients cannot tell lazy collection from keys that vanish at their        *)
(* deadline: every behaviour of Db is one of TtlStore.                       *)
THEOREM EagerExpiryHolds == Spec => EagerExpiry
<1>1. Init => T!Init
  <2> SUFFICES ASSUME Init PROVE T!Init
    OBVIOUS
  <2>1. seen = [k \in Keys |-> Absent] /\ pending = [k \in Keys |-> None]
    BY DEF Init, seen, pending, find, Expired, Absent, NullPtr
  <2> QED
    BY <2>1, SameRecords DEF Init, T!Init
<1>2. TypeOK /\ [Next]_vars => [T!Next]_(T!vars)
  <2> SUFFICES ASSUME TypeOK, [Next]_vars PROVE [T!Next]_(T!vars)
    OBVIOUS
  <2>1. CASE Tick
    BY <2>1, TickRefines DEF T!Next
  <2>2. CASE Restart
    <3>1. seen' = seen /\ pending' = pending
      BY <2>2 DEF Restart, seen, pending, find, Expired
    <3> QED
      BY <2>2, <3>1, SameRecords DEF Restart, T!Restart, T!Next
  <2>3. CASE UNCHANGED vars
    BY <2>3 DEF vars, seen, pending, find, Expired, T!vars
  <2> QED
    BY <2>1, <2>2, <2>3, CommandServed DEF Next
<1> QED
  BY <1>1, <1>2, TypeCorrect, PTL DEF Spec, EagerExpiry, T!Spec
-----------------------------------------------------------------------------
(* What a command naming k can do to the tables. *)
Created(k, obj) == find(k) = Absent => \E c \in Creations : obj \in Additions(c)

Effect(k) == \/ \E r : Answer(k, r)
             \/ \E obj, r : Commit(k, obj, r) /\ Created(k, obj)
             \/ Crash
             \/ doDel(k)
             \/ \E ttl \in Ttls \cup MilliTtls : addExpire(k, ttl)

LEMMA EffectOfCommand ==
    ASSUME NEW k \in Keys,
           \/ Strings(k) \/ Lists(k) \/ Hashes(k) \/ Sets(k) \/ Osets(k)
           \/ doObject(k) \/ Lives(k)
    PROVE  Effect(k)
<1>1. ASSUME NEW types, Query(k, types)
      PROVE  Effect(k)
  BY <1>1 DEF Query, Effect
<1>2. ASSUME NEW c \in Creations, NEW obj \in Additions(Opened(k, c)),
             Commit(k, obj, Done("add"))
      PROVE  Effect(k)
  <2>1. Created(k, obj)
    BY <1>2 DEF Created, Opened
  <2> QED
    BY <1>2, <2>1 DEF Effect
<1>3. ASSUME NEW obj, NEW r, find(k) # Absent, Commit(k, obj, r)
      PROVE  Effect(k)
  BY <1>3 DEF Created, Effect
<1>4. CASE Strings(k)
  <2>1. \A v \in Vals : doSset(k, v) \/ doAppend(k, v) => Effect(k)
    BY <1>2, AdditionsCover DEF Creations, doSset, doAppend
  <2>2. \A ok \in BOOLEAN : doGetRange(k, ok) => Effect(k)
    BY <1>1 DEF doGetRange, Effect
  <2> QED
    BY <1>1, <1>4, <2>1, <2>2, SentAssumption DEF Strings, doSget, doStrlen
<1>5. CASE Lists(k)
  <2>1. \A v \in Vals : doPush(k, v) => Effect(k)
    BY <1>2, AdditionsCover DEF Creations, doPush
  <2>2. doPop(k) => Effect(k)
    BY <1>3 DEF doPop, Effect
  <2> QED
    BY <1>1, <1>5, <2>1, <2>2, SentAssumption DEF Lists, doLGetAll, doLlen
<1>6. CASE Hashes(k)
  <2>1. \A f, v \in Vals : doHadd(k, f, v) => Effect(k)
    BY <1>2, AdditionsCover DEF Creations, doHadd
  <2>2. \A f \in Vals : doHdel(k, f) => Effect(k)
    BY <1>3 DEF doHdel, Effect
  <2> QED
    BY <1>1, <1>6, <2>1, <2>2, SentAssumption DEF Hashes, doHgetall
<1>7. CASE Sets(k)
  <2>1. \A v \in Vals : doSadd(k, v) => Effect(k)
    BY <1>2, AdditionsCover DEF Creations, doSadd
  <2>2. \A v \in Vals : doSdel(k, v) => Effect(k)
    BY <1>3 DEF doSdel, Effect
  <2> QED
    BY <1>1, <1>7, <2>1, <2>2, SentAssumption DEF Sets, doSgetall
<1>8. CASE Osets(k)
  <2>1. \A s \in Scores, v \in Vals : doOadd(k, s, v) => Effect(k)
    BY <1>2, AdditionsCover DEF Creations, doOadd
  <2>2. \A s \in Scores : doOdel(k, s) => Effect(k)
    BY <1>3 DEF doOdel, Effect
  <2>3. malformedScore(k) => Effect(k)
    BY DEF malformedScore, Effect
  <2> QED
    BY <1>1, <1>8, <2>1, <2>2, <2>3, SentAssumption DEF Osets, doOgetall
<1>9. CASE Lives(k)
  BY <1>9 DEF Lives, doExpire, doPrecisionExpire, Effect
<1> QED
  BY <1>1, <1>4, <1>5, <1>6, <1>7, <1>8, <1>9 DEF doObject

(* Only a crash stops the process, and no command moves the clock. *)
LEMMA CommandClock ==
    ASSUME Command
    PROVE  /\ up /\ now' = now
           /\ up' \/ Crash
<1>1. up
  <2>1. ASSUME NEW k \in Keys, Strings(k) \/ Lists(k) \/ Hashes(k)
        PROVE  up
    BY <2>1 DEF Strings, Lists, Hashes, doSset, doAppend, doSget, doStrlen,
                doGetRange, doPush, doPop, doLGetAll, doLlen, doHadd, doHdel,
                doHgetall, Serve
  <2>2. ASSUME NEW k \in Keys, Sets(k) \/ Osets(k) \/ doObject(k) \/ Lives(k)
        PROVE  up
    BY <2>2 DEF Sets, Osets, Lives, doSadd, doSdel, doSgetall, doOadd, doOdel,
                malformedScore, doOgetall, doObject, doDel, doExpire,
                doPrecisionExpire, Serve
  <2> QED
    BY <2>1, <2>2 DEF Command, missingArguments, Serve
<1>2. ASSUME NEW k \in Keys, Effect(k)
      PROVE  now' = now /\ (up' = up \/ Crash)
  BY <1>2 DEF Effect, Answer, Commit, Crash, doDel, addExpire
<1>3. ASSUME NEW cmd \in Commands, missingArguments(cmd)
      PROVE  now' = now /\ (up' = up \/ Crash)
  BY <1>3 DEF missingArguments, Crash
<1>4. now' = now /\ (up' = up \/ Crash)
  BY <1>2, <1>3, EffectOfCommand DEF Command
<1> QED
  BY <1>1, <1>4

LEMMA StepEffect ==
    ASSUME [Next]_vars
    PROVE  \/ \E k \in Keys : Effect(k)
           \/ UNCHANGED << db, expire >>
           \/ Crash
BY EffectOfCommand DEF Next, Command, missingArguments, Tick, Restart, vars

(* No command revives what is under an expired key. *)
THEOREM NothingRevivesHolds == Spec => NothingRevives
<1>1. ASSUME TypeOK, [Next]_vars, NEW k \in Keys, Expired(k)
      PROVE  \/ db'[k] \in {db[k], Absent}
             \/ /\ expire'[k] = None
                /\ \E o \in Creations : db'[k] \in Additions(o)
  <2>1. find(k) = Absent
    BY <1>1 DEF find
  <2>2. ASSUME NEW j \in Keys, Effect(j)
        PROVE  \/ db'[k] \in {db[k], Absent}
               \/ /\ expire'[k] = None
                  /\ \E o \in Creations : db'[k] \in Additions(o)
    <3>1. ASSUME NEW r, Answer(j, r)
          PROVE  db'[k] \in {db[k], Absent}
      BY <1>1, <3>1 DEF Answer, Collected, TypeOK
    <3>2. ASSUME NEW obj, NEW r, Commit(j, obj, r), Created(j, obj)
          PROVE  \/ db'[k] \in {db[k], Absent}
                 \/ /\ expire'[k] = None
                    /\ \E o \in Creations : db'[k] \in Additions(o)
      BY <1>1, <2>1, <3>1, <3>2 DEF Commit, Created, Collected, TypeOK
    <3>3. CASE Crash
      BY <3>3 DEF Crash
    <3>4. CASE doDel(j)
      BY <1>1, <3>4 DEF doDel, TypeOK
    <3>5. ASSUME NEW ttl, addExpire(j, ttl)
          PROVE  db'[k] = db[k]
      BY <3>5 DEF addExpire
    <3> QED
      BY <2>2, <3>1, <3>2, <3>3, <3>4, <3>5 DEF Effect
  <2>3. CASE Crash
    BY <2>3 DEF Crash
  <2> QED
    BY <1>1, <2>2, <2>3, StepEffect
<1>2. TypeOK /\ [Next]_vars =>
        [\A k \in Keys : Expired(k) =>
           \/ db'[k] \in {db[k], Absent}
           \/ /\ expire'[k] = None
              /\ \E o \in Creations : db'[k] \in Additions(o)]_vars
  BY <1>1
<1> QED
  BY <1>2, TypeCorrect, PTL DEF Spec, NothingRevives

LEMMA DeadlineStands ==
    ASSUME TypeOK, [Next]_vars, NEW k \in Keys, expire[k] # None, ~Expired(k)
    PROVE  expire'[k] = expire[k] \/ ~up'
<1>1. ASSUME NEW j \in Keys, Effect(j)
      PROVE  expire'[k] = expire[k] \/ ~up'
  <2>1. ASSUME NEW r, Answer(j, r)
        PROVE  expire'[k] = expire[k]
    BY <2>1 DEF Answer, Collected, TypeOK
  <2>2. ASSUME NEW obj, NEW r, Commit(j, obj, r)
        PROVE  expire'[k] = expire[k]
    BY <2>1, <2>2 DEF Commit, Collected, TypeOK
  <2>3. CASE Crash
    BY <2>3 DEF Crash
  <2>4. CASE doDel(j)
    BY <2>4 DEF doDel
  <2>5. ASSUME NEW ttl, addExpire(j, ttl)
        PROVE  expire'[k] = expire[k]
    BY <2>5 DEF addExpire, TypeOK
  <2> QED
    BY <1>1, <2>1, <2>2, <2>3, <2>4, <2>5 DEF Effect
<1>2. CASE Crash
  BY <1>2 DEF Crash
<1> QED
  BY <1>1, <1>2, StepEffect

(* A deadline stands until it passes or the process ends. *)
THEOREM DeadlineFirmHolds == Spec => DeadlineFirm
<1>1. TypeOK /\ [Next]_vars =>
        [\A k \in Keys : expire[k] # None /\ ~Expired(k) =>
           expire'[k] = expire[k] \/ ~up']_vars
  BY DeadlineStands
<1> QED
  BY <1>1, TypeCorrect, PTL DEF Spec, DeadlineFirm
=============================================================================
