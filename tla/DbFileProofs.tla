---------------------------- MODULE DbFileProofs ----------------------------
(***************************************************************************)
(* For all keys, files and lifetimes, and wherever the process is killed:  *)
(* a file is a part of what clients saw when its save began, a save cannot *)
(* be seen, and a load brings back what was saved, or from a file that was *)
(* cut inside an entry all but one key as it was.                          *)
(***************************************************************************)
EXTENDS DbFile, DbProofs, SequenceTheorems

(* The texts of strings are those that set and append can make. *)
Fine(o) == o.type = "string" => Len(o.str) \in 1 .. MaxLen

Worded == \A k \in Keys : Fine(db[k])

(* What a save writes: the elements of an ordered set end it. *)
Records ==
    {e \in Entries : /\ Fine(e.obj)
                     /\ e.surplus => e.obj.type = "orderedset"
                     /\ e.obj.type = "orderedset" => e.obj = CreateOSetObject}

Storable(p) ==
    p \in Objects /\ Fine(p) /\ (p.type = "orderedset" => p = CreateOSetObject)

Written == {Snapshot(entries) : entries \in Seq(Records)}

Moments == [objs : [Keys -> Objects \cup {Absent}],
            ends : [Keys -> Int \cup {None}],
            done : BOOLEAN]

Saves == [kind : {"save"}, file : Files, opened : BOOLEAN, left : SUBSET Keys]
Loads == [kind : {"load"}, file : Files, rest : Seq(Records), fresh : BOOLEAN]

Tables ==
    /\ TypeOK /\ Worded
    /\ disk \in [Files -> {NoFile, Headless} \cup Written]
    /\ task \in {Idle} \cup Saves \cup Loads
    /\ saved \in [Files -> {Never} \cup Moments]
    /\ \A f \in Files : disk[f] \in Written => saved[f] \in Moments

(* Nothing of k is to be in a file of that moment: it was gone, or is. *)
Gone(was, k) ==
    was.objs[k] = Absent \/ (was.ends[k] # None /\ now > was.ends[k])

Holds(entries, k) == \E i \in DOMAIN entries : entries[i].key = k

Matches(entries, was) ==
    /\ \A i, j \in DOMAIN entries : entries[i].key = entries[j].key => i = j
    /\ \A i \in DOMAIN entries :
         /\ entries[i].obj = was.objs[entries[i].key]
         /\ entries[i].etime = was.ends[entries[i].key]

Snapshots ==
    \A f \in Files, entries \in Seq(Records), was \in Moments :
        disk[f] = Snapshot(entries) /\ saved[f] = was =>
            /\ Matches(entries, was)
            /\ was.done => \A k \in Keys : Holds(entries, k) \/ Gone(was, k)

(* A save finds the keys before it as they were when it began, but for those *)
(* that have expired, and has written or passed over the others.             *)
Remains(k, was) ==
    /\ db[k] # Absent
    /\ ~Expired(k) => find(k) = was.objs[k] /\ expire[k] = was.ends[k]
    /\ Expired(k) => Gone(was, k)

HalfSaved ==
    task \in Saves /\ task.opened =>
        \E entries \in Seq(Records), was \in Moments :
            /\ disk[task.file] = Snapshot(entries) /\ saved[task.file] = was
            /\ ~was.done
            /\ \A k \in task.left : Remains(k, was) /\ ~Holds(entries, k)
            /\ \A k \in Keys \ task.left : Holds(entries, k) \/ Gone(was, k)

(* A load has read the first i entries of its file, and where it began with *)
(* an empty database it has nothing but what they say.                      *)
Restored(k, entries, i) ==
    /\ (\A j \in 1 .. i : entries[j].key # k) => db[k] = Absent /\ expire[k] = None
    /\ \A j \in 1 .. i : entries[j].key = k =>
         \/ db[k] = Again(entries[j].obj) /\ expire[k] = entries[j].etime
         \/ /\ db[k] = Absent /\ expire[k] = None
            /\ entries[j].etime # None /\ now >= entries[j].etime

HalfLoaded ==
    task \in Loads =>
        \E entries \in Seq(Records) : \E i \in 0 .. Len(entries) :
            /\ disk[task.file] = Snapshot(entries)
            /\ Len(task.rest) = Len(entries) - i
            /\ \A j \in 1 .. Len(entries) - i : task.rest[j] = entries[i + j]
            /\ task.fresh => \A k \in Keys : Restored(k, entries, i)

Inv == Tables /\ Snapshots /\ HalfSaved /\ HalfLoaded

(* What follows the entries of a file is a part of one more that was to be   *)
(* in it, of a save that was not done; while a save writes there is nothing. *)
LeftObjects == {p \in Objects : Storable(p)} \cup {CreateStrObject}

Torns == {Whole, Untyped, Nameless} \cup
    {Left(k, t, o) : k \in Keys, t \in Int \cup {None}, o \in LeftObjects}

Piece(f) ==
    /\ disk[f] \in Written
    /\ \A entries \in Seq(Records), was \in Moments :
         disk[f] = Snapshot(entries) /\ saved[f] = was =>
            /\ ~was.done
            /\ \E k \in Keys : /\ ~Holds(entries, k)
                              /\ torn[f] \in Parts(k, was.ends[k], was.objs[k])

Edges ==
    /\ torn \in [Files -> Torns]
    /\ \A f \in Files : torn[f] # Whole => Piece(f)
    /\ task \in Saves /\ task.opened => torn[task.file] = Whole
-----------------------------------------------------------------------------
(* The words of strings. *)
LEMMA TextsOfLength ==
    ASSUME NEW s \in Seq(Vals), Len(s) \in 1 .. MaxLen
    PROVE  s \in Texts
<1>1. s \in [1 .. Len(s) -> Vals]
  OBVIOUS
<1> QED
  BY <1>1 DEF Texts

LEMMA TextsTyped ==
    ASSUME NEW s \in Texts
    PROVE  s \in Seq(Vals) /\ Len(s) \in 1 .. MaxLen
<1>1. PICK n \in 1 .. MaxLen : s \in [1 .. n -> Vals]
  BY DEF Texts
<1>2. n \in Nat
  BY <1>1, MaxLenAssumption
<1>3. s \in Seq(Vals)
  BY <1>1, <1>2, SeqDef
<1>4. Len(s) = n
  BY <1>1, <1>2, <1>3
<1> QED
  BY <1>1, <1>3, <1>4

LEMMA FineConstants ==
    /\ Fine(Absent) /\ Fine(NullPtr) /\ Fine(Unsupported)
    /\ \A c \in Creations : Fine(c)
BY DEF Fine, Absent, NullPtr, Unsupported, Creations, CreateStrObject,
       CreateListObject, CreateHashObject, CreateSetObject, CreateOSetObject

LEMMA FineOperators ==
    ASSUME NEW o \in Subjects, Fine(o), NEW v \in Vals
    PROVE  /\ Fine(set(o, v)) /\ Fine(push(o, v))
           /\ Fine(sadd(o, v)) /\ Fine(sdel(o, v)) /\ Fine(hdel(o, v))
           /\ \A f \in Vals : Fine(hadd(o, f, v))
           /\ \A s \in Scores : Fine(oadd(o, s, v))
<1>1. Len(<< Encoded[v] >>) \in 1 .. MaxLen
  BY MaxLenAssumption, EncodedAssumption
<1>2. Fine(set(o, v))
  BY <1>1, FineConstants DEF set, Fine
<1>3. o.type = "list" => o \in ListObjects
  BY Shapes
<1>4. o.type = "hash" => o \in HashObjects
  BY Shapes
<1>5. o.type = "set" => o \in SetObjects
  BY Shapes
<1>6. o.type = "orderedset" => o \in OsetObjects
  BY Shapes
<1>7. Fine(push(o, v))
  BY <1>3, FineConstants DEF push, Fine, ListObjects
<1>8. Fine(sadd(o, v)) /\ Fine(sdel(o, v))
  BY <1>5, FineConstants DEF sadd, sdel, Fine, SetObjects
<1>9. Fine(hdel(o, v)) /\ \A f \in Vals : Fine(hadd(o, f, v))
  BY <1>4, FineConstants DEF hdel, hadd, Fine, HashObjects
<1>10. \A s \in Scores : Fine(oadd(o, s, v))
  BY <1>6, FineConstants DEF oadd, Fine, OsetObjects
<1> QED
  BY <1>2, <1>7, <1>8, <1>9, <1>10

LEMMA FineOdel ==
    ASSUME NEW o \in Subjects, Fine(o), NEW s \in Scores
    PROVE  Fine(odel(o, s))
<1>1. o.type = "orderedset" => o \in OsetObjects
  BY Shapes
<1> QED
  BY <1>1, FineConstants DEF odel, Fine, OsetObjects

LEMMA FinePop ==
    ASSUME NEW o \in Subjects, Fine(o)
    PROVE  Fine(pop(o))
<1>1. o.type = "list" => o \in ListObjects
  BY Shapes
<1> QED
  BY <1>1, FineConstants DEF pop, Fine, ListObjects

LEMMA FineAppend ==
    ASSUME NEW o \in Subjects, Fine(o), NEW v \in Vals,
           o.type = "string" => Len(o.str) < MaxLen
    PROVE  Fine(append(o, v))
<1>1. o.type = "string" => o.str \in Seq(Vals)
  BY Shapes DEF StringObjects
<1>2. Len(<< v >>) = 1 /\ MaxLen \in Nat \ {0}
  BY MaxLenAssumption
<1>3. o.type = "string" => Len(Append(o.str, v)) = Len(o.str) + 1
                           /\ Len(o.str) \in Nat
  BY <1>1
<1>4. CASE o.type = "string"
  BY <1>2, <1>3, <1>4 DEF append, Fine
<1>5. CASE o.type = "null"
  BY <1>2, <1>5 DEF append, Fine
<1>6. CASE o.type \notin {"string", "null"}
  BY <1>6, FineConstants DEF append
<1> QED
  BY <1>4, <1>5, <1>6

LEMMA FineFound ==
    ASSUME TypeOK, Worded, NEW k \in Keys
    PROVE  /\ Fine(find(k))
           /\ \A c \in Creations : Fine(Opened(k, c))
BY FineConstants DEF find, Opened, Worded

LEMMA AnswerWorded ==
    ASSUME TypeOK, Worded, NEW k \in Keys, NEW r, Answer(k, r)
    PROVE  Worded'
BY FineConstants DEF Answer, Collected, Worded, TypeOK

LEMMA CommitWorded ==
    ASSUME TypeOK, Worded, NEW k \in Keys, NEW obj, NEW r, Fine(obj),
           Commit(k, obj, r)
    PROVE  Worded'
<1>1. CASE obj = Unsupported
  BY <1>1, AnswerWorded DEF Commit
<1>2. CASE obj # Unsupported
  <2>1. db' = [Collected(db, k, Absent) EXCEPT ![k] = obj]
    BY <1>2 DEF Commit
  <2>2. ASSUME NEW j \in Keys
        PROVE  db'[j] \in {obj, db[j], Absent}
    BY <2>1 DEF Collected, TypeOK
  <2> QED
    BY <2>2, FineConstants DEF Worded
<1> QED
  BY <1>1, <1>2

LEMMA CommandWorded ==
    ASSUME TypeOK, Worded, Command
    PROVE  Worded'
<1>1. ASSUME NEW k \in Keys, NEW types, Query(k, types)
      PROVE  Worded'
  BY <1>1, AnswerWorded DEF Query
<1>2. ASSUME NEW k \in Keys, Strings(k)
      PROVE  Worded'
  <2>1. ASSUME NEW v \in Vals, doSset(k, v)
        PROVE  Worded'
    <3>1. Opened(k, CreateStrObject) \in Subjects /\ Fine(Opened(k, CreateStrObject))
      BY OpenedTyped, FineFound DEF Creations
    <3> QED
      BY <2>1, <3>1, FineOperators, CommitWorded DEF doSset
  <2>2. ASSUME NEW v \in Vals, doAppend(k, v)
        PROVE  Worded'
    <3>1. Opened(k, CreateStrObject) \in Subjects /\ Fine(Opened(k, CreateStrObject))
      BY OpenedTyped, FineFound DEF Creations
    <3>2. Opened(k, CreateStrObject).type = "string" =>
             Len(Opened(k, CreateStrObject).str) < MaxLen
      BY <2>2 DEF doAppend, Room, Opened, CreateStrObject
    <3> QED
      BY <2>2, <3>1, <3>2, FineAppend, CommitWorded DEF doAppend
  <2>3. ASSUME NEW ok \in BOOLEAN, doGetRange(k, ok)
        PROVE  Worded'
    BY <1>1, <2>3, AnswerWorded DEF doGetRange
  <2> QED
    BY <1>1, <1>2, <2>1, <2>2, <2>3, SentAssumption DEF Strings, doSget, doStrlen
<1>3. ASSUME NEW k \in Keys, Lists(k)
      PROVE  Worded'
  <2>1. ASSUME NEW v \in Vals, doPush(k, v)
        PROVE  Worded'
    <3>1. Opened(k, CreateListObject) \in Subjects /\ Fine(Opened(k, CreateListObject))
      BY OpenedTyped, FineFound DEF Creations
    <3> QED
      BY <2>1, <3>1, FineOperators, CommitWorded DEF doPush
  <2>2. CASE doPop(k)
    <3>1. CASE find(k) # Absent /\ Commit(k, pop(find(k)), Element(Head(find(k).list)))
      BY <3>1, FindTyped, FineFound, FinePop, CommitWorded
    <3>2. CASE Crash
      BY <3>2, FineConstants DEF Crash, Worded
    <3> QED
      BY <2>2, <3>1, <3>2, AnswerWorded DEF doPop
  <2> QED
    BY <1>1, <1>3, <2>1, <2>2, SentAssumption DEF Lists, doLGetAll, doLlen
<1>4. ASSUME NEW k \in Keys, Hashes(k)
      PROVE  Worded'
  <2>1. ASSUME NEW f \in Vals, NEW v \in Vals, doHadd(k, f, v)
        PROVE  Worded'
    <3>1. Opened(k, CreateHashObject) \in Subjects /\ Fine(Opened(k, CreateHashObject))
      BY OpenedTyped, FineFound DEF Creations
    <3> QED
      BY <2>1, <3>1, FineOperators, CommitWorded DEF doHadd
  <2>2. ASSUME NEW f \in Vals, doHdel(k, f)
        PROVE  Worded'
    <3>1. CASE find(k) # Absent /\ Commit(k, hdel(find(k), f), Done("take"))
      BY <3>1, FindTyped, FineFound, FineOperators, CommitWorded
    <3>2. CASE Crash
      BY <3>2, FineConstants DEF Crash, Worded
    <3> QED
      BY <2>2, <3>1, <3>2, AnswerWorded DEF doHdel
  <2> QED
    BY <1>1, <1>4, <2>1, <2>2, SentAssumption DEF Hashes, doHgetall
<1>5. ASSUME NEW k \in Keys, Sets(k)
      PROVE  Worded'
  <2>1. ASSUME NEW v \in Vals, doSadd(k, v)
        PROVE  Worded'
    <3>1. Opened(k, CreateSetObject) \in Subjects /\ Fine(Opened(k, CreateSetObject))
      BY OpenedTyped, FineFound DEF Creations
    <3> QED
      BY <2>1, <3>1, FineOperators, CommitWorded DEF doSadd
  <2>2. ASSUME NEW v \in Vals, doSdel(k, v)
        PROVE  Worded'
    <3>1. CASE find(k) # Absent /\ Commit(k, sdel(find(k), v), Done("take"))
      BY <3>1, FindTyped, FineFound, FineOperators, CommitWorded
    <3> QED
      BY <2>2, <3>1, AnswerWorded DEF doSdel
  <2> QED
    BY <1>1, <1>5, <2>1, <2>2, SentAssumption DEF Sets, doSgetall
<1>6. ASSUME NEW k \in Keys, Osets(k)
      PROVE  Worded'
  <2>1. ASSUME NEW s \in Scores, NEW v \in Vals, doOadd(k, s, v)
        PROVE  Worded'
    <3>1. Opened(k, CreateOSetObject) \in Subjects /\ Fine(Opened(k, CreateOSetObject))
      BY OpenedTyped, FineFound DEF Creations
    <3> QED
      BY <2>1, <3>1, FineOperators, CommitWorded DEF doOadd
  <2>2. ASSUME NEW s \in Scores, doOdel(k, s)
        PROVE  Worded'
    <3>1. CASE find(k) # Absent /\ Commit(k, odel(find(k), s), Done("take"))
      BY <3>1, FindTyped, FineFound, FineOdel, CommitWorded
    <3> QED
      BY <2>2, <3>1, AnswerWorded DEF doOdel
  <2>3. CASE malformedScore(k)
    BY <2>3, AnswerWorded DEF malformedScore
  <2> QED
    BY <1>1, <1>6, <2>1, <2>2, <2>3, SentAssumption DEF Osets, doOgetall
<1>7. ASSUME NEW k \in Keys, Lives(k)
      PROVE  Worded'
  BY <1>7, FineConstants DEF Lives, doDel, doExpire, doPrecisionExpire, addExpire,
     Worded, TypeOK
<1>8. ASSUME NEW k \in Keys, doObject(k)
      PROVE  Worded'
  BY <1>1, <1>8 DEF doObject
<1>9. ASSUME NEW cmd \in Commands, missingArguments(cmd)
      PROVE  Worded'
  BY <1>9, FineConstants DEF missingArguments, Crash, Worded
<1> QED
  BY <1>2, <1>3, <1>4, <1>5, <1>6, <1>7, <1>8, <1>9 DEF Command
-----------------------------------------------------------------------------
(* What files and tasks are. *)
LEMMA SnapshotRecords ==
    /\ \A a, b : Snapshot(a) = Snapshot(b) => a = b
    /\ \A a : /\ Snapshot(a).kind = "sdb" /\ Snapshot(a).entries = a
              /\ Snapshot(a) \notin {NoFile, Headless}
    /\ NoFile.kind # "sdb" /\ Headless.kind # "sdb"
    /\ \A a \in Seq(Records) : Snapshot(a) \in Written
    /\ \A w \in Written : w = Snapshot(w.entries) /\ w.entries \in Seq(Records)
<1>1. \A a : /\ Snapshot(a).kind = "sdb" /\ Snapshot(a).entries = a
             /\ Snapshot(a) \notin {NoFile, Headless}
  BY DEF Snapshot, NoFile, Headless
<1>2. \A a, b : Snapshot(a) = Snapshot(b) => a = b
  BY <1>1
<1>3. NoFile.kind # "sdb" /\ Headless.kind # "sdb"
  BY DEF NoFile, Headless
<1> QED
  BY <1>1, <1>2, <1>3 DEF Written

LEMMA Kinds ==
    ASSUME Tables
    PROVE  /\ Saving <=> task \in Saves
           /\ Loading <=> task \in Loads
           /\ task = Idle <=> task \notin Saves \cup Loads
           /\ task \in Saves => task \notin Loads
           /\ \A f \in Files : disk[f].kind = "sdb" <=> disk[f] \in Written
<1>1. /\ Idle.kind \notin {"save", "load"}
      /\ \A t \in Saves : t.kind = "save"
      /\ \A t \in Loads : t.kind = "load"
  BY DEF Idle, Saves, Loads
<1>2. \A f \in Files : disk[f].kind = "sdb" <=> disk[f] \in Written
  BY SnapshotRecords DEF Tables
<1> QED
  BY <1>1, <1>2 DEF Tables, Saving, Loading

LEMMA IdleTask ==
    ASSUME task' = Idle
    PROVE  HalfSaved' /\ HalfLoaded'
BY DEF HalfSaved, HalfLoaded, Idle, Saves, Loads

(* What is gone stays gone, and a file that nobody touches stays a snapshot. *)
LEMMA GoneStays ==
    ASSUME now \in Nat, now' \in Nat, now' >= now, NEW was \in Moments,
           NEW k \in Keys, Gone(was, k)
    PROVE  Gone(was, k)'
<1>1. was.ends[k] \in Int \cup {None}
  BY DEF Moments
<1> QED
  BY <1>1 DEF Gone

LEMMA SnapshotsStand ==
    ASSUME Tables, Snapshots, UNCHANGED << disk, saved >>, now' \in Nat, now' >= now
    PROVE  Snapshots'
<1>1. now \in Nat
  BY DEF Tables, TypeOK
<1>2. ASSUME NEW f \in Files, NEW entries \in Seq(Records), NEW was \in Moments,
             disk[f] = Snapshot(entries), saved[f] = was
      PROVE  /\ Matches(entries, was)
             /\ was.done => \A k \in Keys : Holds(entries, k) \/ Gone(was, k)'
  BY <1>1, <1>2, GoneStays DEF Snapshots
<1> QED
  BY <1>2 DEF Snapshots, Matches, Holds

LEMMA TimeTyped ==
    ASSUME TypeOK
    PROVE  now \in Nat /\ now + 1 \in Nat /\ now <= now /\ now <= now + 1
BY DEF TypeOK

LEMMA BetweenTables ==
    ASSUME Tables, Next
    PROVE  TypeOK' /\ Worded' /\ now' \in Nat /\ now' >= now
<1>1. TypeOK /\ Worded /\ now \in Nat
  BY DEF Tables, TypeOK
<1>2. CASE Command
  BY <1>1, <1>2, CommandTyped, CommandWorded, CommandClock, TimeTyped
<1>3. CASE Tick
  BY <1>1, <1>3, ReplyTyped, TimeTyped DEF Tick, TypeOK, Worded
<1>4. CASE Restart
  BY <1>1, <1>4, ReplyTyped, TimeTyped DEF Restart, TypeOK, Worded
<1> QED
  BY <1>2, <1>3, <1>4 DEF Next

LEMMA BetweenKeeps ==
    ASSUME Inv, Between
    PROVE  Inv'
<1>1. task' = Idle /\ UNCHANGED << disk, torn, task, saved >> /\ Next
  BY DEF Between, fileVars
<1>2. TypeOK' /\ Worded' /\ now' \in Nat /\ now' >= now
  BY <1>1, BetweenTables DEF Inv
<1>3. Tables'
  BY <1>1, <1>2 DEF Inv, Tables
<1>4. Snapshots'
  BY <1>1, <1>2, SnapshotsStand DEF Inv
<1> QED
  BY <1>1, <1>3, <1>4, IdleTask DEF Inv
-----------------------------------------------------------------------------
(* A save begins with what clients see. *)
LEMMA SeenTyped ==
    ASSUME TypeOK
    PROVE  /\ seen \in [Keys -> Objects \cup {Absent}]
           /\ pending \in [Keys -> Int \cup {None}]
           /\ \A k \in Keys : seen[k] = find(k)
           /\ \A k \in Keys : pending[k] = IF Expired(k) THEN None ELSE expire[k]
BY FindTyped DEF seen, pending, TypeOK

LEMMA SaveBegins ==
    ASSUME Inv, NEW n \in SaveNames, doSave(n)
    PROVE  Inv'
<1>1. FileOf[n] \in Files
  BY FileOfAssumption
<1>2. PICK f \in Files : f = FileOf[n]
  BY <1>1
<1>3. /\ TypeOK /\ Worded
      /\ UNCHANGED << db, expire, now, up >> /\ reply' = Quiet
  BY DEF Inv, Tables, doSave
<1>4. TypeOK' /\ Worded' /\ now' \in Nat /\ now' >= now
  BY <1>3, ReplyTyped, TimeTyped DEF TypeOK, Worded
<1>5. PICK left \in SUBSET Keys : left = {k \in Keys : db[k] # Absent}
  OBVIOUS
<1>6. PICK was \in Moments : was = [objs |-> seen, ends |-> pending, done |-> FALSE]
  BY <1>3, SeenTyped DEF Moments
<1>7. PICK opened \in BOOLEAN :
        /\ task' = [kind |-> "save", file |-> f, opened |-> opened, left |-> left]
        /\ disk' = IF opened THEN [disk EXCEPT ![f] = Snapshot(<< >>)] ELSE disk
        /\ saved' = IF opened THEN [saved EXCEPT ![f] = was] ELSE saved
  BY <1>2, <1>5, <1>6 DEF doSave
<1>8. /\ task' \in Saves /\ task'.file = f /\ task'.opened = opened
      /\ task'.left = left
  BY <1>7 DEF Saves
<1>9. task' \notin Loads
  BY <1>8 DEF Saves, Loads
<1>10. << >> \in Seq(Records) /\ DOMAIN << >> = {}
  OBVIOUS
<1>11. CASE ~opened
  <2>1. UNCHANGED << disk, saved >>
    BY <1>7, <1>11
  <2>2. Tables'
    BY <1>4, <1>8, <2>1 DEF Inv, Tables
  <2>3. Snapshots'
    BY <1>4, <2>1, SnapshotsStand DEF Inv
  <2>4. HalfSaved' /\ HalfLoaded'
    BY <1>8, <1>9, <1>11 DEF HalfSaved, HalfLoaded
  <2> QED
    BY <2>2, <2>3, <2>4 DEF Inv
<1>12. CASE opened
  <2>1. /\ disk' = [disk EXCEPT ![f] = Snapshot(<< >>)]
        /\ saved' = [saved EXCEPT ![f] = was]
    BY <1>7, <1>12
  <2>2. Snapshot(<< >>) \in Written
    BY <1>10, SnapshotRecords
  <2>3. Tables'
    BY <1>4, <1>8, <2>1, <2>2 DEF Inv, Tables
  <2>4. disk'[f] = Snapshot(<< >>) /\ saved'[f] = was /\ ~was.done
    BY <1>6, <2>1 DEF Inv, Tables
  <2>5. Snapshots'
    <3> SUFFICES ASSUME NEW g \in Files, NEW entries \in Seq(Records),
                        NEW w \in Moments,
                        disk'[g] = Snapshot(entries), saved'[g] = w
                 PROVE  /\ Matches(entries, w)
                        /\ w.done => \A k \in Keys : Holds(entries, k) \/ Gone(w, k)'
      BY DEF Snapshots, Matches, Holds
    <3>1. CASE g = f
      <4>1. entries = << >> /\ ~w.done
        BY <2>4, <3>1, SnapshotRecords
      <4> QED
        BY <1>10, <4>1 DEF Matches
    <3>2. CASE g # f
      <4>1. disk[g] = Snapshot(entries) /\ saved[g] = w
        BY <2>1, <3>2
      <4>2. /\ Matches(entries, w)
            /\ w.done => \A k \in Keys : Holds(entries, k) \/ Gone(w, k)
        BY <4>1 DEF Inv, Snapshots
      <4> QED
        BY <1>3, <1>4, <4>2, GoneStays, TimeTyped
    <3> QED
      BY <3>1, <3>2
  <2>6. ASSUME NEW k \in left
        PROVE  Remains(k, was)' /\ ~Holds(<< >>, k)
    <3>1. k \in Keys /\ db[k] # Absent
      BY <1>5
    <3>2. was.objs[k] = find(k) /\ was.ends[k] = IF Expired(k) THEN None ELSE expire[k]
      BY <1>3, <1>6, <3>1, SeenTyped
    <3>3. Expired(k) => find(k) = Absent
      BY DEF find
    <3> QED
      BY <1>3, <1>10, <3>1, <3>2, <3>3 DEF Remains, Expired, find, Gone, Holds
  <2>7. ASSUME NEW k \in Keys \ left
        PROVE  Gone(was, k)'
    <3>1. find(k) = Absent
      BY <1>5 DEF find
    <3>2. was.objs[k] = Absent
      BY <1>3, <1>6, <3>1, SeenTyped
    <3> QED
      BY <3>2 DEF Gone
  <2>8. HalfSaved'
    BY <1>8, <1>10, <2>4, <2>6, <2>7 DEF HalfSaved, Holds
  <2> QED
    BY <1>9, <2>3, <2>5, <2>8 DEF Inv, HalfLoaded
<1> QED
  BY <1>11, <1>12

(* The state of a save under way, in names that do not change with it. *)
LEMMA SaveUnderWay ==
    ASSUME Inv, Saving
    PROVE  \E f \in Files, left \in SUBSET Keys, opened \in BOOLEAN :
              /\ task = [kind |-> "save", file |-> f, opened |-> opened, left |-> left]
              /\ task.file = f /\ task.left = left /\ task.opened = opened
              /\ task \in Saves
              /\ opened =>
                   \E entries \in Seq(Records), was \in Moments :
                      /\ disk[f] = Snapshot(entries) /\ saved[f] = was /\ ~was.done
                      /\ Matches(entries, was)
                      /\ \A k \in left : Remains(k, was) /\ ~Holds(entries, k)
                      /\ \A k \in Keys \ left : Holds(entries, k) \/ Gone(was, k)
<1>1. task \in Saves
  BY Kinds DEF Inv
<1>2. PICK f \in Files, left \in SUBSET Keys, opened \in BOOLEAN :
        task = [kind |-> "save", file |-> f, opened |-> opened, left |-> left]
  BY <1>1 DEF Saves
<1>3. task.file = f /\ task.left = left /\ task.opened = opened
  BY <1>2
<1>4. ASSUME opened
      PROVE  \E entries \in Seq(Records), was \in Moments :
                /\ disk[f] = Snapshot(entries) /\ saved[f] = was /\ ~was.done
                /\ Matches(entries, was)
                /\ \A k \in left : Remains(k, was) /\ ~Holds(entries, k)
                /\ \A k \in Keys \ left : Holds(entries, k) \/ Gone(was, k)
  BY <1>1, <1>3, <1>4 DEF Inv, HalfSaved, Snapshots
<1> QED
  BY <1>1, <1>2, <1>3, <1>4

(* An expired key is collected; it was gone, or is by now. *)
LEMMA CollectsExpired ==
    ASSUME Inv, NEW k \in Keys, saveExpired(k)
    PROVE  Inv'
<1>1. Saving /\ k \in task.left /\ Expired(k) /\ Collect(k)
      /\ task' = [task EXCEPT !.left = @ \ {k}]
  BY DEF saveExpired
<1>2. PICK f \in Files, left \in SUBSET Keys, opened \in BOOLEAN :
        /\ task = [kind |-> "save", file |-> f, opened |-> opened, left |-> left]
        /\ task.file = f /\ task.left = left /\ task.opened = opened
        /\ opened =>
             \E entries \in Seq(Records), was \in Moments :
                /\ disk[f] = Snapshot(entries) /\ saved[f] = was /\ ~was.done
                /\ Matches(entries, was)
                /\ \A j \in left : Remains(j, was) /\ ~Holds(entries, j)
                /\ \A j \in Keys \ left : Holds(entries, j) \/ Gone(was, j)
  BY <1>1, SaveUnderWay
<1>3. /\ task' = [kind |-> "save", file |-> f, opened |-> opened, left |-> left \ {k}]
      /\ task' \in Saves
  BY <1>1, <1>2 DEF Saves
<1>4. task'.file = f /\ task'.left = left \ {k} /\ task'.opened = opened
      /\ task' \notin Loads
  BY <1>3 DEF Loads
<1>5. /\ db' = [db EXCEPT ![k] = Absent] /\ expire' = [expire EXCEPT ![k] = None]
      /\ UNCHANGED << now, up, reply, disk, torn, saved >>
  BY <1>1 DEF Collect
<1>6. TypeOK' /\ Worded' /\ now' \in Nat /\ now' >= now
  <2>1. TypeOK'
    BY <1>5 DEF TypeOK, Inv, Tables
  <2>2. Worded'
    BY <1>5, FineConstants DEF Worded, Inv, Tables, TypeOK
  <2> QED
    BY <1>5, <2>1, <2>2, TimeTyped DEF Inv, Tables
<1>7. Tables'
  BY <1>3, <1>5, <1>6 DEF Inv, Tables
<1>8. Snapshots'
  BY <1>5, <1>6, SnapshotsStand DEF Inv
<1>9. HalfSaved'
  <2>1. CASE opened
    <3>1. PICK entries \in Seq(Records), was \in Moments :
            /\ disk[f] = Snapshot(entries) /\ saved[f] = was /\ ~was.done
            /\ \A j \in left : Remains(j, was) /\ ~Holds(entries, j)
            /\ \A j \in Keys \ left : Holds(entries, j) \/ Gone(was, j)
      BY <1>2, <2>1
    <3>2. Gone(was, k)
      BY <1>1, <1>2, <3>1 DEF Remains
    <3>3. \A j \in Keys : Gone(was, j) => Gone(was, j)'
      BY <1>5 DEF Gone
    <3>4. ASSUME NEW j \in left \ {k}
          PROVE  Remains(j, was)'
      <4>1. j \in Keys /\ db'[j] = db[j] /\ expire'[j] = expire[j] /\ now' = now
        BY <1>5 DEF Inv, Tables, TypeOK
      <4>2. Remains(j, was)
        BY <3>1
      <4> QED
        BY <4>1, <4>2 DEF Remains, Expired, find, Gone
    <3> QED
      BY <1>4, <1>5, <3>1, <3>2, <3>3, <3>4 DEF HalfSaved, Holds
  <2>2. CASE ~opened
    BY <1>4, <2>2 DEF HalfSaved
  <2> QED
    BY <2>1, <2>2
<1> QED
  BY <1>4, <1>7, <1>8, <1>9 DEF Inv, HalfLoaded

(* What a save writes of a key can be read again. *)
LEMMA RecordTyped ==
    ASSUME Tables, NEW k \in Keys, db[k] # Absent, ~Unsavable(db[k]),
           NEW surplus \in IF db[k].type = "orderedset" THEN Surplus ELSE {FALSE}
    PROVE  [key |-> k, etime |-> expire[k], obj |-> db[k], surplus |-> surplus]
             \in Records
<1>1. db[k] \in Objects /\ expire[k] \in Int \cup {None} /\ Fine(db[k])
  BY DEF Unsavable, Tables, TypeOK, Worded
<1>2. surplus \in BOOLEAN /\ (surplus => db[k].type = "orderedset")
  BY SurplusAssumption
<1>3. db[k].type = "orderedset" => db[k] = CreateOSetObject
  <2> SUFFICES ASSUME db[k].type = "orderedset"
               PROVE  db[k] = CreateOSetObject
    OBVIOUS
  <2>1. db[k] \in OsetObjects
    BY <1>1, Shapes DEF Subjects
  <2>2. PICK o \in [Scores -> Vals \cup {None}] :
          db[k] = [type |-> "orderedset", oset |-> o]
    BY <2>1 DEF OsetObjects
  <2>3. \A s \in Scores : o[s] = None
    BY <2>2 DEF Unsavable
  <2>4. o = [s \in Scores |-> None]
    BY <2>3
  <2> QED
    BY <2>2, <2>4 DEF CreateOSetObject
<1>4. PICK rec : rec = [key |-> k, etime |-> expire[k], obj |-> db[k],
                        surplus |-> surplus]
  OBVIOUS
<1>5. rec \in Entries
  BY <1>1, <1>2, <1>4 DEF Entries
<1>6. rec.obj = db[k] /\ rec.surplus = surplus
  BY <1>4
<1>7. rec \in Records
  BY <1>1, <1>2, <1>3, <1>5, <1>6 DEF Records
<1> QED
  BY <1>4, <1>7

LEMMA Appended ==
    ASSUME NEW entries \in Seq(Records), NEW rec \in Records
    PROVE  /\ Append(entries, rec) \in Seq(Records)
           /\ DOMAIN entries = 1 .. Len(entries) /\ Len(entries) \in Nat
           /\ DOMAIN Append(entries, rec) = 1 .. Len(entries) + 1
           /\ \A i \in 1 .. Len(entries) : Append(entries, rec)[i] = entries[i]
           /\ Append(entries, rec)[Len(entries) + 1] = rec
OBVIOUS

LEMMA MatchesMore ==
    ASSUME NEW entries \in Seq(Records), NEW rec \in Records, NEW was,
           Matches(entries, was), ~Holds(entries, rec.key),
           rec.obj = was.objs[rec.key], rec.etime = was.ends[rec.key]
    PROVE  /\ Matches(Append(entries, rec), was)
           /\ \A k : Holds(Append(entries, rec), k) <=> Holds(entries, k) \/ k = rec.key
<1> DEFINE more == Append(entries, rec)
<1>1. /\ DOMAIN entries = 1 .. Len(entries) /\ Len(entries) \in Nat
      /\ DOMAIN more = 1 .. Len(entries) + 1
      /\ \A i \in 1 .. Len(entries) : more[i] = entries[i]
      /\ more[Len(entries) + 1] = rec
  BY Appended
<1> HIDE DEF more
<1>2. \A i \in DOMAIN more : (i \in DOMAIN entries /\ more[i] = entries[i])
                             \/ (i = Len(entries) + 1 /\ more[i] = rec)
  BY <1>1
<1>3. \A i \in DOMAIN entries : i \in DOMAIN more /\ more[i] = entries[i]
  BY <1>1
<1>4. Len(entries) + 1 \in DOMAIN more
  BY <1>1
<1>5. \A i \in DOMAIN entries : entries[i].key # rec.key
  BY DEF Holds
<1>6. \A i, j \in DOMAIN more : more[i].key = more[j].key => i = j
  BY <1>2, <1>5 DEF Matches
<1>7. \A i \in DOMAIN more :
         more[i].obj = was.objs[more[i].key] /\ more[i].etime = was.ends[more[i].key]
  BY <1>2 DEF Matches
<1>8. \A k : Holds(more, k) <=> Holds(entries, k) \/ k = rec.key
  BY <1>1, <1>2, <1>3, <1>4 DEF Holds
<1>9. Matches(more, was)
  BY <1>6, <1>7 DEF Matches
<1> QED
  BY <1>8, <1>9 DEF more

LEMMA SavesKey ==
    ASSUME Inv, NEW k \in Keys, saveKey(k)
    PROVE  Inv'
<1>1. /\ Saving /\ k \in task.left /\ ~Expired(k) /\ ~Unsavable(db[k])
      /\ task' = [task EXCEPT !.left = @ \ {k}]
      /\ UNCHANGED << vars, torn, saved >>
  BY DEF saveKey
<1>2. PICK f \in Files, left \in SUBSET Keys, opened \in BOOLEAN :
        /\ task = [kind |-> "save", file |-> f, opened |-> opened, left |-> left]
        /\ task.file = f /\ task.left = left /\ task.opened = opened
        /\ opened =>
             \E entries \in Seq(Records), was \in Moments :
                /\ disk[f] = Snapshot(entries) /\ saved[f] = was /\ ~was.done
                /\ Matches(entries, was)
                /\ \A j \in left : Remains(j, was) /\ ~Holds(entries, j)
                /\ \A j \in Keys \ left : Holds(entries, j) \/ Gone(was, j)
  BY <1>1, SaveUnderWay
<1>3. /\ task' = [kind |-> "save", file |-> f, opened |-> opened, left |-> left \ {k}]
      /\ task' \in Saves
  BY <1>1, <1>2 DEF Saves
<1>4. task'.file = f /\ task'.left = left \ {k} /\ task'.opened = opened
      /\ task' \notin Loads
  BY <1>3 DEF Loads
<1>5. UNCHANGED << db, expire, now, up, reply, saved >>
  BY <1>1 DEF vars
<1>6. TypeOK' /\ Worded' /\ now' \in Nat /\ now' >= now
  BY <1>5, TimeTyped DEF Inv, Tables, TypeOK, Worded
<1>7. CASE ~opened
  <2>1. disk' = disk
    BY <1>2, <1>7 DEF saveKey
  <2>2. Tables' /\ Snapshots'
    BY <1>3, <1>5, <1>6, <2>1, SnapshotsStand DEF Inv, Tables
  <2>3. HalfSaved'
    BY <1>4, <1>7 DEF HalfSaved
  <2> QED
    BY <1>4, <2>2, <2>3 DEF Inv, HalfLoaded
<1>8. CASE opened
  <2>1. PICK entries \in Seq(Records), was \in Moments :
          /\ disk[f] = Snapshot(entries) /\ saved[f] = was /\ ~was.done
          /\ Matches(entries, was)
          /\ \A j \in left : Remains(j, was) /\ ~Holds(entries, j)
          /\ \A j \in Keys \ left : Holds(entries, j) \/ Gone(was, j)
    BY <1>2, <1>8
  <2>2. PICK surplus \in IF db[k].type = "orderedset" THEN Surplus ELSE {FALSE} :
          disk' = [disk EXCEPT ![f].entries = Append(@,
                     [key |-> k, etime |-> expire[k], obj |-> db[k],
                      surplus |-> surplus])]
    BY <1>2, <1>8 DEF saveKey
  <2>3. Remains(k, was) /\ ~Holds(entries, k)
    BY <1>1, <1>2, <2>1
  <2>4. PICK rec \in Records :
          rec = [key |-> k, etime |-> expire[k], obj |-> db[k], surplus |-> surplus]
    BY <1>1, <2>3, RecordTyped DEF Remains, Inv
  <2>5. rec.key = k /\ rec.obj = was.objs[k] /\ rec.etime = was.ends[k]
    BY <1>1, <2>3, <2>4 DEF Remains, find, Unsavable
  <2>6. PICK more \in Seq(Records) : more = Append(entries, rec)
    BY Appended
  <2>7. Matches(more, was)
        /\ \A j : Holds(more, j) <=> Holds(entries, j) \/ j = k
    BY <2>1, <2>3, <2>5, <2>6, MatchesMore
  <2>8. disk' = [disk EXCEPT ![f] = Snapshot(more)]
    <3>1. disk' = [disk EXCEPT ![f].entries = Append(@, rec)]
      BY <2>2, <2>4
    <3>2. [Snapshot(entries) EXCEPT !.entries = Append(@, rec)] = Snapshot(more)
      <4>1. Snapshot(entries).entries = entries
        BY SnapshotRecords
      <4>2. [Snapshot(entries) EXCEPT !.entries = more] = Snapshot(more)
        BY DEF Snapshot
      <4> QED
        BY <2>6, <4>1, <4>2
    <3>3. disk' = [disk EXCEPT ![f] = [disk[f] EXCEPT !.entries = Append(@, rec)]]
      BY <3>1
    <3> QED
      BY <2>1, <3>2, <3>3
  <2>9. Snapshot(more) \in Written
    BY SnapshotRecords
  <2>10. Tables'
    <3>1. saved[f] \in Moments
      BY <2>1
    <3> QED
      BY <1>3, <1>5, <1>6, <2>8, <2>9, <3>1 DEF Inv, Tables
  <2>11. disk'[f] = Snapshot(more) /\ saved'[f] = was
    BY <1>5, <2>1, <2>8 DEF Inv, Tables
  <2>12. Snapshots'
    <3> SUFFICES ASSUME NEW g \in Files, NEW es \in Seq(Records), NEW w \in Moments,
                        disk'[g] = Snapshot(es), saved'[g] = w
                 PROVE  /\ Matches(es, w)
                        /\ w.done => \A j \in Keys : Holds(es, j) \/ Gone(w, j)'
      BY DEF Snapshots, Matches, Holds
    <3>1. CASE g = f
      <4>1. es = more /\ w = was
        BY <2>11, <3>1, SnapshotRecords
      <4> QED
        BY <2>1, <2>7, <4>1
    <3>2. CASE g # f
      <4>1. disk[g] = Snapshot(es) /\ saved[g] = w
        BY <1>5, <2>8, <3>2
      <4>2. /\ Matches(es, w)
            /\ w.done => \A j \in Keys : Holds(es, j) \/ Gone(w, j)
        BY <4>1 DEF Inv, Snapshots
      <4> QED
        BY <1>5, <4>2 DEF Gone
    <3> QED
      BY <3>1, <3>2
  <2>13. HalfSaved'
    <3>1. \A j \in left \ {k} : Remains(j, was)' /\ ~Holds(more, j)
      BY <1>5, <2>1, <2>7 DEF Remains, Expired, find, Gone
    <3>2. \A j \in Keys \ (left \ {k}) : Holds(more, j) \/ Gone(was, j)'
      BY <1>5, <2>1, <2>7 DEF Gone
    <3> QED
      BY <1>4, <2>1, <2>11, <3>1, <3>2 DEF HalfSaved, Holds
  <2> QED
    BY <1>4, <2>10, <2>12, <2>13 DEF Inv, HalfLoaded
<1> QED
  BY <1>7, <1>8

LEMMA SaveEnds ==
    ASSUME Inv, saveEnd
    PROVE  Inv'
<1>1. /\ Saving /\ task.left = {} /\ task' = Idle /\ reply' = Ok
      /\ UNCHANGED << db, expire, now, up, disk, torn >>
  BY DEF saveEnd
<1>2. PICK f \in Files, left \in SUBSET Keys, opened \in BOOLEAN :
        /\ task.file = f /\ task.left = left /\ task.opened = opened
        /\ opened =>
             \E entries \in Seq(Records), was \in Moments :
                /\ disk[f] = Snapshot(entries) /\ saved[f] = was /\ ~was.done
                /\ Matches(entries, was)
                /\ \A j \in Keys \ left : Holds(entries, j) \/ Gone(was, j)
  BY <1>1, SaveUnderWay
<1>3. TypeOK' /\ Worded' /\ now' \in Nat /\ now' >= now
  BY <1>1, ReplyTyped, TimeTyped DEF Inv, Tables, TypeOK, Worded
<1>4. CASE ~opened
  <2>1. saved' = saved
    BY <1>2, <1>4 DEF saveEnd
  <2>2. Tables' /\ Snapshots'
    BY <1>1, <1>3, <2>1, SnapshotsStand DEF Inv, Tables
  <2> QED
    BY <1>1, <2>2, IdleTask DEF Inv
<1>5. CASE opened
  <2>1. PICK entries \in Seq(Records), was \in Moments :
          /\ disk[f] = Snapshot(entries) /\ saved[f] = was
          /\ Matches(entries, was)
          /\ \A j \in Keys : Holds(entries, j) \/ Gone(was, j)
    BY <1>1, <1>2, <1>5
  <2>2. PICK ended \in Moments : ended = [was EXCEPT !.done = TRUE]
    BY DEF Moments
  <2>3. ended.objs = was.objs /\ ended.ends = was.ends
    BY <2>2 DEF Moments
  <2>4. saved' = [saved EXCEPT ![f].done = TRUE]
    BY <1>2, <1>5 DEF saveEnd
  <2>5. saved' = [saved EXCEPT ![f] = [saved[f] EXCEPT !.done = TRUE]]
    BY <2>4
  <2>6. saved' = [saved EXCEPT ![f] = ended]
    BY <2>1, <2>2, <2>5
  <2>7. Tables'
    BY <1>1, <1>3, <2>6 DEF Inv, Tables
  <2>8. saved'[f] = ended /\ disk' = disk /\ now' = now
    BY <1>1, <2>6 DEF Inv, Tables
  <2>9. Matches(entries, ended) /\ \A j \in Keys : Holds(entries, j) \/ Gone(ended, j)'
    BY <2>1, <2>3, <2>8 DEF Matches, Gone
  <2>10. Snapshots'
    <3> SUFFICES ASSUME NEW g \in Files, NEW es \in Seq(Records), NEW w \in Moments,
                        disk'[g] = Snapshot(es), saved'[g] = w
                 PROVE  /\ Matches(es, w)
                        /\ w.done => \A j \in Keys : Holds(es, j) \/ Gone(w, j)'
      BY DEF Snapshots, Matches, Holds
    <3>1. CASE g = f
      <4>1. es = entries /\ w = ended
        BY <2>1, <2>8, <3>1, SnapshotRecords
      <4> QED
        BY <2>9, <4>1
    <3>2. CASE g # f
      <4>1. disk[g] = Snapshot(es) /\ saved[g] = w
        BY <2>6, <2>8, <3>2
      <4>2. /\ Matches(es, w)
            /\ w.done => \A j \in Keys : Holds(es, j) \/ Gone(w, j)
        BY <4>1 DEF Inv, Snapshots
      <4> QED
        BY <2>8, <4>2 DEF Gone
    <3> QED
      BY <3>1, <3>2
  <2> QED
    BY <1>1, <2>7, <2>10, IdleTask DEF Inv
<1> QED
  BY <1>4, <1>5

(* What an interrupted save leaves is a part of a snapshot, and not one that *)
(* is done.                                                                  *)
LEMMA Prefix ==
    ASSUME NEW entries \in Seq(Records), NEW n \in 0 .. Len(entries)
    PROVE  \E s \in Seq(Records) :
              /\ s = SubSeq(entries, 1, n) /\ DOMAIN s = 1 .. n
              /\ \A i \in 1 .. n : i \in DOMAIN entries /\ s[i] = entries[i]
              /\ n < Len(entries) =>
                   /\ n + 1 \in DOMAIN entries /\ n + 1 \notin 1 .. n
                   /\ entries[n + 1] \in Records
              /\ n = Len(entries) => DOMAIN entries = 1 .. n
<1>1. PICK s : s = SubSeq(entries, 1, n)
  OBVIOUS
<1>2. Len(entries) \in Nat /\ \A i \in 1 .. Len(entries) : entries[i] \in Records
  BY ElementOfSeq
<1>3. s \in Seq(Records) /\ Len(s) = n
  BY <1>1, <1>2, SubSeqProperties
<1>4. \A i \in 1 .. n : s[i] = entries[i]
  BY <1>1, <1>2
<1>5. DOMAIN s = 1 .. n /\ \A i \in 1 .. n : i \in DOMAIN entries
  BY <1>2, <1>3
<1> QED
  BY <1>1, <1>2, <1>3, <1>4, <1>5

LEMMA PrefixMatches ==
    ASSUME NEW entries \in Seq(Records), NEW was, Matches(entries, was),
           NEW n \in 0 .. Len(entries)
    PROVE  SubSeq(entries, 1, n) \in Seq(Records)
           /\ Matches(SubSeq(entries, 1, n), was)
<1>1. PICK s \in Seq(Records) :
        /\ s = SubSeq(entries, 1, n) /\ DOMAIN s = 1 .. n
        /\ \A i \in 1 .. n : i \in DOMAIN entries /\ s[i] = entries[i]
  BY Prefix
<1>2. Matches(s, was)
  BY <1>1 DEF Matches
<1> QED
  BY <1>1, <1>2

LEMMA LosesUnflushed ==
    ASSUME Inv, NEW dying \in SUBSET Keys, LoseUnflushed(dying), TypeOK', Worded', UNCHANGED << now, saved >>
    PROVE  Inv'
<1>1. task' = Idle /\ now' \in Nat /\ now' >= now
  BY TimeTyped DEF LoseUnflushed, Inv, Tables
<1>2. CASE disk' = disk
  <2>1. Tables' /\ Snapshots'
    BY <1>1, <1>2, SnapshotsStand DEF Inv, Tables
  <2> QED
    BY <1>1, <2>1, IdleTask DEF Inv
<1>3. CASE Saving /\ task.opened
  <2>1. PICK f \in Files, entries \in Seq(Records), was \in Moments :
          /\ task.file = f /\ disk[f] = Snapshot(entries) /\ saved[f] = was
          /\ ~was.done /\ Matches(entries, was)
    BY <1>3, SaveUnderWay
  <2>2. ASSUME NEW left \in {Headless} \cup Written, disk' = [disk EXCEPT ![f] = left],
               \A es \in Seq(Records) : left = Snapshot(es) => Matches(es, was)
        PROVE  Inv'
    <3>1. Tables'
      BY <1>1, <2>1, <2>2 DEF Inv, Tables
    <3>2. Snapshots'
      <4> SUFFICES ASSUME NEW g \in Files, NEW es \in Seq(Records), NEW w \in Moments,
                          disk'[g] = Snapshot(es), saved'[g] = w
                   PROVE  /\ Matches(es, w)
                          /\ w.done => \A j \in Keys : Holds(es, j) \/ Gone(w, j)'
        BY DEF Snapshots, Matches, Holds
      <4>1. CASE g = f
        <5>1. left = Snapshot(es) /\ w = was
          BY <2>1, <2>2, <4>1 DEF Inv, Tables
        <5> QED
          BY <2>1, <2>2, <5>1
      <4>2. CASE g # f
        <5>1. disk[g] = Snapshot(es) /\ saved[g] = w
          BY <2>2, <4>2
        <5>2. /\ Matches(es, w)
              /\ w.done => \A j \in Keys : Holds(es, j) \/ Gone(w, j)
          BY <5>1 DEF Inv, Snapshots
        <5> QED
          BY <5>2 DEF Gone
      <4> QED
        BY <4>1, <4>2
    <3> QED
      BY <1>1, <3>1, <3>2, IdleTask DEF Inv
  <2>3. CASE disk' = [disk EXCEPT ![f] = Headless]
    BY <2>2, <2>3, SnapshotRecords
  <2>4. ASSUME NEW n \in 0 .. Len(disk[f].entries),
               disk' = [disk EXCEPT ![f].entries = SubSeq(@, 1, n)]
        PROVE  Inv'
    <3>1. disk[f].entries = entries
      BY <2>1, SnapshotRecords
    <3>2. PICK part \in Seq(Records) :
            part = SubSeq(entries, 1, n) /\ Matches(part, was)
      BY <2>1, <2>4, <3>1, PrefixMatches
    <3>3. disk' = [disk EXCEPT ![f] = [disk[f] EXCEPT !.entries = SubSeq(@, 1, n)]]
      BY <2>4
    <3>4. [Snapshot(entries) EXCEPT !.entries = part] = Snapshot(part)
      BY DEF Snapshot
    <3>5. disk' = [disk EXCEPT ![f] = Snapshot(part)]
      BY <2>1, <3>1, <3>2, <3>3, <3>4
    <3>6. Snapshot(part) \in Written
          /\ \A es \in Seq(Records) : Snapshot(part) = Snapshot(es) => Matches(es, was)
      BY <3>2, SnapshotRecords
    <3> QED
      BY <2>2, <3>5, <3>6
  <2> QED
    BY <1>3, <2>1, <2>3, <2>4 DEF LoseUnflushed
<1> QED
  BY <1>2, <1>3 DEF LoseUnflushed

LEMMA SaveDies ==
    ASSUME Inv, NEW k \in Keys, saveDies(k)
    PROVE  Inv'
<1>1. Crash /\ LoseUnflushed({k}) /\ UNCHANGED saved /\ UNCHANGED now
  BY DEF saveDies, Crash
<1>2. TypeOK' /\ Worded'
  BY <1>1, CrashTyped, FineConstants DEF Inv, Tables, Crash, Worded
<1> QED
  BY <1>1, <1>2, LosesUnflushed

LEMMA Killed ==
    ASSUME Inv, Kill
    PROVE  Inv'
<1>1. LoseUnflushed({}) /\ UNCHANGED << now, saved >>
  BY DEF Kill
<1>2. TypeOK' /\ Worded'
  BY ReplyTyped, FineConstants DEF Inv, Tables, Kill, TypeOK, Worded
<1> QED
  BY <1>1, <1>2, LosesUnflushed

(* The clock moves on during a save or a load. *)
LEMMA Waited ==
    ASSUME Inv, Wait
    PROVE  Inv'
<1>1. /\ now' = now + 1 /\ reply' = Quiet
      /\ UNCHANGED << db, expire, up, disk, torn, task, saved >>
  BY DEF Wait, Tick, fileVars
<1>2. now \in Nat /\ now' \in Nat /\ now' >= now
  BY <1>1, TimeTyped DEF Inv, Tables
<1>3. Tables'
  BY <1>1, <1>2, ReplyTyped DEF Inv, Tables, TypeOK, Worded
<1>4. Snapshots'
  BY <1>1, <1>2, SnapshotsStand DEF Inv
<1>5. ASSUME NEW k \in Keys, NEW was \in Moments, Remains(k, was)
      PROVE  Remains(k, was)'
  <2>1. CASE Expired(k)
    <3>1. Gone(was, k)'
      BY <1>2, <1>5, <2>1, GoneStays DEF Remains
    <3>2. Expired(k)'
      BY <1>1, <2>1 DEF Expired, Inv, Tables, TypeOK
    <3> QED
      BY <1>1, <1>5, <3>1, <3>2 DEF Remains
  <2>2. CASE ~Expired(k)
    <3>1. find(k) = was.objs[k] /\ expire[k] = was.ends[k] /\ db[k] # Absent
      BY <1>5, <2>2 DEF Remains
    <3>2. ~Expired(k)' => find(k)' = find(k)
      BY <1>1, <2>2 DEF find
    <3>3. Expired(k)' => Gone(was, k)'
      BY <1>1, <3>1 DEF Expired, Gone
    <3> QED
      BY <1>1, <3>1, <3>2, <3>3 DEF Remains
  <2> QED
    BY <2>1, <2>2
<1>6. HalfSaved'
  <2> SUFFICES ASSUME task \in Saves, task.opened
               PROVE  HalfSaved'
    BY <1>1 DEF HalfSaved
  <2>1. PICK entries \in Seq(Records), was \in Moments :
          /\ disk[task.file] = Snapshot(entries) /\ saved[task.file] = was
          /\ ~was.done
          /\ \A k \in task.left : Remains(k, was) /\ ~Holds(entries, k)
          /\ \A k \in Keys \ task.left : Holds(entries, k) \/ Gone(was, k)
    BY DEF Inv, HalfSaved
  <2>2. \A k \in task.left : k \in Keys
    BY DEF Saves
  <2>3. \A k \in task.left : Remains(k, was)'
    BY <1>5, <2>1, <2>2
  <2>4. \A k \in Keys \ task.left : Holds(entries, k) \/ Gone(was, k)'
    BY <1>2, <2>1, GoneStays
  <2> QED
    BY <1>1, <2>1, <2>3, <2>4 DEF HalfSaved, Holds
<1>7. HalfLoaded'
  <2> SUFFICES ASSUME task \in Loads
               PROVE  HalfLoaded'
    BY <1>1 DEF HalfLoaded
  <2>1. PICK entries \in Seq(Records), i \in Nat :
          /\ i \in 0 .. Len(entries)
          /\ disk[task.file] = Snapshot(entries)
          /\ Len(task.rest) = Len(entries) - i
          /\ \A j \in 1 .. Len(entries) - i : task.rest[j] = entries[i + j]
          /\ task.fresh => \A k \in Keys : Restored(k, entries, i)
    BY DEF Inv, HalfLoaded
  <2>2. \A j \in 1 .. i : entries[j].etime \in Int \cup {None}
    <3>1. \A j \in 1 .. i : j \in 1 .. Len(entries)
      BY <2>1
    <3>2. \A j \in 1 .. Len(entries) : entries[j] \in Records
      BY ElementOfSeq
    <3> QED
      BY <3>1, <3>2 DEF Records, Entries
  <2>3. ASSUME NEW k \in Keys, Restored(k, entries, i)
        PROVE  Restored(k, entries, i)'
    BY <1>1, <1>2, <2>2, <2>3 DEF Restored, Again
  <2> QED
    BY <1>1, <2>1, <2>3 DEF HalfLoaded
<1> QED
  BY <1>3, <1>4, <1>6, <1>7 DEF Inv
-----------------------------------------------------------------------------
(* What a load makes of an entry. *)
LEMMA RecordsTyped ==
    ASSUME NEW e \in Records
    PROVE  /\ e.key \in Keys /\ e.etime \in Int \cup {None}
           /\ Storable(e.obj)
           /\ e.surplus => e.obj = CreateOSetObject
BY DEF Records, Entries, Storable

LEMMA ObjectTypes ==
    ASSUME NEW o \in Objects
    PROVE  /\ o.type = "list" => o \in ListObjects
           /\ o.type = "hash" => o \in HashObjects
           /\ o.type = "set" => o \in SetObjects
           /\ o.type = "orderedset" => o \in OsetObjects
           /\ o.type = "string" => o \in StringObjects
           /\ o.type \in {"string", "list", "hash", "set", "orderedset"}
           /\ o \notin {Absent, NullPtr, Unsupported}
<1>1. o \in Subjects
  BY DEF Subjects
<1>2. o.type # "null"
  BY DEF Objects, StringObjects, ListObjects, HashObjects, SetObjects, OsetObjects
<1> QED
  BY <1>1, <1>2, Shapes

LEMMA Blanks ==
    /\ Blank["string"] = CreateStrObject /\ Blank["list"] = CreateListObject
    /\ Blank["hash"] = CreateHashObject /\ Blank["set"] = CreateSetObject
    /\ Blank["orderedset"] = CreateOSetObject
    /\ {CreateListObject, CreateHashObject, CreateSetObject, CreateOSetObject}
         \subseteq Objects
<1>1. << >> \in Seq(Vals)
  OBVIOUS
<1>2. /\ CreateListObject \in Objects /\ CreateHashObject \in Objects
      /\ CreateSetObject \in Objects /\ CreateOSetObject \in Objects
  BY <1>1 DEF Objects, ListObjects, HashObjects, SetObjects, OsetObjects,
     CreateListObject, CreateHashObject, CreateSetObject, CreateOSetObject
<1> QED
  BY <1>2 DEF Blank

LEMMA CreationTypes ==
    /\ CreateStrObject.type = "null" /\ CreateListObject.type = "list"
    /\ CreateHashObject.type = "hash" /\ CreateSetObject.type = "set"
    /\ CreateOSetObject.type = "orderedset"
BY DEF CreateStrObject, CreateListObject, CreateHashObject, CreateSetObject,
       CreateOSetObject

LEMMA RespelledTyped ==
    ASSUME NEW p \in StringObjects, Fine(p)
    PROVE  Respelled(p) \in StringObjects /\ Fine(Respelled(p))
<1>1. p.type = "string" /\ p.str \in Seq(Vals) /\ p.enc \in {"int", "raw"}
  BY DEF StringObjects
<1>2. p.str \in Texts
  BY <1>1, TextsOfLength DEF Fine
<1>3. Reread[p.str] \in Texts
  BY <1>2, RereadAssumption
<1>4. Reread[p.str] \in Seq(Vals) /\ Len(Reread[p.str]) \in 1 .. MaxLen
  BY <1>3, TextsTyped
<1> QED
  BY <1>1, <1>4 DEF Respelled, StringObjects, Fine

LEMMA MergedTyped ==
    ASSUME NEW o \in Objects, NEW p \in Objects, o.type = p.type,
           p.type \in {"list", "hash", "set"}
    PROVE  /\ Merged(o, p) \in Objects /\ Merged(o, p).type = o.type
           /\ Fine(Merged(o, p))
           /\ o.type = "list" =>
                SubSeq(Merged(o, p).list, 1, Len(o.list)) = o.list
           /\ o.type = "set" => o.uset \subseteq Merged(o, p).uset
           /\ o.type = "hash" =>
                \A f \in Vals : o.dict[f] # None => Merged(o, p).dict[f] # None
<1>1. CASE p.type = "list"
  <2>1. o \in ListObjects /\ p \in ListObjects
    BY <1>1, ObjectTypes
  <2>2. PICK s \in Seq(Vals), t \in Seq(Vals) : o = [type |-> "list", list |-> s]
                                               /\ p = [type |-> "list", list |-> t]
    BY <2>1 DEF ListObjects
  <2>3. PICK u \in Seq(Vals) : u = s \o t
    BY ConcatProperties
  <2>4. SubSeq(u, 1, Len(s)) = s
    <3>1. Len(s) \in Nat /\ Len(t) \in Nat /\ Len(u) = Len(s) + Len(t)
      BY <2>3
    <3>2. \A i \in 1 .. Len(s) : u[i] = s[i]
      BY <2>3
    <3>3. \A i \in 1 .. Len(s) : u[i] \in Vals
      BY <3>2, ElementOfSeq
    <3>4. /\ SubSeq(u, 1, Len(s)) \in Seq(Vals) /\ Len(SubSeq(u, 1, Len(s))) = Len(s)
          /\ \A i \in 1 .. Len(s) : SubSeq(u, 1, Len(s))[i] = s[i]
      BY <2>3, <3>1, <3>2, <3>3, SubSeqProperties
    <3> QED
      BY <3>4, SeqEqual
  <2>5. Merged(o, p) = [type |-> "list", list |-> u]
    BY <2>2, <2>3 DEF Merged
  <2>6. /\ Merged(o, p).type = "list" /\ Merged(o, p).list = u
        /\ o.type = "list" /\ o.list = s
    BY <2>2, <2>5
  <2>7. Merged(o, p) \in Objects
    BY <2>5 DEF Objects, ListObjects
  <2> QED
    BY <2>4, <2>6, <2>7 DEF Fine
<1>2. CASE p.type = "hash"
  <2>1. o \in HashObjects /\ p \in HashObjects
    BY <1>2, ObjectTypes
  <2>2. PICK s \in [Vals -> Vals \cup {None}], t \in [Vals -> Vals \cup {None}] :
          o = [type |-> "hash", dict |-> s] /\ p = [type |-> "hash", dict |-> t]
    BY <2>1 DEF HashObjects
  <2>3. PICK u \in [Vals -> Vals \cup {None}] :
          u = [f \in Vals |-> IF t[f] # None THEN t[f] ELSE s[f]]
    OBVIOUS
  <2>4. Merged(o, p) = [type |-> "hash", dict |-> u]
    BY <2>2, <2>3 DEF Merged
  <2>5. /\ Merged(o, p).type = "hash" /\ Merged(o, p).dict = u
        /\ o.type = "hash" /\ o.dict = s
    BY <2>2, <2>4
  <2>6. Merged(o, p) \in Objects
    BY <2>4 DEF Objects, HashObjects
  <2>7. \A f \in Vals : s[f] # None => u[f] # None
    BY <2>3
  <2> QED
    BY <2>5, <2>6, <2>7 DEF Fine
<1>3. CASE p.type = "set"
  <2>1. o \in SetObjects /\ p \in SetObjects
    BY <1>3, ObjectTypes
  <2>2. PICK s \in SUBSET Vals, t \in SUBSET Vals :
          o = [type |-> "set", uset |-> s] /\ p = [type |-> "set", uset |-> t]
    BY <2>1 DEF SetObjects
  <2>3. PICK u \in SUBSET Vals : u = s \cup t
    OBVIOUS
  <2>4. Merged(o, p) = [type |-> "set", uset |-> u]
    BY <2>2, <2>3 DEF Merged
  <2>5. /\ Merged(o, p) \in Objects
        /\ Merged(o, p).type = "set" /\ Merged(o, p).uset = u
        /\ o.type = "set" /\ o.uset = s
    <3>1. Merged(o, p) \in Objects
      BY <2>4 DEF Objects, SetObjects
    <3>2. o.type = "set" /\ o.uset = s
      BY <2>2
    <3>3. Merged(o, p).type = "set" /\ Merged(o, p).uset = u
      BY <2>4
    <3> QED
      BY <3>1, <3>2, <3>3
  <2>6. o.uset \subseteq Merged(o, p).uset
    BY <2>3, <2>5
  <2>7. Fine(Merged(o, p)) /\ Merged(o, p).type = o.type
    BY <2>5 DEF Fine
  <2> QED
    BY <2>5, <2>6, <2>7
<1> QED
  BY <1>1, <1>2, <1>3

(* An object that is there keeps its type, and what it has. *)
Extends(o, r) ==
    /\ r \in Objects /\ Fine(r) /\ r.type = o.type
    /\ o.type = "list" => SubSeq(r.list, 1, Len(o.list)) = o.list
    /\ o.type = "set" => o.uset \subseteq r.uset
    /\ o.type = "hash" => \A f \in Vals : o.dict[f] # None => r.dict[f] # None
    /\ o.type = "orderedset" => r = o

LEMMA ExtendsItself ==
    ASSUME NEW o \in Objects, Fine(o)
    PROVE  Extends(o, o)
<1>1. o.type = "list" => o.list \in Seq(Vals)
  BY ObjectTypes DEF ListObjects
<1>2. o.type = "list" => SubSeq(o.list, 1, Len(o.list)) = o.list
  BY <1>1, SubSeqFull
<1> QED
  BY <1>2 DEF Extends

LEMMA RefilledExtends ==
    ASSUME NEW o \in Objects, Fine(o), NEW p, Storable(p),
           Refilled(o, p) # Unsupported
    PROVE  Extends(o, Refilled(o, p))
<1>1. CASE p.type = "string"
  <2>1. o.type = "string" /\ Refilled(o, p) = Respelled(p)
    BY <1>1, ObjectTypes DEF Refilled
  <2>2. Respelled(p) \in StringObjects /\ Fine(Respelled(p))
    BY <1>1, ObjectTypes, RespelledTyped DEF Storable
  <2> QED
    BY <2>1, <2>2 DEF Extends, Objects, StringObjects
<1>2. CASE p.type # "string" /\ p \in Creations
  BY <1>2, ExtendsItself DEF Refilled
<1>3. CASE p.type # "string" /\ p \notin Creations
  <2>1. o.type = p.type /\ Refilled(o, p) = Merged(o, p)
    BY <1>3 DEF Refilled
  <2>2. p.type \in {"list", "hash", "set"}
    BY <1>3, ObjectTypes DEF Storable, Creations
  <2> QED
    BY <2>1, <2>2, MergedTyped, CreationTypes DEF Extends, Storable
<1> QED
  BY <1>1, <1>2, <1>3

(* Into nothing, the object is what was saved. *)
LEMMA RefilledBlank ==
    ASSUME NEW p, Storable(p)
    PROVE  /\ Refilled(Blank[p.type], p) = Again(p)
           /\ Again(p) \in Objects /\ Fine(Again(p))
<1>1. CASE p.type = "string"
  BY <1>1, Blanks, CreationTypes, ObjectTypes, RespelledTyped
     DEF Refilled, Again, Storable, Objects
<1>2. CASE p.type # "string"
  <2>1. Again(p) = p /\ p \in Objects /\ Fine(p)
    BY <1>2 DEF Again, Storable
  <2>2. p.type \in {"list", "hash", "set", "orderedset"}
    BY <1>2, <2>1, ObjectTypes
  <2>3. CASE p \in Creations
    <3>1. Refilled(Blank[p.type], p) = Blank[p.type]
      BY <1>2, <2>3 DEF Refilled
    <3>2. p # CreateStrObject
      BY <2>2, CreationTypes
    <3>3. Blank[p.type] = p
      BY <2>3, <3>2, Blanks, CreationTypes DEF Creations
    <3> QED
      BY <2>1, <3>1, <3>3
  <2>4. CASE p \notin Creations
    <3>1. p.type # "orderedset"
      BY <2>4 DEF Storable, Creations
    <3>2. CASE p.type = "list"
      <4>1. PICK s \in Seq(Vals) : p = [type |-> "list", list |-> s]
        BY <2>1, <3>2, ObjectTypes DEF ListObjects
      <4>2. << >> \o s = s
        BY ConcatEmptySeq
      <4>3. Merged(CreateListObject, p) = p
        BY <4>1, <4>2 DEF Merged, CreateListObject
      <4> QED
        BY <1>2, <2>1, <2>4, <3>2, <4>3, Blanks, CreationTypes DEF Refilled
    <3>3. CASE p.type = "hash"
      <4>1. PICK s \in [Vals -> Vals \cup {None}] : p = [type |-> "hash", dict |-> s]
        BY <2>1, <3>3, ObjectTypes DEF HashObjects
      <4>2. [f \in Vals |-> IF s[f] # None THEN s[f] ELSE None] = s
        OBVIOUS
      <4>3. Merged(CreateHashObject, p) = p
        BY <4>1, <4>2 DEF Merged, CreateHashObject
      <4> QED
        BY <1>2, <2>1, <2>4, <3>3, <4>3, Blanks, CreationTypes DEF Refilled
    <3>4. CASE p.type = "set"
      <4>1. PICK s \in SUBSET Vals : p = [type |-> "set", uset |-> s]
        BY <2>1, <3>4, ObjectTypes DEF SetObjects
      <4>2. Merged(CreateSetObject, p) = p
        BY <4>1 DEF Merged, CreateSetObject
      <4> QED
        BY <1>2, <2>1, <2>4, <3>4, <4>2, Blanks, CreationTypes DEF Refilled
    <3> QED
      BY <2>2, <3>1, <3>2, <3>3, <3>4
  <2> QED
    BY <2>1, <2>3, <2>4
<1> QED
  BY <1>1, <1>2
-----------------------------------------------------------------------------
(* What a cut leaves of an object can be read, and is a remnant of it. *)
LEMMA CutsTyped ==
    ASSUME NEW words \in Seq(Vals), NEW s \in Cuts(words)
    PROVE  /\ s \in Seq(Vals) /\ Len(s) \in 1 .. Len(words)
           /\ \A l \in 1 .. Len(s) - 1 : s[l] = words[l]
<1>1. PICK i \in DOMAIN words : \E c \in WordCuts[words[i]] :
        s = Append(SubSeq(words, 1, i - 1), c)
  BY DEF Cuts
<1>2. /\ Len(words) \in Nat /\ DOMAIN words = 1 .. Len(words)
      /\ i \in 1 .. Len(words) /\ words[i] \in Vals
  BY ElementOfSeq
<1>3. PICK c \in Vals : s = Append(SubSeq(words, 1, i - 1), c)
  <2>1. WordCuts[words[i]] \subseteq Vals
    BY <1>2, CutsAssumption
  <2> QED
    BY <1>1, <2>1
<1>4. PICK m \in Nat : m = i - 1
  BY <1>2
<1>5. PICK front : front = SubSeq(words, 1, m)
  OBVIOUS
<1>6. \A l \in 1 .. m : words[l] \in Vals
  BY <1>2, <1>4, ElementOfSeq
<1>7. front \in Seq(Vals) /\ Len(front) = m /\ \A l \in 1 .. m : front[l] = words[l]
  BY <1>2, <1>4, <1>5, <1>6, SubSeqProperties
<1>8. s = Append(front, c)
  BY <1>3, <1>4, <1>5
<1>9. s \in Seq(Vals) /\ Len(s) = m + 1 /\ \A l \in 1 .. m : s[l] = front[l]
  BY <1>3, <1>7, <1>8
<1> QED
  BY <1>2, <1>4, <1>7, <1>9

LEMMA ListCuts ==
    ASSUME NEW o \in ListObjects, NEW p \in ObjectCuts(o)
    PROVE  p \in Objects /\ p.type = "list" /\ Remnant(p, o)
<1>1. PICK words \in Seq(Vals) : o = [type |-> "list", list |-> words]
  BY DEF ListObjects
<1>2. o.type = "list" /\ o.list = words /\ Len(words) \in Nat
  BY <1>1
<1>3. PICK s \in {SubSeq(words, 1, n) : n \in 0 .. Len(words)} \cup Cuts(words) :
        p = [o EXCEPT !.list = s]
  BY <1>2 DEF ObjectCuts
<1>4. /\ s \in Seq(Vals) /\ Len(s) \in 0 .. Len(words)
      /\ \A l \in 1 .. Len(s) - 1 : s[l] = words[l]
  <2>1. CASE s \in Cuts(words)
    BY <1>2, <2>1, CutsTyped
  <2>2. ASSUME NEW n \in 0 .. Len(words), s = SubSeq(words, 1, n)
        PROVE  /\ s \in Seq(Vals) /\ Len(s) \in 0 .. Len(words)
               /\ \A l \in 1 .. Len(s) - 1 : s[l] = words[l]
    <3>1. \A l \in 1 .. n : words[l] \in Vals
      BY <1>2, ElementOfSeq
    <3>2. s \in Seq(Vals) /\ Len(s) = n /\ \A l \in 1 .. n : s[l] = words[l]
      BY <1>2, <2>2, <3>1, SubSeqProperties
    <3> QED
      BY <1>2, <3>2
  <2> QED
    BY <1>3, <2>1, <2>2
<1>5. p = [type |-> "list", list |-> s]
  BY <1>1, <1>3
<1>6. p \in ListObjects /\ p.type = "list" /\ p.list = s
  BY <1>4, <1>5 DEF ListObjects
<1> QED
  BY <1>2, <1>4, <1>6 DEF Remnant, Objects

LEMMA HashCuts ==
    ASSUME NEW o \in HashObjects, NEW p \in ObjectCuts(o)
    PROVE  p \in Objects /\ p.type = "hash" /\ Remnant(p, o)
<1>1. PICK dict \in [Vals -> Vals \cup {None}] : o = [type |-> "hash", dict |-> dict]
  BY DEF HashObjects
<1>2. o.type = "hash" /\ o.dict = dict
  BY <1>1
<1>3. PICK S \in SUBSET {f \in Vals : dict[f] # None} :
        \E d \in {Kept(dict, S)}
                  \cup UNION {FieldCuts(dict, S, f) :
                                f \in {h \in Vals : dict[h] # None} \ S} :
            p = [o EXCEPT !.dict = d]
  BY <1>2 DEF ObjectCuts
<1>4. PICK d \in {Kept(dict, S)}
                  \cup UNION {FieldCuts(dict, S, f) :
                                f \in {h \in Vals : dict[h] # None} \ S} :
        p = [o EXCEPT !.dict = d]
  BY <1>3
<1>5. /\ Kept(dict, S) \in [Vals -> Vals \cup {None}]
      /\ \A h \in Vals : Kept(dict, S)[h] \in {None, dict[h]}
  BY DEF Kept
<1>6. \/ d = Kept(dict, S)
      \/ \E g \in Vals, w \in Vals : d = [Kept(dict, S) EXCEPT ![g] = w]
  <2>1. ASSUME NEW f \in Vals, dict[f] # None, d \in FieldCuts(dict, S, f)
        PROVE  \E g \in Vals, w \in Vals : d = [Kept(dict, S) EXCEPT ![g] = w]
    <3>1. dict[f] \in Vals
      BY <2>1
    <3>2. WordCuts[dict[f]] \subseteq Vals /\ WordCuts[f] \subseteq Vals
          /\ EmptyWord \in Vals
      BY <3>1, CutsAssumption
    <3> QED
      BY <2>1, <3>2 DEF FieldCuts
  <2> QED
    BY <1>4, <2>1
<1>7. /\ d \in [Vals -> Vals \cup {None}]
      /\ \A f, g \in {h \in Vals : d[h] \notin {None, dict[h]}} : f = g
  <2>1. CASE d = Kept(dict, S)
    BY <1>5, <2>1
  <2>2. ASSUME NEW g \in Vals, NEW w \in Vals, d = [Kept(dict, S) EXCEPT ![g] = w]
        PROVE  /\ d \in [Vals -> Vals \cup {None}]
               /\ \A f, e \in {h \in Vals : d[h] \notin {None, dict[h]}} : f = e
    <3>1. \A h \in Vals \ {g} : d[h] = Kept(dict, S)[h]
      BY <1>5, <2>2
    <3> QED
      BY <1>5, <2>2, <3>1
  <2> QED
    BY <1>6, <2>1, <2>2
<1>8. p = [type |-> "hash", dict |-> d]
  BY <1>1, <1>4
<1>9. p \in HashObjects /\ p.type = "hash" /\ p.dict = d
  BY <1>7, <1>8 DEF HashObjects
<1> QED
  BY <1>2, <1>7, <1>9 DEF Remnant, Objects

LEMMA SetCuts ==
    ASSUME NEW o \in SetObjects, NEW p \in ObjectCuts(o)
    PROVE  p \in Objects /\ p.type = "set" /\ Remnant(p, o)
<1>1. PICK uset \in SUBSET Vals : o = [type |-> "set", uset |-> uset]
  BY DEF SetObjects
<1>2. o.type = "set" /\ o.uset = uset
  BY <1>1
<1>3. PICK U \in UNION {{S} \cup {S \cup {c} : c \in
                                    UNION {WordCuts[m] : m \in uset \ S}} :
                         S \in SUBSET uset} :
        p = [o EXCEPT !.uset = U]
  BY <1>2 DEF ObjectCuts
<1>4. PICK S \in SUBSET uset :
        U = S \/ \E m \in uset \ S : \E c \in WordCuts[m] : U = S \cup {c}
  BY <1>3
<1>5. \A m \in uset \ S : WordCuts[m] \subseteq Vals
  BY CutsAssumption
<1>6. U \in SUBSET Vals /\ \A m, n \in U \ uset : m = n
  BY <1>4, <1>5
<1>7. p = [type |-> "set", uset |-> U]
  BY <1>1, <1>3
<1>8. p \in SetObjects /\ p.type = "set" /\ p.uset = U
  BY <1>6, <1>7 DEF SetObjects
<1> QED
  BY <1>2, <1>6, <1>8 DEF Remnant, Objects

LEMMA StringCuts ==
    ASSUME NEW o \in StringObjects, Fine(o), NEW p \in ObjectCuts(o)
    PROVE  p \in StringObjects /\ Fine(p)
<1>1. PICK str \in Seq(Vals), enc \in {"int", "raw"} :
        o = [type |-> "string", str |-> str, enc |-> enc]
  BY DEF StringObjects
<1>2. /\ o.type = "string" /\ o.str = str /\ o.enc = enc
      /\ Len(str) \in 1 .. MaxLen /\ MaxLen \in Nat
  BY <1>1, MaxLenAssumption DEF Fine
<1>3. PICK s \in IF enc = "int" THEN NumberCuts[str] ELSE Cuts(str) :
        p = [o EXCEPT !.str = s]
  BY <1>2 DEF ObjectCuts
<1>4. s \in Seq(Vals) /\ Len(s) \in 1 .. MaxLen
  <2>1. CASE enc = "int"
    <3>1. NumberCuts[str] \subseteq Texts
      BY <1>2, TextsOfLength, CutsAssumption
    <3> QED
      BY <1>3, <2>1, <3>1, TextsTyped
  <2>2. CASE enc # "int"
    <3>1. s \in Seq(Vals) /\ Len(s) \in 1 .. Len(str)
      BY <1>3, <2>2, CutsTyped
    <3> QED
      BY <1>2, <3>1
  <2> QED
    BY <2>1, <2>2
<1>5. p = [type |-> "string", str |-> s, enc |-> enc]
  BY <1>1, <1>3
<1> QED
  BY <1>4, <1>5 DEF StringObjects, Fine

LEMMA CutsRemain ==
    ASSUME NEW o \in Objects, NEW p \in ObjectCuts(o)
    PROVE  Remnant(Again(p), o)
<1>1. CASE o.type = "string"
  <2>1. PICK str \in Seq(Vals), enc \in {"int", "raw"} :
          o = [type |-> "string", str |-> str, enc |-> enc]
    BY <1>1, ObjectTypes DEF StringObjects
  <2>2. PICK s : p = [o EXCEPT !.str = s]
    BY <1>1 DEF ObjectCuts
  <2>3. p = [type |-> "string", str |-> s, enc |-> enc]
    BY <2>1, <2>2
  <2>4. Again(p).type = "string"
    BY <2>3 DEF Again, Respelled
  <2> QED
    BY <1>1, <2>4 DEF Remnant
<1>2. CASE o.type = "orderedset"
  <2>1. p = CreateOSetObject
    BY <1>2 DEF ObjectCuts
  <2> QED
    BY <1>2, <2>1, CreationTypes DEF Remnant, Again
<1>3. CASE o.type \in {"list", "hash", "set"}
  <2>1. p.type = o.type /\ Remnant(p, o)
    BY <1>3, ObjectTypes, ListCuts, HashCuts, SetCuts
  <2> QED
    BY <1>3, <2>1 DEF Again
<1> QED
  BY <1>1, <1>2, <1>3, ObjectTypes

LEMMA ObjectCutsTyped ==
    ASSUME NEW o \in Objects, Fine(o), NEW p \in ObjectCuts(o)
    PROVE  Storable(p)
<1>1. CASE o.type = "string"
  <2>1. o \in StringObjects /\ p \in StringObjects /\ Fine(p)
    BY <1>1, ObjectTypes, StringCuts
  <2>2. p.type = "string" /\ p \in Objects
    BY <2>1 DEF StringObjects, Objects
  <2> QED
    BY <2>1, <2>2 DEF Storable
<1>2. CASE o.type = "orderedset"
  <2>1. p = CreateOSetObject
    BY <1>2 DEF ObjectCuts
  <2>2. p \in Objects /\ p.type = "orderedset"
    BY <2>1, Blanks, CreationTypes
  <2> QED
    BY <2>1, <2>2 DEF Storable, Fine
<1>3. CASE o.type \in {"list", "hash", "set"}
  <2>1. p \in Objects /\ p.type = o.type
    BY <1>3, ObjectTypes, ListCuts, HashCuts, SetCuts
  <2> QED
    BY <1>3, <2>1 DEF Storable, Fine
<1> QED
  BY <1>1, <1>2, <1>3, ObjectTypes

LEMMA BlankRemnant ==
    ASSUME NEW o \in Objects
    PROVE  \/ Blank[o.type] = CreateStrObject
           \/ /\ Storable(Blank[o.type]) /\ Remnant(Again(Blank[o.type]), o)
              /\ Blank[o.type] \in Creations \ {CreateStrObject}
              /\ Blank[o.type].type \notin {"string", "null"}
<1>1. CASE o.type = "list"
  <2>1. o.list \in Seq(Vals)
    BY <1>1, ObjectTypes DEF ListObjects
  <2> QED
    BY <1>1, <2>1, Blanks, CreationTypes
       DEF CreateListObject, Remnant, Again, Storable, Fine, Creations
<1>2. CASE o.type = "hash"
  BY <1>2, Blanks, CreationTypes
     DEF CreateHashObject, Remnant, Again, Storable, Fine, Creations
<1>3. CASE o.type = "set"
  BY <1>3, Blanks, CreationTypes
     DEF CreateSetObject, Remnant, Again, Storable, Fine, Creations
<1>4. CASE o.type = "orderedset"
  BY <1>4, Blanks, CreationTypes DEF Remnant, Again, Storable, Fine, Creations
<1> QED
  BY <1>1, <1>2, <1>3, <1>4, Blanks, ObjectTypes
-----------------------------------------------------------------------------
(* A load begins before the first entry, and goes on one entry at a time. *)
LEMMA LoadBegins ==
    ASSUME Inv, NEW f \in Files, doLoad(f)
    PROVE  Inv'
<1>1. UNCHANGED << db, expire, now, up, disk, torn, saved >>
  BY DEF doLoad
<1>2. TypeOK' /\ Worded' /\ now' \in Nat /\ now' >= now
  BY <1>1, ReplyTyped, TimeTyped DEF doLoad, Inv, Tables, TypeOK, Worded
<1>3. Snapshots'
  BY <1>1, <1>2, SnapshotsStand DEF Inv
<1>4. CASE disk[f].kind # "sdb"
  <2>1. task' = Idle
    BY <1>4 DEF doLoad
  <2>2. Tables'
    BY <1>1, <1>2, <2>1 DEF Inv, Tables
  <2> QED
    BY <1>3, <2>1, <2>2, IdleTask DEF Inv
<1>5. CASE disk[f].kind = "sdb"
  <2>1. PICK entries \in Seq(Records) :
          disk[f] = Snapshot(entries) /\ disk[f].entries = entries
    BY <1>5, Kinds, SnapshotRecords DEF Inv
  <2>2. PICK fresh \in BOOLEAN :
          fresh = \A k \in Keys : db[k] = Absent /\ expire[k] = None
    OBVIOUS
  <2>3. task' = [kind |-> "load", file |-> f, rest |-> entries, fresh |-> fresh]
    BY <1>5, <2>1, <2>2 DEF doLoad
  <2>4. /\ task' \in Loads /\ task' \notin Saves
        /\ task'.file = f /\ task'.rest = entries /\ task'.fresh = fresh
    BY <2>3 DEF Loads, Saves
  <2>5. Tables'
    BY <1>1, <1>2, <2>4 DEF Inv, Tables
  <2>6. PICK i \in Nat : i = 0
    OBVIOUS
  <2>7. /\ Len(entries) \in Nat /\ i \in 0 .. Len(entries)
        /\ Len(entries) = Len(entries) - i /\ 1 .. i = {}
        /\ \A j \in 1 .. Len(entries) - i : i + j = j
    BY <2>6
  <2>8. fresh => \A k \in Keys : Restored(k, entries, i)'
    BY <1>1, <2>2, <2>7 DEF Restored
  <2>9. disk'[f] = Snapshot(entries)
    BY <1>1, <2>1
  <2>10. HalfLoaded'
    BY <2>4, <2>7, <2>8, <2>9 DEF HalfLoaded
  <2> QED
    BY <1>3, <2>4, <2>5, <2>10 DEF Inv, HalfSaved
<1> QED
  BY <1>4, <1>5

(* The state of a load under way, in names that do not change with it. *)
NextEntry(e, entries, i, rest) ==
    /\ e = entries[i + 1] /\ Tail(task.rest) = rest
    /\ Len(rest) = Len(entries) - (i + 1)
    /\ \A j \in 1 .. Len(entries) - (i + 1) : rest[j] = entries[(i + 1) + j]

AtEntry(f, fresh, entries, i, e, rest) ==
    /\ task.file = f /\ task.fresh = fresh /\ Next1 = e
    /\ [task EXCEPT !.rest = Tail(@)]
         = [kind |-> "load", file |-> f, rest |-> rest, fresh |-> fresh]
    /\ disk[f] = Snapshot(entries)
    /\ \A j, l \in 1 .. Len(entries) : entries[j].key = entries[l].key => j = l
    /\ i + 1 \in 1 .. Len(entries)
    /\ NextEntry(e, entries, i, rest)
    /\ fresh => \A k \in Keys : Restored(k, entries, i)

LEMMA LoadUnderWay ==
    ASSUME Inv, Reading
    PROVE  \E f \in Files, fresh \in BOOLEAN, entries \in Seq(Records), i \in Nat,
              e \in Records, rest \in Seq(Records) :
              AtEntry(f, fresh, entries, i, e, rest)
<1>1. task \in Loads /\ task.rest # << >>
  BY Kinds DEF Inv, Reading
<1>2. PICK f \in Files, fresh \in BOOLEAN, all \in Seq(Records) :
        task = [kind |-> "load", file |-> f, rest |-> all, fresh |-> fresh]
  BY <1>1 DEF Loads
<1>3. task.file = f /\ task.fresh = fresh /\ task.rest = all /\ all # << >>
  BY <1>1, <1>2
<1>4. PICK entries \in Seq(Records), i \in Nat :
        /\ i \in 0 .. Len(entries)
        /\ disk[f] = Snapshot(entries)
        /\ Len(all) = Len(entries) - i
        /\ \A j \in 1 .. Len(entries) - i : all[j] = entries[i + j]
        /\ fresh => \A k \in Keys : Restored(k, entries, i)
  <2>1. PICK entries \in Seq(Records) : \E i \in 0 .. Len(entries) :
          /\ disk[task.file] = Snapshot(entries)
          /\ Len(task.rest) = Len(entries) - i
          /\ \A j \in 1 .. Len(entries) - i : task.rest[j] = entries[i + j]
          /\ task.fresh => \A k \in Keys : Restored(k, entries, i)
    BY <1>1 DEF Inv, HalfLoaded
  <2>2. PICK i \in 0 .. Len(entries) :
          /\ disk[f] = Snapshot(entries)
          /\ Len(all) = Len(entries) - i
          /\ \A j \in 1 .. Len(entries) - i : all[j] = entries[i + j]
          /\ fresh => \A k \in Keys : Restored(k, entries, i)
    BY <1>3, <2>1
  <2>3. i \in Nat
    OBVIOUS
  <2> QED
    BY <2>2, <2>3
<1>5. /\ Head(all) \in Records /\ Tail(all) \in Seq(Records)
      /\ Len(Tail(all)) = Len(all) - 1 /\ Len(all) \in Nat /\ Len(all) # 0
      /\ Head(all) = all[1]
      /\ \A j \in 1 .. Len(all) - 1 : Tail(all)[j] = all[j + 1]
  BY <1>3, HeadTailProperties, ElementOfSeq
<1>6. PICK rest \in Seq(Records) : rest = Tail(all)
  BY <1>5
<1>7. Len(entries) \in Nat
  OBVIOUS
<1>8. i + 1 \in 1 .. Len(entries) /\ Len(rest) = Len(entries) - (i + 1)
  BY <1>4, <1>5, <1>6, <1>7
<1>9. Head(all) = entries[i + 1]
  <2>1. 1 \in 1 .. Len(entries) - i
    BY <1>7, <1>8
  <2> QED
    BY <1>4, <1>5, <2>1
<1>10. ASSUME NEW j \in 1 .. Len(entries) - (i + 1)
       PROVE  rest[j] = entries[(i + 1) + j]
  <2>1. /\ j \in 1 .. Len(all) - 1 /\ j + 1 \in 1 .. Len(entries) - i
        /\ i + (j + 1) = (i + 1) + j
    BY <1>4, <1>7
  <2>2. rest[j] = all[j + 1]
    BY <1>5, <1>6, <2>1
  <2>3. all[j + 1] = entries[i + (j + 1)]
    BY <1>4, <2>1
  <2> QED
    BY <2>1, <2>2, <2>3
<1>11. [task EXCEPT !.rest = Tail(@)]
         = [kind |-> "load", file |-> f, rest |-> rest, fresh |-> fresh]
  <2>1. Tail(task.rest) = rest
    BY <1>3, <1>6
  <2>2. [task EXCEPT !.rest = rest]
          = [kind |-> "load", file |-> f, rest |-> rest, fresh |-> fresh]
    BY <1>2
  <2> QED
    BY <2>1, <2>2
<1>12. \A j, l \in 1 .. Len(entries) : entries[j].key = entries[l].key => j = l
  <2>1. saved[f] \in Moments
    BY <1>4, SnapshotRecords DEF Inv, Tables
  <2>2. Matches(entries, saved[f])
    BY <1>4, <2>1 DEF Inv, Snapshots
  <2>3. DOMAIN entries = 1 .. Len(entries)
    OBVIOUS
  <2> QED
    BY <2>2, <2>3 DEF Matches
<1>13. PICK e \in Records : e = Head(all)
  BY <1>5
<1>14. Next1 = e
  BY <1>3, <1>13 DEF Next1
<1>15. NextEntry(e, entries, i, rest)
  BY <1>3, <1>6, <1>8, <1>9, <1>10, <1>13 DEF NextEntry
<1>16. AtEntry(f, fresh, entries, i, e, rest)
  BY <1>3, <1>4, <1>8, <1>11, <1>12, <1>14, <1>15 DEF AtEntry
<1> QED
  BY <1>16

LEMMA DeadlineInserted ==
    ASSUME TypeOK, NEW e, e.key \in Keys, e.etime \in Int \cup {None},
           InsertDeadline(e)
    PROVE  /\ expire' \in [Keys -> Int \cup {None}]
           /\ \A k \in Keys \ {e.key} : expire'[k] = expire[k]
           /\ expire'[e.key] = IF Live(e) /\ e.etime # None /\ expire[e.key] = None
                               THEN e.etime ELSE expire[e.key]
BY DEF InsertDeadline, TypeOK

(* The object a load adds to is there, or begins empty. *)
LEMMA BaseTyped ==
    ASSUME Tables, NEW e \in Records
    PROVE  \/ /\ db[e.key] \in {Absent, NullPtr}
              /\ Base(e) = Blank[e.obj.type]
           \/ /\ db[e.key] \in Objects /\ Fine(db[e.key])
              /\ Base(e) = db[e.key]
<1>1. e.key \in Keys
  BY RecordsTyped
<1> QED
  BY <1>1, ObjectTypes DEF Base, Tables, TypeOK, Worded

LEMMA RefilledTyped ==
    ASSUME Tables, NEW e \in Records, Refilled(Base(e), e.obj) # Unsupported
    PROVE  Refilled(Base(e), e.obj) \in Objects /\ Fine(Refilled(Base(e), e.obj))
<1>1. Storable(e.obj)
  BY RecordsTyped
<1>2. CASE Base(e) = Blank[e.obj.type]
  BY <1>1, <1>2, RefilledBlank
<1>3. CASE Base(e) = db[e.key] /\ db[e.key] \in Objects /\ Fine(db[e.key])
  BY <1>1, <1>3, RefilledExtends DEF Extends
<1> QED
  BY <1>2, <1>3, BaseTyped

(* One entry read, and what it makes of a database that was empty. *)
LEMMA EntryRead ==
    ASSUME Inv, TypeOK', Worded', UNCHANGED << now, disk, saved >>,
           NEW f \in Files, NEW fresh \in BOOLEAN, NEW entries \in Seq(Records),
           NEW i \in Nat, NEW e \in Records, NEW rest \in Seq(Records),
           task' = [kind |-> "load", file |-> f, rest |-> rest, fresh |-> fresh],
           disk[f] = Snapshot(entries), i + 1 \in 1 .. Len(entries),
           NextEntry(e, entries, i, rest),
           fresh => \A k \in Keys : Restored(k, entries, i + 1)'
    PROVE  Inv'
<1>1. /\ task' \in Loads /\ task' \notin Saves
      /\ task'.file = f /\ task'.rest = rest /\ task'.fresh = fresh
  BY DEF Loads, Saves
<1>2. Tables'
  BY <1>1 DEF Inv, Tables
<1>3. now' \in Nat /\ now' >= now
  BY TimeTyped DEF Inv, Tables
<1>4. Snapshots'
  BY <1>3, SnapshotsStand DEF Inv
<1>5. PICK l \in Nat : l = i + 1 /\ l \in 0 .. Len(entries)
  OBVIOUS
<1>6. HalfLoaded'
  BY <1>1, <1>5 DEF HalfLoaded, NextEntry
<1> QED
  BY <1>1, <1>2, <1>4, <1>6 DEF Inv, HalfSaved

(* The keys of the other entries are left alone. *)
LEMMA RestoredMore ==
    ASSUME NEW entries \in Seq(Records), NEW i \in Nat, i + 1 \in 1 .. Len(entries),
           NEW e \in Records, e = entries[i + 1],
           \A j, l \in 1 .. Len(entries) : entries[j].key = entries[l].key => j = l,
           \A k \in Keys : Restored(k, entries, i),
           now' = now,
           \A k \in Keys \ {e.key} : db'[k] = db[k] /\ expire'[k] = expire[k],
           \/ db'[e.key] = Again(e.obj) /\ expire'[e.key] = e.etime
           \/ /\ db'[e.key] = Absent /\ expire'[e.key] = None
              /\ e.etime # None /\ now >= e.etime
    PROVE  \A k \in Keys : Restored(k, entries, i + 1)'
<1> SUFFICES ASSUME NEW k \in Keys
             PROVE  Restored(k, entries, i + 1)'
  OBVIOUS
<1>1. /\ i + 1 \in 1 .. i + 1
      /\ \A j \in 1 .. i + 1 : j \in 1 .. i \/ j = i + 1
      /\ \A j \in 1 .. i : j \in 1 .. i + 1 /\ j # i + 1 /\ j \in 1 .. Len(entries)
  OBVIOUS
<1>2. CASE k = e.key
  <2>1. \A j \in 1 .. i : entries[j].key # k
    BY <1>1, <1>2
  <2> QED
    BY <1>1, <1>2, <2>1 DEF Restored, Again
<1>3. CASE k # e.key
  <2>1. Restored(k, entries, i) /\ db'[k] = db[k] /\ expire'[k] = expire[k]
    BY <1>3
  <2>2. \A j \in 1 .. i + 1 : entries[j].key = k => j \in 1 .. i
    BY <1>1, <1>3
  <2> QED
    BY <1>1, <2>1, <2>2 DEF Restored, Again
<1> QED
  BY <1>2, <1>3

(* Before it is read nothing is there of an entry's key. *)
LEMMA NothingYet ==
    ASSUME NEW entries \in Seq(Records), NEW i \in Nat, i + 1 \in 1 .. Len(entries),
           NEW e \in Records, e = entries[i + 1],
           \A j, l \in 1 .. Len(entries) : entries[j].key = entries[l].key => j = l,
           \A k \in Keys : Restored(k, entries, i)
    PROVE  db[e.key] = Absent /\ expire[e.key] = None
<1>1. \A j \in 1 .. i : j \in 1 .. Len(entries) /\ j # i + 1
  OBVIOUS
<1>2. \A j \in 1 .. i : entries[j].key # e.key
  BY <1>1
<1>3. e.key \in Keys
  BY RecordsTyped
<1> QED
  BY <1>2, <1>3 DEF Restored

LEMMA LoadsKey ==
    ASSUME Inv, loadKey
    PROVE  Inv'
<1>1. PICK f \in Files, fresh \in BOOLEAN, entries \in Seq(Records), i \in Nat,
           e \in Records, rest \in Seq(Records) :
        AtEntry(f, fresh, entries, i, e, rest)
  <2>1. Reading
    BY DEF loadKey
  <2> QED
    BY <2>1, LoadUnderWay
<1>2. PICK r : r = Refilled(Base(e), e.obj)
  OBVIOUS
<1>3. /\ Live(e) /\ r # Unsupported /\ InsertDeadline(e)
      /\ db' = [db EXCEPT ![e.key] = r]
      /\ task' = [kind |-> "load", file |-> f, rest |-> rest, fresh |-> fresh]
      /\ UNCHANGED << now, up, reply, disk, torn, saved >>
  BY <1>1, <1>2 DEF loadKey, Takes, InsertDeadline, AtEntry
<1>4. r \in Objects /\ Fine(r)
  BY <1>2, <1>3, RefilledTyped DEF Inv
<1>5. e.key \in Keys /\ e.etime \in Int \cup {None} /\ Storable(e.obj)
  BY RecordsTyped
<1>6. TypeOK /\ Worded
  BY DEF Inv, Tables
<1>7. /\ expire' \in [Keys -> Int \cup {None}]
      /\ \A k \in Keys \ {e.key} : expire'[k] = expire[k]
      /\ expire'[e.key] = IF Live(e) /\ e.etime # None /\ expire[e.key] = None
                          THEN e.etime ELSE expire[e.key]
  BY <1>3, <1>5, <1>6, DeadlineInserted
<1>8. TypeOK' /\ Worded'
  BY <1>3, <1>4, <1>6, <1>7 DEF TypeOK, Worded
<1>9. ASSUME fresh
      PROVE  \A k \in Keys : Restored(k, entries, i + 1)'
  <2>1. e = entries[i + 1] /\ \A k \in Keys : Restored(k, entries, i)
    BY <1>1, <1>9 DEF AtEntry, NextEntry
  <2>2. db[e.key] = Absent /\ expire[e.key] = None
    BY <1>1, <2>1, NothingYet DEF AtEntry
  <2>3. Base(e) = Blank[e.obj.type]
    BY <2>2 DEF Base
  <2>4. r = Again(e.obj)
    BY <1>2, <1>5, <2>3, RefilledBlank
  <2>5. db'[e.key] = Again(e.obj) /\ expire'[e.key] = e.etime
    BY <1>3, <1>5, <1>6, <1>7, <2>2, <2>4 DEF TypeOK
  <2>6. \A k \in Keys \ {e.key} : db'[k] = db[k] /\ expire'[k] = expire[k]
    BY <1>3, <1>6, <1>7 DEF TypeOK
  <2> QED
    BY <1>1, <1>3, <2>1, <2>5, <2>6, RestoredMore DEF AtEntry
<1> QED
  BY <1>1, <1>3, <1>8, <1>9, EntryRead DEF AtEntry

LEMMA PassesExpired ==
    ASSUME Inv, loadExpired
    PROVE  Inv'
<1>1. PICK f \in Files, fresh \in BOOLEAN, entries \in Seq(Records), i \in Nat,
           e \in Records, rest \in Seq(Records) :
        AtEntry(f, fresh, entries, i, e, rest)
  <2>1. Reading
    BY DEF loadExpired
  <2> QED
    BY <2>1, LoadUnderWay
<1>2. /\ ~Live(e)
      /\ db' = IF e.obj.type = "string" THEN db ELSE [db EXCEPT ![e.key] = Absent]
      /\ task' = [kind |-> "load", file |-> f, rest |-> rest, fresh |-> fresh]
      /\ UNCHANGED << expire, now, up, reply, disk, torn, saved >>
  BY <1>1 DEF loadExpired, Skips, AtEntry
<1>3. e.key \in Keys /\ e.etime \in Int \cup {None}
  BY RecordsTyped
<1>4. TypeOK /\ Worded
  BY DEF Inv, Tables
<1>5. TypeOK' /\ Worded'
  BY <1>2, <1>4, FineConstants DEF TypeOK, Worded
<1>6. ASSUME fresh
      PROVE  \A k \in Keys : Restored(k, entries, i + 1)'
  <2>1. e = entries[i + 1] /\ \A k \in Keys : Restored(k, entries, i)
    BY <1>1, <1>6 DEF AtEntry, NextEntry
  <2>2. db[e.key] = Absent /\ expire[e.key] = None
    BY <1>1, <2>1, NothingYet DEF AtEntry
  <2>3. e.etime # None /\ now >= e.etime
    BY <1>2, <1>3, <1>4 DEF Live, TypeOK
  <2>4. db'[e.key] = Absent /\ expire'[e.key] = None
    BY <1>2, <1>3, <1>4, <2>2 DEF TypeOK
  <2>5. \A k \in Keys \ {e.key} : db'[k] = db[k] /\ expire'[k] = expire[k]
    BY <1>2, <1>4 DEF TypeOK
  <2> QED
    BY <1>1, <1>2, <2>1, <2>3, <2>4, <2>5, RestoredMore DEF AtEntry
<1> QED
  BY <1>1, <1>2, <1>5, <1>6, EntryRead DEF AtEntry

LEMMA TaskEnds ==
    ASSUME Inv, TypeOK', Worded', task' = Idle, UNCHANGED << now, disk, saved >>
    PROVE  Inv'
<1>1. now' \in Nat /\ now' >= now
  BY TimeTyped DEF Inv, Tables
<1>2. Snapshots' /\ Tables'
  BY <1>1, SnapshotsStand DEF Inv, Tables
<1> QED
  BY <1>2, IdleTask DEF Inv

LEMMA LoadFails ==
    ASSUME Inv, loadFails
    PROVE  Inv'
<1>1. PICK e \in Records : Next1 = e
  BY LoadUnderWay DEF loadFails, AtEntry
<1>2. /\ \/ db' = db
         \/ /\ e.surplus
            /\ db' = [db EXCEPT ![e.key] =
                        IF Live(e) THEN Base(e)
                        ELSE IF @ = Absent THEN NullPtr ELSE @]
      /\ InsertDeadline(e) /\ task' = Idle /\ reply' = Error
      /\ UNCHANGED << now, up, disk, torn, saved >>
  BY <1>1 DEF loadFails, Refuses, InsertDeadline, Derails
<1>3. TypeOK /\ Worded /\ e.key \in Keys /\ e.etime \in Int \cup {None}
  BY RecordsTyped DEF Inv, Tables
<1>4. e.surplus => Base(e) \in Objects /\ Fine(Base(e))
  <2>1. e.surplus => Blank[e.obj.type] = CreateOSetObject
    BY RecordsTyped, CreationTypes, Blanks
  <2>2. CreateOSetObject \in Objects /\ Fine(CreateOSetObject)
    BY Blanks, FineConstants DEF Creations
  <2> QED
    BY <2>1, <2>2, BaseTyped DEF Inv
<1>5. expire' \in [Keys -> Int \cup {None}]
  BY <1>2, <1>3, DeadlineInserted
<1>6. TypeOK'
  BY <1>2, <1>3, <1>4, <1>5, ReplyTyped DEF TypeOK
<1>7. Worded'
  <2>1. CASE db' = db
    BY <1>3, <2>1 DEF Worded
  <2>2. CASE e.surplus /\ db' = [db EXCEPT ![e.key] =
                        IF Live(e) THEN Base(e)
                        ELSE IF @ = Absent THEN NullPtr ELSE @]
    <3>1. \A k \in Keys : db'[k] \in {db[k], Base(e), NullPtr}
      BY <1>3, <2>2 DEF TypeOK
    <3> QED
      BY <1>3, <1>4, <2>2, <3>1, FineConstants DEF Worded
  <2> QED
    BY <1>2, <2>1, <2>2
<1> QED
  BY <1>2, <1>6, <1>7, TaskEnds

(* What is left of a last entry. *)
LEMMA TornFrom ==
    ASSUME NEW x \in Torns, x \notin {Whole, Untyped, Nameless}
    PROVE  \E k \in Keys, t \in Int \cup {None}, o \in LeftObjects : x = Left(k, t, o)
BY DEF Torns

LEMMA TornTyped ==
    ASSUME Edges, NEW f \in Files, torn[f].part = "entry"
    PROVE  /\ torn[f].entry.key \in Keys
           /\ torn[f].entry.etime \in Int \cup {None}
           /\ torn[f].entry.surplus = FALSE
           /\ torn[f].entry.obj = CreateStrObject
                \/ (torn[f].entry.obj # CreateStrObject /\ torn[f].entry \in Records)
           /\ torn[f] # Whole
<1>1. torn[f] \in Torns /\ torn[f] \notin {Whole, Untyped, Nameless}
  BY DEF Edges, Whole, Untyped, Nameless
<1>2. PICK k \in Keys, t \in Int \cup {None}, o \in LeftObjects :
        torn[f] = Left(k, t, o)
  BY <1>1, TornFrom
<1>3. torn[f].entry = [key |-> k, etime |-> t, obj |-> o, surplus |-> FALSE]
  BY <1>2 DEF Left
<1>4. PICK e : e = torn[f].entry
  OBVIOUS
<1>5. e.key = k /\ e.etime = t /\ e.obj = o /\ e.surplus = FALSE
  BY <1>3, <1>4
<1>6. o # CreateStrObject => e \in Entries
  BY <1>3, <1>4 DEF Entries, LeftObjects
<1>7. o # CreateStrObject => e \in Records
  BY <1>5, <1>6 DEF Records, Storable, LeftObjects
<1> QED
  BY <1>1, <1>4, <1>5, <1>7

(* The tables that an entry read leaves. *)
LEMMA ReadTyped ==
    ASSUME Inv, NEW e, e.key \in Keys, e.etime \in Int \cup {None},
           \/ InsertDeadline(e) /\ db' = db
           \/ e \in Records /\ (Takes(e) \/ Skips(e) \/ Refuses(e)),
           UNCHANGED << now, up >>, reply' \in Replies
    PROVE  TypeOK' /\ Worded'
<1>1. TypeOK /\ Worded
  BY DEF Inv, Tables
<1>2. expire' \in [Keys -> Int \cup {None}]
  <2>1. InsertDeadline(e) \/ expire' = expire
    BY DEF Takes, Skips, Refuses
  <2> QED
    BY <1>1, <2>1, DeadlineInserted DEF TypeOK
<1>3. \/ db' = db
      \/ /\ db' = [db EXCEPT ![e.key] = Refilled(Base(e), e.obj)]
         /\ Refilled(Base(e), e.obj) \in Objects /\ Fine(Refilled(Base(e), e.obj))
      \/ db' = [db EXCEPT ![e.key] = Absent]
  BY RefilledTyped DEF Takes, Skips, Refuses, Inv
<1>4. TypeOK'
  BY <1>1, <1>2, <1>3 DEF TypeOK
<1>5. Worded'
  BY <1>1, <1>3, FineConstants DEF Worded, TypeOK
<1> QED
  BY <1>4, <1>5

LEMMA LoadsTorn ==
    ASSUME Inv, Edges, loadTorn
    PROVE  Inv'
<1>1. /\ task' = Idle /\ UNCHANGED << now, up, disk, torn, saved >>
      /\ Loading
  BY DEF loadTorn
<1>2. reply' \in {Ok, Error} /\ reply' \in Replies
  BY ReplyTyped DEF loadTorn
<1>3. task.file \in Files /\ TypeOK /\ Worded
  BY <1>1, Kinds DEF Inv, Tables, Loads
<1>4. CASE UNCHANGED << db, expire >>
  BY <1>1, <1>2, <1>3, <1>4, TaskEnds DEF TypeOK, Worded
<1>5. CASE torn[task.file].part = "entry"
  <2>1. PICK e : e = torn[task.file].entry
    OBVIOUS
  <2>2. /\ e.key \in Keys /\ e.etime \in Int \cup {None}
        /\ e.obj = CreateStrObject \/ (e.obj # CreateStrObject /\ e \in Records)
    BY <1>3, <1>5, <2>1, TornTyped
  <2>3. torn[task.file] \notin {Untyped, Nameless}
    BY <1>5 DEF Untyped, Nameless
  <2>4. IF e.obj = CreateStrObject
        THEN InsertDeadline(e) /\ db' = db
        ELSE Takes(e) \/ Skips(e) \/ Refuses(e)
    BY <2>1, <2>3 DEF loadTorn, InsertDeadline, Takes, Skips, Refuses
  <2> QED
    BY <1>1, <1>2, <2>2, <2>4, ReadTyped, TaskEnds
<1> QED
  BY <1>4, <1>5 DEF loadTorn

LEMMA LoadEnds ==
    ASSUME Inv, loadEnd
    PROVE  Inv'
<1>1. TypeOK' /\ Worded'
  BY ReplyTyped DEF loadEnd, Inv, Tables, TypeOK, Worded
<1> QED
  BY <1>1, TaskEnds DEF loadEnd
-----------------------------------------------------------------------------
LEMMA InvInit ==
    ASSUME FileInit
    PROVE  Inv
<1>1. TypeOK /\ Worded
  BY ReplyTyped, FineConstants DEF FileInit, Init, TypeOK, Worded
<1>2. /\ disk = [f \in Files |-> NoFile] /\ task = Idle
      /\ saved = [f \in Files |-> Never]
  BY DEF FileInit
<1>3. NoFile \notin Written /\ \A es : NoFile # Snapshot(es)
  BY SnapshotRecords
<1>4. Tables
  BY <1>1, <1>2, <1>3 DEF Tables
<1>5. task \notin Saves \cup Loads
  BY <1>2, <1>4, Kinds
<1> QED
  BY <1>2, <1>3, <1>4, <1>5 DEF Inv, Snapshots, HalfSaved, HalfLoaded

LEMMA InvStutters ==
    ASSUME Inv, UNCHANGED allVars
    PROVE  Inv'
<1>1. UNCHANGED << db, expire, now, up, reply, disk, torn, task, saved >>
  BY DEF allVars, vars, fileVars
<1>2. Tables'
  BY <1>1 DEF Inv, Tables, TypeOK, Worded
<1>3. Snapshots'
  BY <1>1, SnapshotsStand, TimeTyped DEF Inv, Tables
<1>4. HalfSaved'
  BY <1>1 DEF Inv, HalfSaved, Remains, Holds, Gone, Expired, find
<1>5. HalfLoaded'
  <2>1. \A k \in Keys, entries \in Seq(Records), i \in Nat :
           Restored(k, entries, i) => Restored(k, entries, i)'
    BY <1>1 DEF Restored, Again
  <2> SUFFICES ASSUME task \in Loads
               PROVE  HalfLoaded'
    BY <1>1 DEF HalfLoaded
  <2>2. PICK entries \in Seq(Records), i \in Nat :
          /\ i \in 0 .. Len(entries)
          /\ disk[task.file] = Snapshot(entries)
          /\ Len(task.rest) = Len(entries) - i
          /\ \A j \in 1 .. Len(entries) - i : task.rest[j] = entries[i + j]
          /\ task.fresh => \A k \in Keys : Restored(k, entries, i)
    BY DEF Inv, HalfLoaded
  <2> QED
    BY <1>1, <2>1, <2>2 DEF HalfLoaded
<1> QED
  BY <1>2, <1>3, <1>4, <1>5 DEF Inv

LEMMA InvInductive ==
    ASSUME Inv, Edges, [FileNext]_allVars
    PROVE  Inv'
<1>1. CASE Work
  BY <1>1, CollectsExpired, SavesKey, SaveDies, SaveEnds, LoadsKey, PassesExpired,
     LoadFails, LoadsTorn, LoadEnds DEF Work
<1> QED
  BY <1>1, BetweenKeeps, SaveBegins, LoadBegins, Waited, Killed, InvStutters
     DEF FileNext
-----------------------------------------------------------------------------
(* A cut file is cut in one entry, of a key that has no other.  Only a save  *)
(* that the end of the process cuts short cuts a file, and no save that is   *)
(* under way writes behind a cut.                                            *)
LEMMA PartsTyped ==
    ASSUME NEW k \in Keys, NEW t \in Int \cup {None}, NEW o,
           o.type \in AnyType => o \in Objects /\ Fine(o)
    PROVE  Parts(k, t, o) \subseteq Torns
<1> SUFFICES ASSUME NEW part \in Parts(k, t, o), part \notin {Untyped, Nameless}
             PROVE  part \in Torns
  BY DEF Torns
<1>1. /\ o \in Objects /\ Fine(o)
      /\ \/ \E j \in {k} \cup NameCuts[k] : part = Left(j, t, Blank[o.type])
         \/ \E p \in ObjectCuts(o) : part = Left(k, t, p)
  BY DEF Parts
<1>2. NameCuts[k] \subseteq Keys
  BY CutsAssumption
<1>3. Blank[o.type] \in LeftObjects
  BY <1>1, BlankRemnant DEF Storable, LeftObjects
<1>4. ObjectCuts(o) \subseteq LeftObjects
  BY <1>1, ObjectCutsTyped DEF Storable, LeftObjects
<1>5. PICK j \in Keys, p \in LeftObjects :
        part = Left(j, t, p)
  BY <1>1, <1>2, <1>3, <1>4
<1> QED
  BY <1>5 DEF Torns

LEMMA EdgesStand ==
    ASSUME Edges, UNCHANGED << disk, torn, saved >>,
           task' \in Saves /\ task'.opened =>
             task \in Saves /\ task.opened /\ task'.file = task.file
    PROVE  Edges'
<1>1. \A f \in Files : Piece(f)' <=> Piece(f)
  BY DEF Piece
<1> QED
  BY <1>1 DEF Edges

LEMMA EdgesElsewhere ==
    ASSUME Edges, NEW f \in Files, NEW part \in Torns,
           torn' = [torn EXCEPT ![f] = part],
           \A g \in Files \ {f} : disk'[g] = disk[g] /\ saved'[g] = saved[g],
           part # Whole => Piece(f)',
           task' \in Saves /\ task'.opened => task'.file = f /\ part = Whole
    PROVE  Edges'
<1>1. torn' \in [Files -> Torns] /\ torn'[f] = part
  BY DEF Edges
<1>2. ASSUME NEW g \in Files, g # f, torn'[g] # Whole
      PROVE  Piece(g)'
  <2>1. torn'[g] = torn[g] /\ disk'[g] = disk[g] /\ saved'[g] = saved[g]
    BY <1>2 DEF Edges
  <2>2. Piece(g)
    BY <1>2, <2>1 DEF Edges
  <2> QED
    BY <2>1, <2>2 DEF Piece
<1> QED
  BY <1>1, <1>2 DEF Edges

LEMMA PieceHeld ==
    ASSUME NEW f \in Files, NEW entries \in Seq(Records), NEW was \in Moments,
           disk'[f] = Snapshot(entries), saved'[f] = was, ~was.done,
           NEW k \in Keys, ~Holds(entries, k),
           torn'[f] \in Parts(k, was.ends[k], was.objs[k])
    PROVE  Piece(f)'
<1>1. disk'[f] \in Written
  BY SnapshotRecords
<1>2. \A es \in Seq(Records) : disk'[f] = Snapshot(es) => es = entries
  BY SnapshotRecords
<1> QED
  BY <1>1, <1>2 DEF Piece, Holds

(* The first n entries and a part of the next, or of the key at hand. *)
LEMMA CutShort ==
    ASSUME NEW f \in Files, NEW entries \in Seq(Records), NEW was \in Moments,
           Matches(entries, was), ~was.done, saved'[f] = was,
           NEW n \in 0 .. Len(entries), NEW s \in Seq(Records),
           s = SubSeq(entries, 1, n), disk'[f] = Snapshot(s),
           NEW k \in Keys, NEW t, NEW o, torn'[f] \in Parts(k, t, o),
           \/ /\ n < Len(entries) /\ k = entries[n + 1].key
              /\ t = entries[n + 1].etime /\ o = entries[n + 1].obj
           \/ /\ n = Len(entries) /\ ~Holds(entries, k) /\ t = was.ends[k]
              /\ Parts(k, t, o) = Parts(k, t, was.objs[k])
    PROVE  Piece(f)'
<1>1. /\ DOMAIN s = 1 .. n
      /\ \A i \in 1 .. n : i \in DOMAIN entries /\ s[i] = entries[i]
      /\ n < Len(entries) => n + 1 \in DOMAIN entries /\ n + 1 \notin 1 .. n
  BY Prefix
<1>2. CASE /\ n < Len(entries) /\ k = entries[n + 1].key
           /\ t = entries[n + 1].etime /\ o = entries[n + 1].obj
  <2>1. n + 1 \in DOMAIN entries /\ n + 1 \notin 1 .. n
    BY <1>1, <1>2
  <2>2. t = was.ends[k] /\ o = was.objs[k]
    BY <1>2, <2>1 DEF Matches
  <2>3. ~Holds(s, k)
    BY <1>1, <1>2, <2>1 DEF Holds, Matches
  <2> QED
    BY <2>2, <2>3, PieceHeld
<1>3. CASE /\ n = Len(entries) /\ ~Holds(entries, k) /\ t = was.ends[k]
           /\ Parts(k, t, o) = Parts(k, t, was.objs[k])
  <2>1. ~Holds(s, k)
    BY <1>1, <1>3 DEF Holds
  <2> QED
    BY <1>3, <2>1, PieceHeld
<1> QED
  BY <1>2, <1>3

(* The keys at which the process can end are being saved. *)
LEMMA EdgesLost ==
    ASSUME Inv, Edges, NEW dying \in SUBSET Keys, LoseUnflushed(dying), saved' = saved,
           \A k \in dying : Saving /\ k \in task.left /\ ~Expired(k)
    PROVE  Edges'
<1>1. task' = Idle /\ task' \notin Saves
  BY DEF LoseUnflushed, Idle, Saves
<1>2. CASE UNCHANGED << disk, torn >>
  BY <1>1, <1>2, EdgesStand
<1>3. CASE Saving /\ task.opened
  <2>1. PICK f \in Files, entries \in Seq(Records), was \in Moments :
          /\ task.file = f /\ disk[f] = Snapshot(entries) /\ saved[f] = was
          /\ ~was.done /\ Matches(entries, was)
          /\ \A k \in task.left : Remains(k, was) /\ ~Holds(entries, k)
    BY <1>3, SaveUnderWay
  <2>2. torn[f] = Whole /\ torn \in [Files -> Torns] /\ Whole \in Torns
    BY <1>3, <2>1, Kinds DEF Edges, Inv, Torns
  <2>3. TypeOK /\ Worded /\ disk[f].entries = entries
    BY <2>1, SnapshotRecords DEF Inv, Tables
  <2>4. CASE disk' = [disk EXCEPT ![f] = Headless] /\ UNCHANGED torn
    <3>1. torn' = [torn EXCEPT ![f] = Whole]
      BY <2>2, <2>4
    <3>2. \A g \in Files \ {f} : disk'[g] = disk[g]
      BY <2>4 DEF Inv, Tables
    <3> QED
      BY <1>1, <2>2, <3>1, <3>2, EdgesElsewhere
  <2>5. ASSUME NEW n \in 0 .. Len(entries),
               disk' = [disk EXCEPT ![f].entries = SubSeq(@, 1, n)],
               NEW part, torn' = [torn EXCEPT ![f] = part],
               part # Whole =>
                 \E k \in Keys, t \in Int \cup {None}, o \in Objects \cup {Absent, NullPtr} :
                    /\ Fine(o)
                    /\ part \in Parts(k, t, o)
                    /\ \/ /\ n < Len(entries) /\ k = entries[n + 1].key
                          /\ t = entries[n + 1].etime /\ o = entries[n + 1].obj
                       \/ /\ n = Len(entries) /\ ~Holds(entries, k) /\ t = was.ends[k]
                          /\ Parts(k, t, o) = Parts(k, t, was.objs[k])
        PROVE  Edges'
    <3>1. disk' = [disk EXCEPT ![f] = [disk[f] EXCEPT !.entries = SubSeq(@, 1, n)]]
      BY <2>5
    <3>2. PICK s \in Seq(Records) : s = SubSeq(entries, 1, n)
      BY Prefix
    <3>3. /\ disk'[f] = Snapshot(s)
          /\ \A g \in Files \ {f} : disk'[g] = disk[g]
      <4>1. [Snapshot(entries) EXCEPT !.entries = s] = Snapshot(s)
        BY DEF Snapshot
      <4>2. disk' = [disk EXCEPT ![f] = [disk[f] EXCEPT !.entries = s]]
        BY <2>3, <3>1, <3>2
      <4> QED
        BY <2>1, <4>1, <4>2 DEF Inv, Tables
    <3>4. CASE part = Whole
      BY <1>1, <2>2, <2>5, <3>3, <3>4, EdgesElsewhere
    <3>5. CASE part # Whole
      <4>1. PICK k \in Keys, t \in Int \cup {None}, o \in Objects \cup {Absent, NullPtr} :
              /\ Fine(o)
              /\ part \in Parts(k, t, o)
              /\ \/ /\ n < Len(entries) /\ k = entries[n + 1].key
                    /\ t = entries[n + 1].etime /\ o = entries[n + 1].obj
                 \/ /\ n = Len(entries) /\ ~Holds(entries, k) /\ t = was.ends[k]
                    /\ Parts(k, t, o) = Parts(k, t, was.objs[k])
        BY <2>5, <3>5
      <4>2. o.type \in AnyType => o \in Objects
        BY DEF AnyType, Absent, NullPtr
      <4>3. part \in Torns
        BY <4>1, <4>2, PartsTyped
      <4>4. torn'[f] = part /\ saved'[f] = was
        BY <2>1, <2>2, <2>5
      <4>5. Piece(f)'
        BY <2>1, <3>2, <3>3, <4>1, <4>4, CutShort
      <4> QED
        BY <1>1, <2>5, <3>3, <4>3, <4>5, EdgesElsewhere
    <3> QED
      BY <3>4, <3>5
  <2>6. ASSUME NEW n \in 0 .. Len(entries), n < Len(entries)
        PROVE  LET e == entries[n + 1] IN
               e.key \in Keys /\ e.etime \in Int \cup {None}
                 /\ e.obj \in Objects /\ Fine(e.obj)
    <3>1. entries[n + 1] \in Records
      BY <2>6, ElementOfSeq
    <3> QED
      BY <3>1, RecordsTyped DEF Storable
  <2>7. ASSUME NEW k \in dying
        PROVE  /\ k \in Keys /\ expire[k] \in Int \cup {None} /\ ~Holds(entries, k)
               /\ db[k] \in Objects \cup {Absent, NullPtr} /\ Fine(db[k])
               /\ expire[k] = was.ends[k]
               /\ Parts(k, expire[k], db[k]) = Parts(k, expire[k], was.objs[k])
    <3>1. Remains(k, was) /\ ~Holds(entries, k) /\ ~Expired(k)
      BY <2>1, <2>7
    <3>2. find(k) = was.objs[k] /\ expire[k] = was.ends[k]
      BY <3>1 DEF Remains
    <3>3. db[k] = NullPtr => was.objs[k] = Absent
      BY <3>2 DEF find
    <3>4. db[k] # NullPtr => was.objs[k] = db[k]
      BY <3>1, <3>2 DEF find
    <3>5. NullPtr.type \notin AnyType /\ Absent.type \notin AnyType
      BY DEF NullPtr, Absent, AnyType
    <3>6. Parts(k, expire[k], NullPtr) = Parts(k, expire[k], Absent)
      BY <3>5 DEF Parts
    <3>7. Parts(k, expire[k], db[k]) = Parts(k, expire[k], was.objs[k])
      BY <3>3, <3>4, <3>6
    <3> QED
      BY <2>3, <3>1, <3>2, <3>7 DEF TypeOK, Worded
  <2> QED
    BY <1>3, <2>1, <2>3, <2>4, <2>5, <2>6, <2>7 DEF LoseUnflushed
<1> QED
  BY <1>2, <1>3 DEF LoseUnflushed

LEMMA EdgesInductive ==
    ASSUME Inv, Edges, [FileNext]_allVars
    PROVE  Edges'
<1>1. ASSUME NEW n \in SaveNames, doSave(n)
      PROVE  Edges'
  <2>1. PICK f \in Files : f = FileOf[n]
    BY FileOfAssumption
  <2>2. PICK opened \in BOOLEAN :
          /\ task' = [kind |-> "save", file |-> f, opened |-> opened,
                      left |-> {k \in Keys : db[k] # Absent}]
          /\ disk' = IF opened THEN [disk EXCEPT ![f] = Snapshot(<< >>)] ELSE disk
          /\ torn' = IF opened THEN [torn EXCEPT ![f] = Whole] ELSE torn
          /\ saved' = IF opened
                      THEN [saved EXCEPT ![f] =
                              [objs |-> seen, ends |-> pending, done |-> FALSE]]
                      ELSE saved
    BY <1>1, <2>1 DEF doSave
  <2>3. task'.file = f /\ task'.opened = opened
    BY <2>2
  <2>4. CASE opened
    <3>1. /\ torn' = [torn EXCEPT ![f] = Whole] /\ Whole \in Torns
          /\ \A g \in Files \ {f} : disk'[g] = disk[g] /\ saved'[g] = saved[g]
      BY <2>2, <2>4 DEF Inv, Tables, Torns
    <3> QED
      BY <2>3, <3>1, EdgesElsewhere
  <2>5. CASE ~opened
    BY <2>2, <2>3, <2>5, EdgesStand
  <2> QED
    BY <2>4, <2>5
<1>2. ASSUME Saving
      PROVE  /\ task \in Saves /\ task.file \in Files /\ Whole \in Torns
             /\ task.opened => torn = [torn EXCEPT ![task.file] = Whole]
  BY <1>2, Kinds DEF Inv, Edges, Saves, Torns
<1>3. ASSUME NEW k \in Keys, saveKey(k)
      PROVE  Edges'
  <2>1. /\ Saving /\ task' = [task EXCEPT !.left = @ \ {k}]
        /\ torn' = torn /\ saved' = saved
    BY <1>3 DEF saveKey
  <2>2. task'.file = task.file /\ task'.opened = task.opened
    BY <1>2, <2>1 DEF Saves
  <2>3. CASE task.opened
    <3>1. \A g \in Files \ {task.file} : disk'[g] = disk[g]
      BY <1>3, <2>3 DEF saveKey, Inv, Tables
    <3> QED
      BY <1>2, <2>1, <2>2, <2>3, <3>1, EdgesElsewhere
  <2>4. CASE ~task.opened
    BY <1>3, <2>1, <2>2, <2>4, EdgesStand DEF saveKey
  <2> QED
    BY <2>3, <2>4
<1>4. CASE saveEnd
  <2>1. Saving /\ task' \notin Saves /\ torn' = torn /\ disk' = disk
    BY <1>4 DEF saveEnd, Idle, Saves
  <2>2. CASE task.opened
    <3>1. \A g \in Files \ {task.file} : saved'[g] = saved[g]
      BY <1>4, <2>2 DEF saveEnd, Inv, Tables
    <3> QED
      BY <1>2, <2>1, <2>2, <3>1, EdgesElsewhere
  <2>3. CASE ~task.opened
    BY <1>4, <2>1, <2>3, EdgesStand DEF saveEnd
  <2> QED
    BY <2>2, <2>3
<1>5. ASSUME NEW k \in Keys, saveExpired(k)
      PROVE  Edges'
  <2>1. /\ Saving /\ task' = [task EXCEPT !.left = @ \ {k}]
        /\ UNCHANGED << disk, torn, saved >>
    BY <1>5 DEF saveExpired, Collect
  <2>2. task'.file = task.file /\ task'.opened = task.opened
    BY <1>2, <2>1 DEF Saves
  <2> QED
    BY <1>2, <2>1, <2>2, EdgesStand
<1>6. ASSUME NEW k \in Keys, saveDies(k)
      PROVE  Edges'
  BY <1>6, EdgesLost DEF saveDies
<1>7. CASE Kill
  BY <1>7, EdgesLost DEF Kill
<1>8. CASE loadKey \/ loadExpired
  <2>1. /\ Loading /\ task' = [task EXCEPT !.rest = Tail(@)]
        /\ UNCHANGED << disk, torn, saved >>
    BY <1>8 DEF loadKey, loadExpired, Reading
  <2>2. task \in Loads
    BY <2>1, Kinds DEF Inv
  <2>3. task' \notin Saves
    BY <2>1, <2>2 DEF Loads, Saves
  <2> QED
    BY <2>1, <2>3, EdgesStand
<1>9. ASSUME task' = Idle, UNCHANGED << disk, torn, saved >>
      PROVE  Edges'
  BY <1>9, EdgesStand DEF Idle, Saves
<1>10. ASSUME NEW f \in Files, doLoad(f)
       PROVE  Edges'
  <2>1. task' \notin Saves
    BY <1>10 DEF doLoad, Idle, Saves
  <2> QED
    BY <1>10, <2>1, EdgesStand DEF doLoad
<1>11. CASE Between \/ Wait \/ UNCHANGED allVars
  <2>1. UNCHANGED << disk, torn, task, saved >>
    BY <1>11 DEF Between, Wait, fileVars, allVars
  <2> QED
    BY <2>1, EdgesStand
<1>12. CASE loadFails \/ loadTorn \/ loadEnd
  BY <1>9, <1>12 DEF loadFails, loadTorn, loadEnd
<1> QED
  BY <1>1, <1>3, <1>4, <1>5, <1>6, <1>7, <1>8, <1>10, <1>11, <1>12 DEF FileNext, Work

LEMMA EdgesInit ==
    ASSUME FileInit
    PROVE  Edges
BY DEF FileInit, Edges, Torns, Idle, Saves

THEOREM InvHolds == FileSpec => [](Inv /\ Edges)
BY InvInit, EdgesInit, InvInductive, EdgesInductive, PTL DEF FileSpec
-----------------------------------------------------------------------------
LEMMA RecordsAreEntries == Seq(Records) \subseteq Seq(Entries)
<1> SUFFICES ASSUME NEW s \in Seq(Records)
             PROVE  s \in Seq(Entries)
  OBVIOUS
<1>1. Len(s) \in Nat /\ s \in [1 .. Len(s) -> Records]
  OBVIOUS
<1>2. s \in [1 .. Len(s) -> Entries]
  BY <1>1 DEF Records
<1> QED
  BY <1>1, <1>2, SeqDef

LEMMA TornEntries ==
    ASSUME NEW x \in Torns, x \notin {Whole, Untyped, Nameless}
    PROVE  x.part = "entry" /\ x.entry \in LeftEntries
<1>1. PICK k \in Keys, t \in Int \cup {None}, o \in LeftObjects : x = Left(k, t, o)
  BY TornFrom
<1>2. o \in Objects \cup {CreateStrObject}
  BY DEF LeftObjects
<1>3. PICK e : e = [key |-> k, etime |-> t, obj |-> o, surplus |-> FALSE]
  OBVIOUS
<1>4. e \in LeftEntries
  BY <1>2, <1>3 DEF LeftEntries
<1>5. x = [part |-> "entry", entry |-> e]
  BY <1>1, <1>3 DEF Left
<1> QED
  BY <1>4, <1>5

(* However a save is cut short and whatever the clock does, a file is a part *)
(* of what clients saw when its save began, cut in one entry at most, and    *)
(* all of it once it is done, but for what has expired (Db::save).           *)
THEOREM FilesAreSnapshots == FileSpec => []FileInv
<1> SUFFICES ASSUME Inv, Edges PROVE FileInv
  BY InvHolds, PTL
<1>1. TypeOK /\ Tables /\ Snapshots
  BY DEF Inv, Tables
<1>2. ASSUME NEW f \in Files, disk[f].kind = "sdb"
      PROVE  \E entries \in Seq(Records), was \in Moments :
                /\ disk[f] = Snapshot(entries) /\ disk[f].entries = entries
                /\ saved[f] = was
                /\ Matches(entries, was)
                /\ was.done => \A k \in Keys : Holds(entries, k) \/ Gone(was, k)
  <2>1. disk[f] \in Written /\ saved[f] \in Moments
    BY <1>1, <1>2, Kinds DEF Tables
  <2>2. PICK entries \in Seq(Records) :
          disk[f] = Snapshot(entries) /\ disk[f].entries = entries
    BY <2>1, SnapshotRecords
  <2> QED
    BY <1>1, <2>1, <2>2 DEF Snapshots
<1>3. FileMatches
  <2> SUFFICES ASSUME NEW f \in Files, disk[f].kind = "sdb"
               PROVE  LET entries == disk[f].entries
                          there(k) == \E i \in DOMAIN entries : entries[i].key = k
                      IN
                      /\ \A i, j \in DOMAIN entries :
                           entries[i].key = entries[j].key => i = j
                      /\ \A i \in DOMAIN entries :
                           /\ entries[i].obj = saved[f].objs[entries[i].key]
                           /\ entries[i].etime = saved[f].ends[entries[i].key]
                      /\ saved[f].done =>
                           \A k \in Keys : \/ there(k)
                                           \/ saved[f].objs[k] = Absent
                                           \/ /\ saved[f].ends[k] # None
                                              /\ now > saved[f].ends[k]
                      /\ torn[f] # Whole =>
                           /\ ~saved[f].done
                           /\ \E k \in Keys :
                                /\ ~there(k)
                                /\ torn[f] \in Parts(k, saved[f].ends[k],
                                                     saved[f].objs[k])
    BY DEF FileMatches
  <2>1. PICK entries \in Seq(Records), was \in Moments :
          /\ disk[f] = Snapshot(entries)
          /\ disk[f].entries = entries /\ saved[f] = was
          /\ Matches(entries, was)
          /\ was.done => \A k \in Keys : Holds(entries, k) \/ Gone(was, k)
    BY <1>2
  <2>2. /\ \A i, j \in DOMAIN entries : entries[i].key = entries[j].key => i = j
        /\ \A i \in DOMAIN entries :
             /\ entries[i].obj = was.objs[entries[i].key]
             /\ entries[i].etime = was.ends[entries[i].key]
    BY <2>1 DEF Matches
  <2>3. was.done =>
          \A k \in Keys : \/ \E i \in DOMAIN entries : entries[i].key = k
                          \/ was.objs[k] = Absent
                          \/ was.ends[k] # None /\ now > was.ends[k]
    BY <2>1 DEF Holds, Gone
  <2>4. torn[f] # Whole =>
          /\ ~was.done
          /\ \E k \in Keys : /\ ~\E i \in DOMAIN entries : entries[i].key = k
                            /\ torn[f] \in Parts(k, was.ends[k], was.objs[k])
    BY <2>1 DEF Edges, Piece, Holds
  <2> QED
    BY <2>1, <2>2, <2>3, <2>4
<1>4. FileTypeOK
  <2>1. \A f \in Files :
          /\ \/ disk[f] \in {NoFile, Headless} /\ torn[f] = Whole
             \/ disk[f].kind = "sdb" /\ disk[f].entries \in Seq(Entries)
          /\ \/ torn[f] \in {Whole, Untyped, Nameless}
             \/ torn[f].part = "entry" /\ torn[f].entry \in LeftEntries
    <3>1. ASSUME NEW f \in Files
          PROVE  \/ disk[f] \in {NoFile, Headless} /\ torn[f] = Whole
                 \/ disk[f].kind = "sdb" /\ disk[f].entries \in Seq(Entries)
      BY <1>1, SnapshotRecords, RecordsAreEntries DEF Tables, Edges, Piece
    <3>2. ASSUME NEW f \in Files, torn[f] \notin {Whole, Untyped, Nameless}
          PROVE  torn[f].part = "entry" /\ torn[f].entry \in LeftEntries
      BY <3>2, TornEntries DEF Edges
    <3> QED
      BY <3>1, <3>2
  <2>2. CASE task \in Saves
    <3>1. task.opened => disk[task.file].kind = "sdb"
      BY <2>2, SnapshotRecords DEF Inv, HalfSaved
    <3>2. task.opened => torn[task.file] = Whole
      BY <2>2 DEF Edges
    <3> QED
      BY <1>1, <2>1, <2>2, <3>1, <3>2 DEF FileTypeOK, Saves
  <2>3. CASE task \in Loads
    <3>1. /\ task.rest \in Seq(Entries) /\ task.file \in Files
          /\ task.fresh \in BOOLEAN
      BY <2>3, RecordsAreEntries DEF Loads
    <3>2. Loading
      BY <1>1, <2>3, Kinds
    <3> QED
      BY <1>1, <2>1, <3>1, <3>2 DEF FileTypeOK
  <2> QED
    BY <1>1, <2>1, <2>2, <2>3 DEF FileTypeOK, Tables
<1> QED
  BY <1>3, <1>4 DEF FileInv

LEMMA UnchangedView ==
    ASSUME UNCHANGED << db, expire, now >>
    PROVE  seen' = seen /\ pending' = pending
BY DEF seen, pending, find, Expired

LEMMA CollectUnseen ==
    ASSUME TypeOK, NEW k \in Keys, Expired(k), Collect(k)
    PROVE  seen' = seen /\ pending' = pending
<1>1. /\ db' = [db EXCEPT ![k] = Absent] /\ expire' = [expire EXCEPT ![k] = None]
      /\ now' = now
  BY DEF Collect
<1>2. ASSUME NEW j \in Keys
      PROVE  /\ find(j)' = find(j)
             /\ (IF Expired(j) THEN None ELSE expire[j])'
                  = IF Expired(j) THEN None ELSE expire[j]
  <2>1. CASE j = k
    BY <1>1, <2>1 DEF find, Expired, TypeOK
  <2>2. CASE j # k
    <3>1. db'[j] = db[j] /\ expire'[j] = expire[j]
      BY <1>1, <2>2 DEF TypeOK
    <3> QED
      BY <1>1, <3>1 DEF find, Expired
  <2> QED
    BY <2>1, <2>2
<1> QED
  BY <1>2 DEF seen, pending

(* A step of a save changes nothing that clients see: what it collects was   *)
(* gone for them already (the lookups of Db::save).                          *)
THEOREM SavesAreUnseen == FileSpec => SaveUnseen
<1>1. ASSUME Inv, [FileNext]_allVars, Saving, SameClock
      PROVE  seen' = seen /\ pending' = pending
  <2>1. task # Idle /\ ~Loading /\ TypeOK
    BY <1>1, Kinds DEF Inv, Tables
  <2>2. ASSUME NEW k \in Keys, saveExpired(k)
        PROVE  seen' = seen /\ pending' = pending
    BY <2>1, <2>2, CollectUnseen DEF saveExpired
  <2>3. ASSUME NEW k \in Keys, saveKey(k)
        PROVE  seen' = seen /\ pending' = pending
    BY <2>3, UnchangedView DEF saveKey, vars
  <2>4. ASSUME NEW k \in Keys, saveDies(k)
        PROVE  FALSE
    BY <1>1, <2>4 DEF saveDies, Crash, SameClock
  <2>5. CASE saveEnd
    BY <2>5, UnchangedView DEF saveEnd
  <2>6. CASE Wait
    BY <1>1, <2>1, <2>6, TimeTyped DEF Wait, Tick, SameClock, TypeOK
  <2>7. CASE Kill
    BY <1>1, <2>7 DEF Kill, SameClock
  <2>8. CASE UNCHANGED allVars
    BY <2>8, UnchangedView DEF allVars, vars
  <2>9. ~Reading /\ ~loadEnd /\ ~loadTorn /\ ~Between
    BY <2>1 DEF Reading, loadEnd, loadTorn, Between
  <2> QED
    BY <1>1, <2>1, <2>2, <2>3, <2>4, <2>5, <2>6, <2>7, <2>8, <2>9
       DEF FileNext, Work, loadKey, loadExpired, loadFails, doSave, doLoad
<1>2. Inv /\ [FileNext]_allVars =>
        [Saving /\ SameClock => seen' = seen /\ pending' = pending]_allVars
  BY <1>1
<1> QED
  BY <1>2, InvHolds, PTL DEF FileSpec, SaveUnseen

(* A deadline stands until it passes or the process ends, through saves and  *)
(* loads too: Db::load inserts, and never replaces.                          *)
THEOREM DeadlinesStandInFiles == FileSpec => DeadlineFirm
<1>1. ASSUME Inv, Edges, [FileNext]_allVars,
             NEW k \in Keys, expire[k] # None, ~Expired(k)
      PROVE  expire'[k] = expire[k] \/ ~up'
  <2>1. TypeOK
    BY <1>1 DEF Inv, Tables
  <2>2. CASE Between
    BY <1>1, <2>1, <2>2, DeadlineStands DEF Between
  <2>3. ASSUME NEW j \in Keys, saveExpired(j)
        PROVE  expire'[k] = expire[k]
    BY <1>1, <2>1, <2>3 DEF saveExpired, Collect, TypeOK
  <2>4. ASSUME NEW j \in Keys, saveKey(j) \/ saveDies(j)
        PROVE  expire'[k] = expire[k] \/ ~up'
    BY <2>4 DEF saveKey, saveDies, vars, Crash
  <2>5. ASSUME Reading, InsertDeadline(Next1)
        PROVE  expire'[k] = expire[k]
    <3>1. PICK e \in Records : Next1 = e
      BY <1>1, <2>5, LoadUnderWay DEF AtEntry
    <3>2. InsertDeadline(e)
      BY <2>5, <3>1 DEF InsertDeadline
    <3> QED
      BY <1>1, <2>1, <3>2, RecordsTyped, DeadlineInserted
  <2>6. CASE loadKey \/ loadFails
    BY <2>5, <2>6 DEF loadKey, loadFails, Takes, Refuses
  <2>7. CASE loadExpired \/ loadEnd \/ saveEnd \/ Wait
    BY <2>7 DEF loadExpired, Skips, loadEnd, saveEnd, Wait, Tick
  <2>8. CASE Kill \/ UNCHANGED allVars
    BY <2>8 DEF Kill, allVars, vars
  <2>9. ASSUME NEW n, doSave(n) \/ doLoad(n)
        PROVE  expire'[k] = expire[k]
    BY <2>9 DEF doSave, doLoad
  <2>10. ASSUME loadTorn, expire' # expire
         PROVE  expire'[k] = expire[k]
    <3>1. /\ torn[task.file].part = "entry" /\ InsertDeadline(torn[task.file].entry)
          /\ Loading
      BY <2>10 DEF loadTorn, Takes, Skips, Refuses
    <3>2. task.file \in Files
      BY <1>1, <3>1, Kinds DEF Inv, Loads
    <3>3. PICK e : e = torn[task.file].entry
      OBVIOUS
    <3>4. e.key \in Keys /\ e.etime \in Int \cup {None} /\ InsertDeadline(e)
      BY <1>1, <3>1, <3>2, <3>3, TornTyped DEF InsertDeadline
    <3> QED
      BY <1>1, <2>1, <3>4, DeadlineInserted
  <2> QED
    BY <1>1, <2>2, <2>3, <2>4, <2>6, <2>7, <2>8, <2>9, <2>10 DEF FileNext, Work
<1>2. Inv /\ Edges /\ [FileNext]_allVars =>
        [\A k \in Keys : expire[k] # None /\ ~Expired(k) =>
           expire'[k] = expire[k] \/ ~up']_vars
  BY <1>1
<1> QED
  BY <1>2, InvHolds, PTL DEF FileSpec, DeadlineFirm

(* An object that is there, and what a step of a load leaves under its key. *)
LEMMA FoundHere ==
    ASSUME TypeOK, Worded, NEW k \in Keys, find(k) # Absent
    PROVE  /\ ~Expired(k) /\ find(k) = db[k]
           /\ db[k] \in Objects /\ Fine(db[k])
           /\ db[k] \notin {Absent, NullPtr}
<1>1. ~Expired(k) /\ db[k] # NullPtr /\ db[k] # Absent /\ find(k) = db[k]
  BY DEF find
<1> QED
  BY <1>1 DEF TypeOK, Worded

LEMMA FoundThen ==
    ASSUME NEW k \in Keys, db'[k] \in Objects, now' = now,
           expire'[k] # None => ~(now > expire'[k])
    PROVE  seen'[k] = db'[k]
<1>1. db'[k] # NullPtr
  BY ObjectTypes DEF NullPtr
<1>2. ~Expired(k)'
  BY DEF Expired
<1> QED
  BY <1>1, <1>2 DEF seen, find

(* A step of a load reads the entry at hand, or changes neither table. *)
LEMMA LoadSteps ==
    ASSUME Inv, Edges, [FileNext]_allVars, Loading, SameClock
    PROVE  \/ UNCHANGED << db, expire >>
           \/ \E e \in AtHand :
                /\ e.key \in Keys /\ e.etime \in Int \cup {None}
                /\ \/ InsertDeadline(e) /\ db' = db
                   \/ e \in Records /\ Takes(e)
                   \/ e \in Records /\ Skips(e)
                   \/ /\ InsertDeadline(e)
                      /\ db' = [db EXCEPT ![e.key] =
                                  IF Live(e) THEN Base(e)
                                  ELSE IF @ = Absent THEN NullPtr ELSE @]
<1>1. task # Idle /\ ~Saving /\ now' = now /\ now \in Nat /\ up' /\ task.file \in Files
  BY Kinds DEF Inv, Tables, TypeOK, SameClock, Loads
<1>2. ASSUME Reading
      PROVE  Next1 \in AtHand /\ Next1 \in Records
  BY <1>2, LoadUnderWay DEF AtEntry, AtHand, Reading
<1>3. CASE loadKey \/ loadExpired \/ loadFails
  <2>1. Next1 \in AtHand /\ Next1 \in Records
    BY <1>2, <1>3 DEF loadKey, loadExpired, loadFails
  <2>2. PICK e \in Records : e = Next1
    BY <2>1
  <2>3. e.key \in Keys /\ e.etime \in Int \cup {None}
    BY RecordsTyped
  <2>4. \/ InsertDeadline(e) /\ db' = db
        \/ Takes(e)
        \/ Skips(e)
        \/ /\ InsertDeadline(e)
           /\ db' = [db EXCEPT ![e.key] =
                       IF Live(e) THEN Base(e) ELSE IF @ = Absent THEN NullPtr ELSE @]
    BY <1>3, <2>2 DEF loadKey, loadExpired, loadFails, Takes, Skips, Refuses,
       InsertDeadline
  <2> QED
    BY <2>1, <2>2, <2>3, <2>4
<1>4. CASE loadTorn
  <2>1. CASE torn[task.file].part = "entry"
    <3>1. PICK e : e = torn[task.file].entry
      OBVIOUS
    <3>2. /\ e.key \in Keys /\ e.etime \in Int \cup {None}
          /\ e.obj = CreateStrObject \/ (e.obj # CreateStrObject /\ e \in Records)
      BY <1>1, <2>1, <3>1, TornTyped
    <3>3. torn[task.file] \notin {Untyped, Nameless} /\ e \in AtHand
      BY <1>4, <2>1, <3>1 DEF Untyped, Nameless, AtHand, loadTorn
    <3>4. IF e.obj = CreateStrObject
          THEN InsertDeadline(e) /\ db' = db
          ELSE Takes(e) \/ Skips(e) \/ (InsertDeadline(e) /\ db' = db)
      BY <1>4, <3>1, <3>3 DEF loadTorn, InsertDeadline, Takes, Skips, Refuses
    <3> QED
      BY <3>2, <3>3, <3>4
  <2>2. CASE torn[task.file].part # "entry"
    BY <1>4, <2>2 DEF loadTorn
  <2> QED
    BY <2>1, <2>2
<1>5. CASE loadEnd \/ UNCHANGED allVars
  BY <1>5 DEF loadEnd, allVars, vars
<1>6. ~Kill
  BY <1>1 DEF Kill
<1>7. ~Wait
  <2>1. now' # now + 1
    BY <1>1
  <2> QED
    BY <2>1 DEF Wait, Tick
<1>8. /\ ~Between /\ ~saveEnd
      /\ \A j \in Keys : ~saveExpired(j) /\ ~saveKey(j) /\ ~saveDies(j)
      /\ \A n : ~doSave(n) /\ ~doLoad(n)
  BY <1>1 DEF Between, saveEnd, saveExpired, saveKey, saveDies, doSave, doLoad
<1> QED
  BY <1>3, <1>4, <1>5, <1>6, <1>7, <1>8 DEF FileNext, Work

LEMMA LoadAdds ==
    ASSUME Inv, Edges, [FileNext]_allVars, Loading, SameClock, NEW k \in Keys,
           seen[k] # Absent
    PROVE  \/ /\ seen'[k] = Absent
              /\ \E e \in AtHand : e.key = k /\ ~Live(e) /\ e.obj.type # "string"
           \/ Extends(seen[k], seen'[k])
<1>1. TypeOK /\ Worded /\ Tables
  BY DEF Inv, Tables
<1>2. /\ ~Expired(k) /\ seen[k] = db[k] /\ db[k] \in Objects /\ Fine(db[k])
      /\ db[k] \notin {Absent, NullPtr} /\ find(k) = db[k]
  BY <1>1, FoundHere DEF seen
<1>3. now' = now /\ up' /\ now \in Nat
  BY <1>1 DEF SameClock, TypeOK
<1>4. expire[k] # None => ~(now > expire[k])
  BY <1>2 DEF Expired
<1>5. ASSUME db'[k] = db[k], expire'[k] # None => ~(now > expire'[k])
      PROVE  Extends(seen[k], seen'[k])
  BY <1>2, <1>3, <1>5, FoundThen, ExtendsItself
<1>6. ASSUME NEW e, e.key \in Keys, e.etime \in Int \cup {None}, InsertDeadline(e)
      PROVE  expire'[k] # None => ~(now > expire'[k])
  <2>1. expire'[k] = expire[k] \/ (expire'[k] = e.etime /\ e.etime # None /\ now < e.etime)
    BY <1>1, <1>6, DeadlineInserted DEF Live
  <2> QED
    BY <1>3, <1>4, <1>6, <2>1
<1>7. CASE UNCHANGED << db, expire >>
  BY <1>4, <1>5, <1>7
<1>8. ASSUME NEW e \in AtHand, e.key \in Keys, e.etime \in Int \cup {None},
             InsertDeadline(e),
             \/ db' = db
             \/ db' = [db EXCEPT ![e.key] = IF Live(e) THEN Base(e)
                                            ELSE IF @ = Absent THEN NullPtr ELSE @]
      PROVE  Extends(seen[k], seen'[k])
  <2>1. k = e.key => Base(e) = db[k]
    BY <1>2 DEF Base
  <2>2. db'[k] = db[k]
    BY <1>1, <1>2, <1>8, <2>1 DEF TypeOK
  <2> QED
    BY <1>5, <1>6, <1>8, <2>2
<1>9. ASSUME NEW e \in AtHand, e \in Records, Takes(e)
      PROVE  Extends(seen[k], seen'[k])
  <2>1. /\ InsertDeadline(e) /\ Refilled(Base(e), e.obj) # Unsupported
        /\ db' = [db EXCEPT ![e.key] = Refilled(Base(e), e.obj)]
    BY <1>9 DEF Takes
  <2>2. e.key \in Keys /\ e.etime \in Int \cup {None} /\ Storable(e.obj)
    BY <1>9, RecordsTyped
  <2>3. CASE k # e.key
    <3>1. db'[k] = db[k]
      BY <1>1, <2>1, <2>3 DEF TypeOK
    <3> QED
      BY <1>5, <1>6, <2>1, <2>2, <3>1
  <2>4. CASE k = e.key
    <3>1. Base(e) = db[k]
      BY <1>2, <2>4 DEF Base
    <3>2. Extends(db[k], Refilled(Base(e), e.obj))
      BY <1>2, <2>1, <2>2, <3>1, RefilledExtends
    <3>3. db'[k] = Refilled(Base(e), e.obj)
      BY <1>1, <2>1, <2>4 DEF TypeOK
    <3>4. db'[k] \in Objects
      BY <3>2, <3>3 DEF Extends
    <3>5. seen'[k] = db'[k]
      BY <1>3, <1>6, <2>1, <2>2, <3>4, FoundThen
    <3> QED
      BY <1>2, <3>2, <3>3, <3>5
  <2> QED
    BY <2>3, <2>4
<1>10. ASSUME NEW e \in AtHand, Skips(e), db'[k] # db[k]
       PROVE  seen'[k] = Absent /\ e.key = k /\ ~Live(e) /\ e.obj.type # "string"
  <2>1. ~Live(e) /\ e.obj.type # "string" /\ k = e.key /\ db'[k] = Absent
    BY <1>1, <1>10 DEF Skips, TypeOK
  <2> QED
    BY <2>1 DEF seen, find
<1>11. ASSUME NEW e \in AtHand, Skips(e), db'[k] = db[k]
       PROVE  Extends(seen[k], seen'[k])
  BY <1>4, <1>5, <1>11 DEF Skips
<1> QED
  BY <1>7, <1>8, <1>9, <1>10, <1>11, LoadSteps

(* A deadline that a load gives is one that it reads. *)
LEMMA LoadTimes ==
    ASSUME Inv, Edges, [FileNext]_allVars, Loading, SameClock, NEW k \in Keys
    PROVE  \/ pending'[k] = pending[k]
           \/ /\ pending[k] = None
              /\ \E e \in AtHand : e.key = k /\ Live(e) /\ pending'[k] = e.etime
<1>1. TypeOK /\ now' = now /\ now \in Nat
  BY DEF Inv, Tables, TypeOK, SameClock
<1>2. /\ pending[k] = IF expire[k] # None /\ now > expire[k] THEN None ELSE expire[k]
      /\ pending'[k] = IF expire'[k] # None /\ now > expire'[k] THEN None ELSE expire'[k]
  BY <1>1 DEF pending, Expired
<1>3. CASE expire'[k] = expire[k]
  BY <1>2, <1>3
<1>4. CASE expire'[k] # expire[k]
  <2>1. PICK e \in AtHand : e.key \in Keys /\ e.etime \in Int \cup {None}
                            /\ InsertDeadline(e)
    BY <1>4, LoadSteps DEF Takes, Skips
  <2>2. /\ e.key = k /\ Live(e) /\ e.etime # None /\ expire[k] = None
        /\ expire'[k] = e.etime
    BY <1>1, <1>4, <2>1, DeadlineInserted
  <2>3. now < e.etime /\ e.etime \in Int
    BY <2>1, <2>2 DEF Live
  <2>4. pending[k] = None /\ pending'[k] = e.etime
    BY <1>1, <1>2, <2>2, <2>3
  <2> QED
    BY <2>2, <2>4
<1> QED
  BY <1>3, <1>4

(* A load takes nothing from a database in use but what an expired entry of  *)
(* that name takes: it changes no type and takes no element away, and the    *)
(* only deadlines it gives are those of its file, to keys without one        *)
(* (Db::load and the add functions it calls).                                *)
THEOREM LoadsOnlyAdd == FileSpec => LoadOnlyAdds
<1>1. ASSUME Inv, Edges, [FileNext]_allVars, Loading, SameClock, NEW k \in Keys
      PROVE  LET o == seen[k]
                 p == seen'[k]
             IN
             /\ \/ pending'[k] = pending[k]
                \/ /\ pending[k] = None
                   /\ \E e \in AtHand : e.key = k /\ Live(e) /\ pending'[k] = e.etime
             /\ o # Absent /\ p = Absent =>
                  \E e \in AtHand : e.key = k /\ ~Live(e) /\ e.obj.type # "string"
             /\ o # Absent /\ p # Absent =>
                  /\ p.type = o.type
                  /\ o.type = "list" => SubSeq(p.list, 1, Len(o.list)) = o.list
                  /\ o.type = "set" => o.uset \subseteq p.uset
                  /\ o.type = "hash" =>
                       \A f \in Vals : o.dict[f] # None => p.dict[f] # None
                  /\ o.type = "orderedset" => p = o
  <2>1. \/ pending'[k] = pending[k]
        \/ /\ pending[k] = None
           /\ \E e \in AtHand : e.key = k /\ Live(e) /\ pending'[k] = e.etime
    BY <1>1, LoadTimes
  <2>2. CASE seen[k] = Absent
    BY <2>1, <2>2
  <2>3. CASE seen[k] # Absent
    <3>1. Extends(seen[k], seen'[k]) => seen'[k] # Absent
      BY ObjectTypes DEF Extends, Absent
    <3> QED
      BY <1>1, <2>1, <2>3, <3>1, LoadAdds DEF Extends
  <2> QED
    BY <2>2, <2>3
<1>2. Inv /\ Edges /\ [FileNext]_allVars =>
        [Loading /\ SameClock => \A k \in Keys :
           LET o == seen[k]
               p == seen'[k]
           IN
           /\ \/ pending'[k] = pending[k]
              \/ /\ pending[k] = None
                 /\ \E e \in AtHand : e.key = k /\ Live(e) /\ pending'[k] = e.etime
           /\ o # Absent /\ p = Absent =>
                \E e \in AtHand : e.key = k /\ ~Live(e) /\ e.obj.type # "string"
           /\ o # Absent /\ p # Absent =>
                /\ p.type = o.type
                /\ o.type = "list" => SubSeq(p.list, 1, Len(o.list)) = o.list
                /\ o.type = "set" => o.uset \subseteq p.uset
                /\ o.type = "hash" =>
                     \A f \in Vals : o.dict[f] # None => p.dict[f] # None
                /\ o.type = "orderedset" => p = o]_allVars
  BY <1>1
<1> QED
  BY <1>2, InvHolds, PTL DEF FileSpec, LoadOnlyAdds

(* At the end of a load every entry of its file has been read. *)
LEMMA LoadComplete ==
    ASSUME Inv, Loading, task.fresh, task.rest = << >>
    PROVE  \E entries \in Seq(Records), was \in Moments :
              /\ disk[task.file] = Snapshot(entries)
              /\ saved[task.file] = was
              /\ Matches(entries, was)
              /\ was.done => \A k \in Keys : Holds(entries, k) \/ Gone(was, k)
              /\ \A k \in Keys : Restored(k, entries, Len(entries))
<1>1. task \in Loads /\ task.file \in Files
  BY Kinds DEF Inv, Loads
<1>2. PICK entries \in Seq(Records), i \in Nat :
        /\ i \in 0 .. Len(entries)
        /\ disk[task.file] = Snapshot(entries)
        /\ Len(task.rest) = Len(entries) - i
        /\ \A k \in Keys : Restored(k, entries, i)
  BY <1>1 DEF Inv, HalfLoaded
<1>3. i = Len(entries)
  <2>1. Len(entries) \in Nat /\ Len(task.rest) = 0
    OBVIOUS
  <2> QED
    BY <1>2, <2>1
<1>4. saved[task.file] \in Moments
  BY <1>1, <1>2, SnapshotRecords DEF Inv, Tables
<1>5. PICK was \in Moments : saved[task.file] = was
  BY <1>4
<1>6. /\ Matches(entries, was)
      /\ was.done => \A k \in Keys : Holds(entries, k) \/ Gone(was, k)
  BY <1>1, <1>2, <1>5 DEF Inv, Snapshots
<1>7. \A k \in Keys : Restored(k, entries, Len(entries))
  BY <1>2, <1>3
<1> QED
  BY <1>2, <1>5, <1>6, <1>7

(* Under k clients see what they saw at that moment, as a load spells it,    *)
(* with its deadline, or nothing; or one of the two things a cut can do.     *)
Over(k, was, t) == was.ends[k] # None /\ t > was.ends[k]

Returned(k, was, p, t) ==
    /\ p \in {Absent, Again(was.objs[k])}
    /\ p # Absent => t = was.ends[k]
    /\ Over(k, was, now) => p = Absent

Short(k, was, p, t) ==
    Remnant(p, was.objs[k]) /\ t = was.ends[k] /\ ~Over(k, was, now)

Misnamed(k, was, p, t) ==
    \E j \in Keys : /\ k \in NameCuts[j]
                    /\ p \in {Again(was.objs[k])} \cup Creations
                    /\ t = was.ends[j]

Full(k, was) == ~Over(k, was, now + 1) => seen[k] = Again(was.objs[k])

LEMMA EntryReturns ==
    ASSUME TypeOK, NEW entries \in Seq(Records), NEW was \in Moments,
           Matches(entries, was), NEW k \in Keys,
           Restored(k, entries, Len(entries)),
           NEW j \in 1 .. Len(entries), entries[j].key = k
    PROVE  /\ Returned(k, was, seen[k], pending[k]) /\ Full(k, was)
           /\ db[k] \in {Absent, NullPtr} => db[k] = Absent /\ expire[k] = None
<1>1. DOMAIN entries = 1 .. Len(entries) /\ entries[j] \in Records
  BY ElementOfSeq
<1>2. /\ was.objs[k] = entries[j].obj /\ was.ends[k] = entries[j].etime
  BY <1>1 DEF Matches
<1>3. Storable(entries[j].obj) /\ entries[j].etime \in Int \cup {None}
  BY <1>1, RecordsTyped
<1>4. PICK o \in Objects : o = was.objs[k]
  BY <1>2, <1>3 DEF Storable
<1>5. PICK t \in Int \cup {None} : t = was.ends[k]
  BY <1>2, <1>3
<1>6. Again(o) \in Objects
  BY <1>2, <1>3, <1>4, RefilledBlank
<1>7. o # Absent /\ Again(o) \notin {Absent, NullPtr}
  BY <1>4, <1>6, ObjectTypes
<1>8. now \in Nat
  BY DEF TypeOK
<1>9. CASE db[k] = Again(o) /\ expire[k] = t
  <2>1. Expired(k) <=> t # None /\ now > t
    BY <1>9 DEF Expired
  <2>2. seen[k] = IF Expired(k) THEN Absent ELSE Again(o)
    BY <1>7, <1>9 DEF seen, find
  <2>3. ~Expired(k) => pending[k] = t
    BY <1>9 DEF pending
  <2>4. ~(t # None /\ now + 1 > t) => ~Expired(k)
    BY <1>5, <1>8, <2>1
  <2> QED
    BY <1>4, <1>5, <1>7, <1>9, <2>1, <2>2, <2>3, <2>4 DEF Returned, Full, Over
<1>10. CASE db[k] = Absent /\ expire[k] = None /\ t # None /\ now >= t
  <2>1. seen[k] = Absent
    BY <1>10 DEF seen, find
  <2>2. t # None /\ now + 1 > t
    BY <1>5, <1>8, <1>10
  <2> QED
    BY <1>5, <1>10, <2>1, <2>2 DEF Returned, Full, Over
<1> QED
  BY <1>2, <1>4, <1>5, <1>9, <1>10 DEF Restored

LEMMA NothingReturns ==
    ASSUME TypeOK, NEW entries \in Seq(Records), NEW was \in Moments,
           NEW k \in Keys, was.done => Holds(entries, k) \/ Gone(was, k),
           Restored(k, entries, Len(entries)), ~Holds(entries, k)
    PROVE  /\ Returned(k, was, seen[k], pending[k])
           /\ was.done => Full(k, was)
           /\ db[k] = Absent /\ expire[k] = None
<1>1. DOMAIN entries = 1 .. Len(entries)
  OBVIOUS
<1>2. \A j \in 1 .. Len(entries) : entries[j].key # k
  BY <1>1 DEF Holds
<1>3. db[k] = Absent /\ expire[k] = None /\ seen[k] = Absent
  BY <1>2 DEF Restored, seen, find
<1>4. PICK t \in Int \cup {None} : t = was.ends[k]
  BY DEF Moments
<1>5. was.done => was.objs[k] = Absent \/ (t # None /\ now > t)
  BY <1>4 DEF Gone
<1>6. t # None /\ now > t => now + 1 > t
  BY <1>4 DEF TypeOK
<1>7. was.objs[k] = Absent => Again(was.objs[k]) = Absent
  BY DEF Again, Absent
<1> QED
  BY <1>3, <1>4, <1>5, <1>6, <1>7 DEF Returned, Full, Over

(* All keys, where every entry of the file has been read. *)
LEMMA KeysReturn ==
    ASSUME Inv, Loading, task.fresh, task.rest = << >>
    PROVE  \E entries \in Seq(Records), was \in Moments :
              /\ disk[task.file] = Snapshot(entries)
              /\ saved[task.file] = was
              /\ \A k \in Keys :
                   /\ Returned(k, was, seen[k], pending[k])
                   /\ was.done => Full(k, was)
                   /\ db[k] \in {Absent, NullPtr} => db[k] = Absent /\ expire[k] = None
                   /\ ~Holds(entries, k) => db[k] = Absent
<1>1. PICK entries \in Seq(Records), was \in Moments :
        /\ disk[task.file] = Snapshot(entries)
        /\ saved[task.file] = was
        /\ Matches(entries, was)
        /\ was.done => \A j \in Keys : Holds(entries, j) \/ Gone(was, j)
        /\ \A j \in Keys : Restored(j, entries, Len(entries))
  BY LoadComplete
<1>2. TypeOK /\ DOMAIN entries = 1 .. Len(entries)
  BY DEF Inv, Tables
<1>3. ASSUME NEW k \in Keys, Holds(entries, k)
      PROVE  /\ Returned(k, was, seen[k], pending[k]) /\ Full(k, was)
             /\ db[k] \in {Absent, NullPtr} => db[k] = Absent /\ expire[k] = None
  <2>1. PICK j \in 1 .. Len(entries) : entries[j].key = k
    BY <1>2, <1>3 DEF Holds
  <2> QED
    BY <1>1, <1>2, <2>1, EntryReturns
<1>4. ASSUME NEW k \in Keys, ~Holds(entries, k)
      PROVE  /\ Returned(k, was, seen[k], pending[k])
             /\ was.done => Full(k, was)
             /\ db[k] = Absent /\ expire[k] = None
  BY <1>1, <1>2, <1>4, NothingReturns
<1> QED
  BY <1>1, <1>3, <1>4

(* What clients see after a step, in terms of the two tables. *)
LEMMA ThenSeen ==
    ASSUME NEW k \in Keys, now' = now
    PROVE  /\ seen[k] = IF (expire[k] # None /\ now > expire[k]) \/ db[k] = NullPtr
                        THEN Absent ELSE db[k]
           /\ pending[k] = IF expire[k] # None /\ now > expire[k] THEN None ELSE expire[k]
           /\ seen'[k] = IF (expire'[k] # None /\ now > expire'[k]) \/ db'[k] = NullPtr
                         THEN Absent ELSE db'[k]
           /\ pending'[k] = IF expire'[k] # None /\ now > expire'[k]
                            THEN None ELSE expire'[k]
BY DEF seen, pending, find, Expired

LEMMA AbsentReturns ==
    ASSUME NEW k, NEW was, NEW t
    PROVE  Returned(k, was, Absent, t)
BY DEF Returned

(* A part of the entry of a key that was not there yet. *)
LEMMA OwnPart ==
    ASSUME TypeOK, now' = now, NEW e, NEW k \in Keys, e.key = k, NEW was \in Moments,
           e.etime = was.ends[k], db[k] = Absent, expire[k] = None,
           \/ InsertDeadline(e) /\ db' = db
           \/ Skips(e)
           \/ Takes(e) /\ Storable(e.obj) /\ Remnant(Again(e.obj), was.objs[k])
    PROVE  \/ seen'[k] = Absent
           \/ Short(k, was, seen'[k], pending'[k])
<1>1. now \in Nat /\ was.ends[k] \in Int \cup {None}
  BY DEF TypeOK, Moments
<1>2. CASE InsertDeadline(e) /\ db' = db
  BY <1>2, ThenSeen
<1>3. CASE Skips(e)
  <2>1. db'[k] = Absent
    BY <1>3 DEF Skips, TypeOK
  <2> QED
    BY <2>1, ThenSeen
<1>4. CASE Takes(e) /\ Storable(e.obj) /\ Remnant(Again(e.obj), was.objs[k])
  <2>1. Base(e) = Blank[e.obj.type]
    BY DEF Base
  <2>2. Refilled(Base(e), e.obj) = Again(e.obj) /\ Again(e.obj) \in Objects
    BY <1>4, <2>1, RefilledBlank
  <2>3. db'[k] = Again(e.obj) /\ Live(e) /\ InsertDeadline(e)
    BY <1>4, <2>2 DEF Takes, TypeOK
  <2>4. expire'[k] = was.ends[k]
    BY <1>1, <2>3, DeadlineInserted
  <2>5. was.ends[k] # None => ~(now > was.ends[k])
    BY <1>1, <2>3 DEF Live
  <2>6. Again(e.obj) # NullPtr
    BY <2>2, ObjectTypes
  <2>7. seen'[k] = Again(e.obj) /\ pending'[k] = was.ends[k]
    BY <2>3, <2>4, <2>5, <2>6, ThenSeen
  <2> QED
    BY <1>4, <2>5, <2>7 DEF Short, Over
<1> QED
  BY <1>2, <1>3, <1>4

(* A part of the entry of another key, with nothing of its object. *)
LEMMA OtherPart ==
    ASSUME TypeOK, now' = now, NEW e, NEW k \in Keys, e.key = k, NEW was \in Moments,
           NEW j \in Keys, k \in NameCuts[j], e.etime = was.ends[j],
           Returned(k, was, seen[k], pending[k]),
           db[k] \in {Absent, NullPtr} => db[k] = Absent /\ expire[k] = None,
           \/ InsertDeadline(e) /\ db' = db
           \/ Skips(e) /\ e.obj.type # "string"
           \/ /\ Takes(e) /\ e.obj \in Creations /\ Blank[e.obj.type] = e.obj
              /\ e.obj.type # "string"
    PROVE  \/ Returned(k, was, seen'[k], pending'[k])
           \/ Misnamed(k, was, seen'[k], pending'[k])
<1>1. /\ now \in Nat /\ was.ends[j] \in Int \cup {None}
      /\ expire[k] \in Int \cup {None} /\ db \in [Keys -> Objects \cup {Absent, NullPtr}]
  BY DEF TypeOK, Moments
<1>2. CASE UNCHANGED << db, expire >>
  <2>1. seen'[k] = seen[k] /\ pending'[k] = pending[k]
    BY <1>2, ThenSeen
  <2> QED
    BY <2>1
<1>3. CASE Skips(e) /\ e.obj.type # "string"
  <2>1. seen'[k] = Absent
    BY <1>1, <1>3, ThenSeen DEF Skips
  <2> QED
    BY <2>1, AbsentReturns
<1>4. ASSUME InsertDeadline(e), expire'[k] # expire[k], db'[k] = db[k]
      PROVE  \/ seen'[k] = Absent
             \/ Misnamed(k, was, seen'[k], pending'[k])
  <2>1. /\ expire[k] = None /\ expire'[k] = was.ends[j] /\ Live(e)
        /\ was.ends[j] # None
    BY <1>1, <1>4, DeadlineInserted
  <2>2. ~(now > was.ends[j])
    BY <1>1, <2>1 DEF Live
  <2>3. seen'[k] = seen[k] /\ pending'[k] = was.ends[j]
    BY <1>4, <2>1, <2>2, ThenSeen
  <2> QED
    BY <2>3 DEF Returned, Misnamed
<1>5. CASE InsertDeadline(e) /\ db' = db
  <2>1. CASE expire'[k] = expire[k]
    <3>1. seen'[k] = seen[k] /\ pending'[k] = pending[k]
      BY <1>5, <2>1, ThenSeen
    <3> QED
      BY <3>1
  <2>2. CASE expire'[k] # expire[k]
    BY <1>4, <1>5, <2>2, AbsentReturns
  <2> QED
    BY <2>1, <2>2
<1>6. CASE /\ Takes(e) /\ e.obj \in Creations /\ Blank[e.obj.type] = e.obj
           /\ e.obj.type # "string"
  <2>1. /\ Live(e) /\ InsertDeadline(e) /\ Refilled(Base(e), e.obj) = Base(e)
        /\ db' = [db EXCEPT ![k] = Base(e)]
    BY <1>6 DEF Takes, Refilled
  <2>2. db'[k] = IF db[k] \in {Absent, NullPtr} THEN e.obj ELSE db[k]
    BY <1>1, <1>6, <2>1 DEF Base
  <2>3. CASE db[k] \in {Absent, NullPtr}
    <3>1. expire'[k] = was.ends[j] /\ db'[k] = e.obj
      BY <1>1, <2>1, <2>2, <2>3, DeadlineInserted
    <3>2. was.ends[j] # None => ~(now > was.ends[j])
      BY <1>1, <2>1 DEF Live
    <3>3. e.obj # NullPtr
      BY <1>6, CreationTypes DEF Creations, NullPtr
    <3>4. seen'[k] = e.obj /\ pending'[k] = was.ends[j]
      BY <3>1, <3>2, <3>3, ThenSeen
    <3> QED
      BY <1>6, <3>4 DEF Misnamed
  <2>4. CASE db[k] \notin {Absent, NullPtr}
    <3>1. db'[k] = db[k]
      BY <2>2, <2>4
    <3>2. CASE expire'[k] = expire[k]
      <4>1. seen'[k] = seen[k] /\ pending'[k] = pending[k]
        BY <3>1, <3>2, ThenSeen
      <4> QED
        BY <4>1
    <3>3. CASE expire'[k] # expire[k]
      BY <1>4, <2>1, <3>1, <3>3, AbsentReturns
    <3> QED
      BY <3>2, <3>3
  <2> QED
    BY <2>3, <2>4
<1> QED
  BY <1>3, <1>5, <1>6

(* What the reading of a part can do to its key. *)
LEMMA PartReturns ==
    ASSUME Inv, Edges, loadTorn, reply' = Ok, torn[task.file].part = "entry",
           NEW f \in Files, f = task.file,
           NEW entries \in Seq(Records), NEW was \in Moments,
           disk[f] = Snapshot(entries), saved[f] = was,
           \A k \in Keys :
              /\ Returned(k, was, seen[k], pending[k])
              /\ db[k] \in {Absent, NullPtr} => db[k] = Absent /\ expire[k] = None
              /\ ~Holds(entries, k) => db[k] = Absent
    PROVE  \E key \in Keys :
              /\ \A k \in Keys \ {key} : seen'[k] = seen[k] /\ pending'[k] = pending[k]
              /\ \/ Returned(key, was, seen'[key], pending'[key])
                 \/ Short(key, was, seen'[key], pending'[key])
                 \/ Misnamed(key, was, seen'[key], pending'[key])
<1>1. PICK e : e = torn[f].entry
  OBVIOUS
<1>2. /\ e.key \in Keys /\ e.etime \in Int \cup {None}
      /\ e.obj = CreateStrObject \/ (e.obj # CreateStrObject /\ e \in Records)
      /\ torn[f] # Whole
  BY <1>1, TornTyped
<1>3. TypeOK /\ now' = now /\ torn[f] \notin {Untyped, Nameless}
  BY DEF Inv, Tables, loadTorn, Untyped, Nameless
<1>4. IF e.obj = CreateStrObject
      THEN InsertDeadline(e) /\ db' = db
      ELSE Takes(e) \/ Skips(e)
  <2>1. Ok # Error
    BY DEF Ok, Error
  <2> QED
    BY <1>1, <1>3, <2>1 DEF loadTorn, InsertDeadline, Takes, Skips
<1>5. ASSUME NEW k \in Keys, k # e.key
      PROVE  seen'[k] = seen[k] /\ pending'[k] = pending[k]
  <2>1. InsertDeadline(e) \/ expire' = expire
    BY <1>4 DEF Takes, Skips
  <2>2. expire'[k] = expire[k]
    BY <1>2, <1>3, <1>5, <2>1, DeadlineInserted
  <2>3. db'[k] = db[k]
    BY <1>3, <1>4, <1>5 DEF Takes, Skips, TypeOK
  <2> QED
    BY <1>3, <2>2, <2>3, ThenSeen
<1>6. PICK j \in Keys : ~Holds(entries, j)
                        /\ torn[f] \in Parts(j, was.ends[j], was.objs[j])
  BY <1>2 DEF Edges, Piece
<1>7. PICK o : o = was.objs[j]
  OBVIOUS
<1>8. o \in Objects
  <2>1. torn[f] \notin {Untyped}
    BY <1>3
  <2>2. o.type \in AnyType
    BY <1>3, <1>6, <1>7 DEF Parts
  <2>3. o \in Objects \cup {Absent}
    BY <1>7 DEF Moments
  <2> QED
    BY <2>2, <2>3 DEF Absent, AnyType
<1>9. \/ \E i \in {j} \cup NameCuts[j] : torn[f] = Left(i, was.ends[j], Blank[o.type])
      \/ \E p \in ObjectCuts(o) : torn[f] = Left(j, was.ends[j], p)
  BY <1>3, <1>6, <1>7 DEF Parts
<1>10. /\ e.etime = was.ends[j]
       /\ \/ e.key \in {j} \cup NameCuts[j] /\ e.obj = Blank[o.type]
          \/ e.key = j /\ e.obj \in ObjectCuts(o)
  <2>1. \A i, t, p : /\ Left(i, t, p).entry.key = i /\ Left(i, t, p).entry.etime = t
                     /\ Left(i, t, p).entry.obj = p
    BY DEF Left
  <2> QED
    BY <1>1, <1>9, <2>1
<1>11. CASE e.key = j
  <2>1. db[j] = Absent /\ expire[j] = None
    BY <1>6
  <2>2. e.obj # CreateStrObject => Storable(e.obj) /\ Remnant(Again(e.obj), o)
    BY <1>2, <1>8, <1>10, RecordsTyped, BlankRemnant, CutsRemain
  <2>3. seen'[j] = Absent \/ Short(j, was, seen'[j], pending'[j])
    BY <1>3, <1>4, <1>7, <1>10, <1>11, <2>1, <2>2, OwnPart
  <2> QED
    BY <1>5, <1>11, <2>3, AbsentReturns
<1>12. CASE e.key # j
  <2>1. e.key \in NameCuts[j] /\ e.obj = Blank[o.type]
    BY <1>10, <1>12
  <2>2. e.obj # CreateStrObject =>
          /\ e.obj \in Creations /\ e.obj.type # "string"
          /\ Blank[e.obj.type] = e.obj
    <3>1. e.obj \in {CreateStrObject, CreateListObject, CreateHashObject,
                     CreateSetObject, CreateOSetObject}
      BY <1>8, <2>1, Blanks, ObjectTypes
    <3> QED
      BY <3>1, Blanks, CreationTypes DEF Creations
  <2>3. \/ InsertDeadline(e) /\ db' = db
        \/ Skips(e) /\ e.obj.type # "string"
        \/ /\ Takes(e) /\ e.obj \in Creations /\ Blank[e.obj.type] = e.obj
           /\ e.obj.type # "string"
    BY <1>4, <2>2
  <2>4. \/ Returned(e.key, was, seen'[e.key], pending'[e.key])
        \/ Misnamed(e.key, was, seen'[e.key], pending'[e.key])
    BY <1>2, <1>3, <1>10, <2>1, <2>3, OtherPart
  <2> QED
    BY <1>2, <1>5, <2>4
<1> QED
  BY <1>11, <1>12

(* The end of a load that began with nothing. *)
LEMMA LoadReturns ==
    ASSUME Inv, Edges, [FileNext]_allVars, Loading, task.fresh, task' = Idle, reply' = Ok
    PROVE  LET was == saved[task.file] IN
           /\ was.done => \A k \in Keys :
                /\ Returned(k, was, seen'[k], pending'[k])
                /\ ~Over(k, was, now + 1) => seen'[k] = Again(was.objs[k])
           /\ \A k \in Keys : \/ Returned(k, was, seen'[k], pending'[k])
                              \/ Short(k, was, seen'[k], pending'[k])
                              \/ Misnamed(k, was, seen'[k], pending'[k])
           /\ \A j, k \in Keys : \/ Returned(j, was, seen'[j], pending'[j])
                                 \/ Returned(k, was, seen'[k], pending'[k])
                                 \/ j = k
<1>1. /\ task \in Loads /\ task # Idle /\ ~Saving /\ task.kind = "load"
      /\ task.file \in Files
  BY Kinds DEF Inv, Loads
<1>2. loadEnd \/ loadTorn
  <2>1. Ok \notin {Error, Quiet}
    BY DEF Ok, Error, Quiet
  <2>2. ~loadKey /\ ~loadExpired
    <3>1. [task EXCEPT !.rest = Tail(@)].kind = "load"
      BY <1>1 DEF Loads
    <3> QED
      BY <3>1 DEF loadKey, loadExpired, Idle
  <2>3. ~loadFails /\ ~Kill /\ ~Wait /\ ~UNCHANGED allVars
    BY <1>1, <2>1 DEF loadFails, Kill, Wait, fileVars, allVars
  <2>4. /\ ~Between /\ ~saveEnd
        /\ \A j \in Keys : ~saveExpired(j) /\ ~saveKey(j) /\ ~saveDies(j)
        /\ \A n : ~doSave(n) /\ ~doLoad(n)
    BY <1>1 DEF Between, saveEnd, saveExpired, saveKey, saveDies, doSave, doLoad
  <2> QED
    BY <2>2, <2>3, <2>4 DEF FileNext, Work
<1>3. task.rest = << >> /\ now' = now
  BY <1>2 DEF loadEnd, loadTorn
<1>4. PICK f \in Files : f = task.file
  BY <1>1
<1>5. PICK entries \in Seq(Records), was \in Moments :
        /\ disk[f] = Snapshot(entries)
        /\ saved[f] = was
        /\ \A k \in Keys :
             /\ Returned(k, was, seen[k], pending[k])
             /\ was.done => Full(k, was)
             /\ db[k] \in {Absent, NullPtr} => db[k] = Absent /\ expire[k] = None
             /\ ~Holds(entries, k) => db[k] = Absent
  BY <1>3, <1>4, KeysReturn
<1>6. CASE UNCHANGED << db, expire >>
  <2>1. seen' = seen /\ pending' = pending
    BY <1>3, <1>6, UnchangedView
  <2> QED
    BY <1>4, <1>5, <2>1 DEF Full
<1>7. CASE loadTorn /\ torn[f].part = "entry"
  <2>1. ~was.done
    <3>1. torn[f] # Whole
      BY <1>7 DEF Whole
    <3> QED
      BY <1>5, <3>1 DEF Edges, Piece
  <2>2. PICK key \in Keys :
          /\ \A k \in Keys \ {key} : seen'[k] = seen[k] /\ pending'[k] = pending[k]
          /\ \/ Returned(key, was, seen'[key], pending'[key])
             \/ Short(key, was, seen'[key], pending'[key])
             \/ Misnamed(key, was, seen'[key], pending'[key])
    BY <1>4, <1>5, <1>7, PartReturns
  <2>3. \A k \in Keys \ {key} : Returned(k, was, seen'[k], pending'[k])
    BY <1>5, <2>2
  <2> QED
    BY <1>4, <1>5, <2>1, <2>2, <2>3
<1>8. loadEnd => UNCHANGED << db, expire >>
  BY DEF loadEnd
<1>9. loadTorn /\ torn[f].part # "entry" => UNCHANGED << db, expire >>
  BY <1>4 DEF loadTorn
<1> QED
  BY <1>2, <1>6, <1>7, <1>8, <1>9

(* A load that ends well into a database that was empty has brought back     *)
(* what clients saw when the file was saved, each key with its deadline and  *)
(* none that has passed; from a file that was cut some of the keys, and of   *)
(* one a remnant, or what is told of Misnamed (Db::save, Db::load).          *)
THEOREM LoadsRestore == FileSpec => LoadRestores
<1>1. Inv /\ Edges /\ [FileNext]_allVars =>
        [Loading /\ task.fresh /\ task' = Idle /\ reply' = Ok =>
           LET was == saved[task.file]
               again(k) == Again(was.objs[k])
               over(k, t) == was.ends[k] # None /\ t > was.ends[k]
               returned(k) == /\ seen'[k] \in {Absent, again(k)}
                              /\ seen'[k] # Absent => pending'[k] = was.ends[k]
                              /\ over(k, now) => seen'[k] = Absent
               short(k) == /\ Remnant(seen'[k], was.objs[k])
                           /\ pending'[k] = was.ends[k] /\ ~over(k, now)
               misnamed(k) == \E j \in Keys :
                                /\ k \in NameCuts[j]
                                /\ seen'[k] \in {again(k)} \cup Creations
                                /\ pending'[k] = was.ends[j]
           IN
           /\ was.done =>
                \A k \in Keys : /\ returned(k)
                                /\ ~over(k, now + 1) => seen'[k] = again(k)
           /\ \A k \in Keys : returned(k) \/ short(k) \/ misnamed(k)
           /\ \A j, k \in Keys : returned(j) \/ returned(k) \/ j = k]_allVars
  BY LoadReturns DEF Returned, Short, Misnamed, Over
<1> QED
  BY <1>1, InvHolds, PTL DEF FileSpec, LoadRestores
=============================================================================
