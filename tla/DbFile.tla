------------------------------- MODULE DbFile -------------------------------
(***************************************************************************)
(* A database and its files: Db::save and Db::load (core/Db.hpp) on top of *)
(* the commands of Db, the process being killed at any moment, and started *)
(* again with an empty memory.  Save and load take one step per key: the   *)
(* clock moves and the process dies between two keys, but no other command *)
(* runs, for the server runs commands one by one.                          *)
(*                                                                         *)
(* A file is its sequence of entries and what is left of one more, for the *)
(* stream that writes it is flushed when its buffer is full and a process  *)
(* that dies leaves a file cut anywhere.  load reads as far as it can.     *)
(* Names and words are not put together letter by letter: what a cut can   *)
(* leave of each is given by constants.                                    *)
(***************************************************************************)
EXTENDS Db

CONSTANTS
    Files,          \* the names of files
    SaveNames,      \* the names save is given
    FileOf,         \* [SaveNames -> Files], the name with ".sdb" at its end
    Reread,         \* [Texts -> Texts], what set makes of the text of a raw string
    Numerals,       \* the texts it stores as integers
    Surplus,        \* whether the length of an emptied ordered set may be too high
    EmptyWord,      \* the word that is read where a file has ended
    WordCuts,       \* [Vals -> SUBSET Vals], what a word cut short is read as
    NumberCuts,     \* [Texts -> SUBSET Texts], the same of the text of an integer
    NameCuts        \* [Keys -> SUBSET Keys], the keys that a key cut short is read as

Texts == UNION {[1 .. n -> Vals] : n \in 1 .. MaxLen}

ASSUME MaxLenAssumption == MaxLen \in Nat \ {0}
ASSUME FileOfAssumption == FileOf \in [SaveNames -> Files]
ASSUME RereadAssumption ==
    /\ Reread \in [Texts -> Texts]
    /\ \A v \in Vals : Reread[<< v >>] = << Encoded[v] >>
    /\ Numerals \subseteq Texts
ASSUME SurplusAssumption == Surplus \subseteq BOOLEAN
ASSUME CutsAssumption ==
    /\ EmptyWord \in Vals
    /\ WordCuts \in [Vals -> SUBSET Vals]
    /\ NumberCuts \in [Texts -> SUBSET Texts]
    /\ NameCuts \in [Keys -> SUBSET Keys]

VARIABLES
    disk,       \* what is on the disk under each name
    torn,       \* the part of one more entry that follows those of a file
    task,       \* the save or load under way
    saved       \* history: what clients saw when the last save of a file began

fileVars == << disk, torn, task, saved >>
allVars == << vars, fileVars >>

NoFile == [kind |-> "none"]
Headless == [kind |-> "headless"]
Snapshot(entries) == [kind |-> "sdb", entries |-> entries]

Idle == [kind |-> "idle"]
Saving == task.kind = "save"
Loading == task.kind = "load"

Never == [done |-> FALSE]

Entries == [key : Keys, etime : Int \cup {None}, obj : Objects, surplus : BOOLEAN]

(* What is left of a cut entry: no type, after the byte that announces a     *)
(* deadline; a type without any of the name; or the entry of a name, maybe   *)
(* cut, with a part of the object, for a string maybe none.                  *)
Whole == [part |-> "whole"]
Untyped == [part |-> "untyped"]
Nameless == [part |-> "nameless"]
Left(k, etime, o) ==
    [part |-> "entry",
     entry |-> [key |-> k, etime |-> etime, obj |-> o, surplus |-> FALSE]]

LeftEntries == [key : Keys, etime : Int \cup {None},
                obj : Objects \cup {CreateStrObject}, surplus : {FALSE}]

(* A file is missing, without a header, or a header and entries; while a     *)
(* save writes, the file it truncated has its header and nothing is cut.     *)
FileTypeOK ==
    /\ TypeOK
    /\ \A f \in Files :
         /\ \/ disk[f] \in {NoFile, Headless} /\ torn[f] = Whole
            \/ disk[f].kind = "sdb" /\ disk[f].entries \in Seq(Entries)
         /\ \/ torn[f] \in {Whole, Untyped, Nameless}
            \/ torn[f].part = "entry" /\ torn[f].entry \in LeftEntries
    /\ \/ task = Idle
       \/ /\ task \in [kind : {"save"}, file : Files, opened : BOOLEAN,
                       left : SUBSET Keys]
          /\ task.opened => disk[task.file].kind = "sdb" /\ torn[task.file] = Whole
       \/ /\ Loading /\ task.rest \in Seq(Entries)
          /\ task.file \in Files /\ task.fresh \in BOOLEAN

FileInit ==
    /\ Init
    /\ disk = [f \in Files |-> NoFile]
    /\ torn = [f \in Files |-> Whole]
    /\ task = Idle
    /\ saved = [f \in Files |-> Never]
-----------------------------------------------------------------------------
(* Bug: the file keeps what it had. *)
savesBehind(n) ==
    /\ task = Idle
    /\ Serve("save")
    /\ task' = [kind |-> "save", file |-> FileOf[n], opened |-> TRUE,
                left |-> {k \in Keys : db[k] # Absent}]
    /\ disk' = [disk EXCEPT ![FileOf[n]] =
                  IF @.kind = "sdb" THEN @ ELSE Snapshot(<< >>)]
    /\ torn' = [torn EXCEPT ![FileOf[n]] = Whole]
    /\ saved' = [saved EXCEPT ![FileOf[n]] =
                   [objs |-> seen, ends |-> pending, done |-> FALSE]]
    /\ reply' = Quiet
    /\ UNCHANGED << db, expire, now, up >>

(* Save: the file is emptied first.  If it cannot be opened nothing is       *)
(* written, and nobody notices.                                              *)
doSave(n) ==
    /\ task = Idle
    /\ Serve("save")
    /\ \E opened \in BOOLEAN :
         /\ task' = [kind |-> "save", file |-> FileOf[n], opened |-> opened,
                     left |-> {k \in Keys : db[k] # Absent}]
         /\ disk' = IF opened THEN [disk EXCEPT ![FileOf[n]] = Snapshot(<< >>)]
                              ELSE disk
         /\ torn' = IF opened THEN [torn EXCEPT ![FileOf[n]] = Whole] ELSE torn
         /\ saved' = IF opened
                     THEN [saved EXCEPT ![FileOf[n]] =
                             [objs |-> seen, ends |-> pending, done |-> FALSE]]
                     ELSE saved
    /\ reply' = Quiet
    /\ UNCHANGED << db, expire, now, up >>

(* Writing through a null pointer ends the process, as does writing the score *)
(* of a member: toString returns a reference to a string that is gone.        *)
Unsavable(o) ==
    o = NullPtr \/ (o.type = "orderedset" /\ \E s \in Scores : o.oset[s] # None)

Collect(k) ==
    /\ db' = [db EXCEPT ![k] = Absent]
    /\ expire' = [expire EXCEPT ![k] = None]
    /\ UNCHANGED << now, up, reply, disk, torn, saved >>

(* Bugs: any deadline counts as passed; the key behind is passed over. *)
savesOnlyEndless(k) ==
    /\ Saving /\ k \in task.left
    /\ expire[k] # None
    /\ Collect(k)
    /\ task' = [task EXCEPT !.left = @ \ {k}]
skipsNext(k) ==
    /\ Saving /\ k \in task.left
    /\ Expired(k)
    /\ Collect(k)
    /\ \E j \in task.left : task' = [task EXCEPT !.left = @ \ {k, j}]

(* An expired key is collected on the way, with its deadline. *)
saveExpired(k) ==
    /\ Saving /\ k \in task.left
    /\ Expired(k)
    /\ Collect(k)
    /\ task' = [task EXCEPT !.left = @ \ {k}]

saveKey(k) ==
    /\ Saving /\ k \in task.left
    /\ ~Expired(k) /\ ~Unsavable(db[k])
    /\ task' = [task EXCEPT !.left = @ \ {k}]
    /\ \E surplus \in IF db[k].type = "orderedset" THEN Surplus ELSE {FALSE} :
         disk' = IF task.opened
                 THEN [disk EXCEPT ![task.file].entries = Append(@,
                         [key |-> k, etime |-> expire[k], obj |-> db[k],
                          surplus |-> surplus])]
                 ELSE disk
    /\ UNCHANGED << vars, torn, saved >>

saveEnd ==
    /\ Saving /\ task.left = {}
    /\ task' = Idle
    /\ saved' = IF task.opened THEN [saved EXCEPT ![task.file].done = TRUE] ELSE saved
    /\ reply' = Ok
    /\ UNCHANGED << db, expire, now, up, disk, torn >>

Blank == [string |-> CreateStrObject, list |-> CreateListObject,
          hash |-> CreateHashObject, set |-> CreateSetObject,
          orderedset |-> CreateOSetObject]

(* Words in a row of which the last is cut. *)
Cuts(words) ==
    UNION {{Append(SubSeq(words, 1, i - 1), c) : c \in WordCuts[words[i]]} :
             i \in DOMAIN words}

(* Of a hash the fields in S are left, and g, read with the word w. *)
Kept(dict, S) == [f \in Vals |-> IF f \in S THEN dict[f] ELSE None]
FieldCuts(dict, S, f) ==
    {[Kept(dict, S) EXCEPT ![f] = w] : w \in WordCuts[dict[f]]}
      \cup {[Kept(dict, S) EXCEPT ![g] = EmptyWord] : g \in WordCuts[f]}

(* What a part of a saved object is read as.  Hash tables are written in any *)
(* order, and of an ordered set nothing but its length.                      *)
ObjectCuts(o) ==
    CASE o.type = "string" -> {[o EXCEPT !.str = s] :
                                 s \in IF o.enc = "int" THEN NumberCuts[o.str]
                                                        ELSE Cuts(o.str)}
      [] o.type = "list" -> {[o EXCEPT !.list = s] :
                               s \in {SubSeq(o.list, 1, n) : n \in 0 .. Len(o.list)}
                                       \cup Cuts(o.list)}
      [] o.type = "hash" -> LET fields == {f \in Vals : o.dict[f] # None} IN
                            {[o EXCEPT !.dict = d] :
                               d \in UNION {{Kept(o.dict, S)}
                                              \cup UNION {FieldCuts(o.dict, S, f) :
                                                            f \in fields \ S} :
                                            S \in SUBSET fields}}
      [] o.type = "set" -> {[o EXCEPT !.uset = U] :
                              U \in UNION {{S} \cup {S \cup {c} : c \in
                                               UNION {WordCuts[m] : m \in o.uset \ S}} :
                                           S \in SUBSET o.uset}}
      [] o.type = "orderedset" -> {CreateOSetObject}

(* What can be left of the entry of k, a null object having no type to write. *)
Parts(k, etime, o) ==
    (IF etime = None THEN {} ELSE {Untyped})
      \cup IF o.type \notin AnyType THEN {}
           ELSE {Nameless}
                  \cup {Left(j, etime, Blank[o.type]) : j \in {k} \cup NameCuts[k]}
                  \cup {Left(k, etime, p) : p \in ObjectCuts(o)}

(* A process that dies loses what it had not flushed to the file, the entry  *)
(* of the key at which it died with the rest.                                *)
LoseUnflushed(dying) ==
    /\ task' = Idle
    /\ IF Saving /\ task.opened
       THEN \/ disk' = [disk EXCEPT ![task.file] = Headless] /\ UNCHANGED torn
            \/ LET entries == disk[task.file].entries IN
               \E n \in 0 .. Len(entries) :
                 /\ disk' = [disk EXCEPT ![task.file].entries = SubSeq(@, 1, n)]
                 /\ \E part \in {Whole} \cup
                        IF n < Len(entries)
                        THEN Parts(entries[n + 1].key, entries[n + 1].etime,
                                   entries[n + 1].obj)
                        ELSE UNION {Parts(k, expire[k], db[k]) : k \in dying} :
                      torn' = [torn EXCEPT ![task.file] = part]
       ELSE UNCHANGED << disk, torn >>

saveDies(k) ==
    /\ Saving /\ k \in task.left
    /\ ~Expired(k) /\ Unsavable(db[k])
    /\ Crash
    /\ LoseUnflushed({k})
    /\ UNCHANGED saved
-----------------------------------------------------------------------------
(* Bound: loading the file makes no list longer than the longest. *)
Fits(f) ==
    LET fits(e) == e.obj.type = "list" /\ db[e.key].type = "list" =>
                       Len(e.obj.list) + Len(db[e.key].list) <= MaxLen
    IN
    disk[f].kind = "sdb" =>
        /\ \A i \in DOMAIN disk[f].entries : fits(disk[f].entries[i])
        /\ torn[f].part = "entry" => fits(torn[f].entry)

doLoad(f) ==
    /\ task = Idle
    /\ Serve("load")
    /\ Fits(f)
    /\ IF disk[f].kind # "sdb"
       THEN task' = Idle /\ reply' = Error
       ELSE /\ task' = [kind |-> "load", file |-> f, rest |-> disk[f].entries,
                        fresh |-> \A k \in Keys : db[k] = Absent /\ expire[k] = None]
            /\ reply' = Quiet
    /\ UNCHANGED << db, expire, now, up, disk, torn, saved >>

(* What set makes of a saved string, as set(long) or set(std::string&&). *)
Respelled(p) ==
    IF p.enc = "int" THEN p
    ELSE [type |-> "string", str |-> Reread[p.str],
          enc |-> IF p.str \in Numerals THEN "int" ELSE "raw"]

(* What a load into nothing makes of an object that was saved. *)
Again(o) == IF o.type = "string" THEN Respelled(o) ELSE o

elementsReplaced(o, p) == p     \* bug
Merged(o, p) ==
    CASE p.type = "list" -> [o EXCEPT !.list = @ \o p.list]
      [] p.type = "hash" -> [o EXCEPT !.dict =
                               [f \in Vals |-> IF p.dict[f] # None THEN p.dict[f]
                                                                   ELSE @[f]]]
      [] p.type = "set" -> [o EXCEPT !.uset = @ \cup p.uset]

(* A string is overwritten; anything else is added, element by element, to   *)
(* what is there: an empty saved object adds nothing, whatever is there.     *)
Refilled(o, p) ==
    IF p.type = "string"
    THEN IF o.type \in {"string", "null"} THEN Respelled(p) ELSE Unsupported
    ELSE IF p \in Creations THEN o
    ELSE IF o.type = p.type THEN Merged(o, p) ELSE Unsupported

Next1 == Head(task.rest)
Live(e) == IF e.etime = None THEN TRUE ELSE now < e.etime
Base(e) == IF db[e.key] \in {Absent, NullPtr} THEN Blank[e.obj.type] ELSE db[e.key]

(* Bugs: the deadline is lost; the deadline replaces the one that is there. *)
deadlineLost(e) == UNCHANGED expire
deadlineReplaced(e) ==
    expire' = IF Live(e) THEN [expire EXCEPT ![e.key] = e.etime] ELSE expire

(* The deadline is inserted before the value is read, and never replaced. *)
InsertDeadline(e) ==
    expire' = IF Live(e) /\ e.etime # None /\ expire[e.key] = None
              THEN [expire EXCEPT ![e.key] = e.etime] ELSE expire

(* What reading an entry does to the tables: the object is filled in; one     *)
(* that has expired is skipped, and unless it is a string whatever the        *)
(* database has under its key is erased; or the key has another type.         *)
Takes(e) ==
    /\ Live(e)
    /\ Refilled(Base(e), e.obj) # Unsupported
    /\ InsertDeadline(e)
    /\ db' = [db EXCEPT ![e.key] = Refilled(Base(e), e.obj)]

Skips(e) ==
    /\ ~Live(e)
    /\ db' = IF e.obj.type = "string" THEN db ELSE [db EXCEPT ![e.key] = Absent]
    /\ UNCHANGED expire

Refuses(e) ==
    /\ Live(e)
    /\ Refilled(Base(e), e.obj) = Unsupported
    /\ InsertDeadline(e)
    /\ UNCHANGED db

(* The length of an ordered set makes the loop read on into what follows,   *)
(* whose first byte is no integer encoding.                                 *)
Derails ==
    Next1.surplus /\ (Tail(task.rest) # << >> \/ torn[task.file] # Whole)

Reading == Loading /\ task.rest # << >>

loadKey ==
    /\ Reading /\ ~Derails
    /\ Takes(Next1)
    /\ task' = [task EXCEPT !.rest = Tail(@)]
    /\ UNCHANGED << now, up, reply, disk, torn, saved >>

(* Bugs: an expired key ends the load; an expired key is never passed. *)
stopsAtExpired ==
    /\ Reading /\ ~Derails
    /\ ~Live(Next1)
    /\ task' = [task EXCEPT !.rest = << >>]
    /\ UNCHANGED << vars, disk, torn, saved >>
rereadsExpired == Reading /\ ~Live(Next1) /\ UNCHANGED allVars

loadExpired ==
    /\ Reading /\ ~Derails
    /\ Skips(Next1)
    /\ task' = [task EXCEPT !.rest = Tail(@)]
    /\ UNCHANGED << now, up, reply, disk, torn, saved >>

(* The key has another type, or the file has been read past its place. *)
loadFails ==
    /\ Reading
    /\ \/ ~Derails /\ Refuses(Next1)
       \/ /\ Derails
          /\ InsertDeadline(Next1)
          /\ db' = [db EXCEPT ![Next1.key] =
                      IF Live(Next1) THEN Base(Next1)
                      ELSE IF @ = Absent THEN NullPtr ELSE @]
    /\ task' = Idle
    /\ reply' = Error
    /\ UNCHANGED << now, up, disk, torn, saved >>

(* What is left of a last entry is read as if it were all there was of it,   *)
(* and the load ends well: an object that ends early is short, a string      *)
(* without a value leaves its deadline.  Only an entry without a type is no  *)
(* entry; that of the empty key, which no command can name, is left out.     *)
loadTorn ==
    /\ Loading /\ task.rest = << >>
    /\ task' = Idle
    /\ \/ torn[task.file] = Untyped /\ reply' = Error /\ UNCHANGED << db, expire >>
       \/ torn[task.file] = Nameless /\ reply' = Ok /\ UNCHANGED << db, expire >>
       \/ /\ torn[task.file].part = "entry"
          /\ LET e == torn[task.file].entry IN
             IF e.obj = CreateStrObject
             THEN InsertDeadline(e) /\ reply' = Ok /\ UNCHANGED db
             ELSE \/ Takes(e) /\ reply' = Ok
                  \/ Skips(e) /\ reply' = Ok
                  \/ Refuses(e) /\ reply' = Error
    /\ UNCHANGED << now, up, disk, torn, saved >>

loadEnd ==
    /\ Loading /\ task.rest = << >> /\ torn[task.file] = Whole
    /\ task' = Idle
    /\ reply' = Ok
    /\ UNCHANGED << db, expire, now, up, disk, torn, saved >>
-----------------------------------------------------------------------------
(* Any other command, while no file is being written or read. *)
Between == task = Idle /\ Next /\ UNCHANGED fileVars

Wait == task # Idle /\ Tick /\ UNCHANGED fileVars

Kill ==
    /\ up
    /\ db' = [k \in Keys |-> Absent]
    /\ expire' = [k \in Keys |-> None]
    /\ up' = FALSE
    /\ reply' = Quiet
    /\ LoseUnflushed({})
    /\ UNCHANGED << now, saved >>

Work ==
    \/ \E k \in Keys : saveExpired(k) \/ saveKey(k) \/ saveDies(k)
    \/ saveEnd
    \/ loadKey \/ loadExpired \/ loadFails \/ loadTorn \/ loadEnd

FileNext ==
    \/ Between
    \/ \E n \in SaveNames : doSave(n)
    \/ \E f \in Files : doLoad(f)
    \/ Work
    \/ Wait
    \/ Kill

FileSpec == FileInit /\ [][FileNext]_allVars /\ WF_allVars(Work)
-----------------------------------------------------------------------------
SameClock == up' /\ now' = now

(* A file is a snapshot of one moment, what clients saw when its save began: *)
(* each entry is the object and the deadline of its key then, no key is there *)
(* twice, and once the save is done no key is missing but those that have    *)
(* expired.  A save cut short by the end of the process leaves some of the   *)
(* entries and a part of at most one more.                                   *)
FileMatches ==
    \A f \in Files : disk[f].kind = "sdb" =>
        LET entries == disk[f].entries
            was == saved[f]
            there(k) == \E i \in DOMAIN entries : entries[i].key = k
        IN
        /\ \A i, j \in DOMAIN entries : entries[i].key = entries[j].key => i = j
        /\ \A i \in DOMAIN entries :
             /\ entries[i].obj = was.objs[entries[i].key]
             /\ entries[i].etime = was.ends[entries[i].key]
        /\ was.done =>
             \A k \in Keys : \/ there(k)
                             \/ was.objs[k] = Absent
                             \/ was.ends[k] # None /\ now > was.ends[k]
        /\ torn[f] # Whole =>
             /\ ~was.done
             /\ \E k \in Keys : /\ ~there(k)
                               /\ torn[f] \in Parts(k, was.ends[k], was.objs[k])

(* Both: files and the task at hand are typed, and the files are snapshots. *)
FileInv == FileTypeOK /\ FileMatches

(* Saving cannot be seen: it collects what has expired and changes nothing   *)
(* that clients see, while the process lives and the clock stands.           *)
SaveUnseen ==
    [][Saving /\ SameClock => seen' = seen /\ pending' = pending]_allVars

(* What clients saw of an object, short: a string with any text; a list      *)
(* without its last elements, the last of those that are left maybe altered; *)
(* a hash or a set without some of what it had, one of the rest altered.     *)
Remnant(p, o) ==
    /\ p.type = o.type
    /\ o.type = "list" =>
         /\ Len(p.list) <= Len(o.list)
         /\ \A i \in 1 .. Len(p.list) - 1 : p.list[i] = o.list[i]
    /\ o.type = "set" => \A m, n \in p.uset \ o.uset : m = n
    /\ o.type = "hash" =>
         \A f, g \in {h \in Vals : p.dict[h] \notin {None, o.dict[h]}} : f = g
    /\ o.type = "orderedset" => p = CreateOSetObject

(* A load that ends well into an empty database, from a file whose save was  *)
(* done, brings back what clients saw when it began, each key with its       *)
(* deadline and without what has expired; strings come back as set spells    *)
(* them.  From a save cut short it brings back some of the keys, and nothing *)
(* else but for one: of that a remnant comes back, or an empty object or a   *)
(* deadline in the name of a key whose name was cut.                         *)
LoadRestores ==
    [][Loading /\ task.fresh /\ task' = Idle /\ reply' = Ok =>
         LET was == saved[task.file]
             again(k) == Again(was.objs[k])
             over(k, t) == was.ends[k] # None /\ t > was.ends[k]
             returned(k) == /\ seen'[k] \in {Absent, again(k)}
                            /\ seen'[k] # Absent => pending'[k] = was.ends[k]
                            /\ over(k, now) => seen'[k] = Absent
             short(k) == /\ Remnant(seen'[k], was.objs[k])
                         /\ pending'[k] = was.ends[k] /\ ~over(k, now)
             misnamed(k) == \E j \in Keys :
                              /\ k \in NameCuts[j]
                              /\ seen'[k] \in {again(k)} \cup Creations
                              /\ pending'[k] = was.ends[j]
         IN
         /\ was.done =>
              \A k \in Keys : /\ returned(k)
                              /\ ~over(k, now + 1) => seen'[k] = again(k)
         /\ \A k \in Keys : returned(k) \/ short(k) \/ misnamed(k)
         /\ \A j, k \in Keys : returned(j) \/ returned(k) \/ j = k]_allVars

(* The entry, or what is left of one, that the next step of a load reads. *)
AtHand ==
    IF task.rest # << >> THEN {Next1}
    ELSE IF torn[task.file].part = "entry" THEN {torn[task.file].entry} ELSE {}

(* A load into a database in use puts off no end and lifts none: a deadline  *)
(* that it gives is that of an entry of that name, given to a key without    *)
(* one.  It takes a key out only for an entry of that name that has expired  *)
(* and is no string's, although it should pass over it (Db.hpp:297).  It     *)
(* changes the type of no other key and takes no element, member or field    *)
(* out of it; texts of strings and values of fields are overwritten.         *)
LoadOnlyAdds ==
    [][Loading /\ SameClock => \A k \in Keys :
         LET o == seen[k]
             p == seen'[k]
         IN
         /\ \/ pending'[k] = pending[k]
            \/ /\ pending[k] = None
               /\ \E e \in AtHand : e.key = k /\ Live(e) /\ pending'[k] = e.etime
         /\ o # Absent /\ p = Absent =>
              \E e \in AtHand : e.key = k /\ ~Live(e) /\ e.obj.type # "string"
         /\ o # Absent /\ p # Absent =>
              /\ p.type = o.type
              /\ o.type = "list" => SubSeq(p.list, 1, Len(o.list)) = o.list
              /\ o.type = "set" => o.uset \subseteq p.uset
              /\ o.type = "hash" => \A f \in Vals : o.dict[f] # None => p.dict[f] # None
              /\ o.type = "orderedset" => p = o]_allVars

(* Every save and every load ends, whatever the database holds. *)
FilesEnd == task # Idle ~> task = Idle

(* README.md:52: save stores the contents of the current database in the     *)
(* given file.  So a save that could open its file and that nobody kills has  *)
(* an entry there for every key with something in it.  Violated: with the     *)
(* score of an ordered set's first member the process dies, and the file it   *)
(* had emptied lacks that key.                                                *)
SaveStores ==
    [][Saving /\ task.opened /\ task' = Idle /\ reply' \in {Ok, Died} =>
         /\ disk'[task.file].kind = "sdb"
         /\ \A k \in Keys : seen[k] # Absent =>
              \E i \in DOMAIN disk'[task.file].entries :
                  disk'[task.file].entries[i].key = k]_allVars
=============================================================================
