----------------------------- MODULE SdbObject -----------------------------
(***************************************************************************)
(* The typed values a database holds (core/SDBObject.hpp) and what its     *)
(* commands do to one of them.  An object is a record with a type and one  *)
(* payload field per type, as the C++ class is a tag and a union.  Hash    *)
(* tables and skip lists are total functions that return None where the    *)
(* structure has no entry.  An operator returns the object after the call, *)
(* or Unsupported where the code throws SdbException.                      *)
(***************************************************************************)
EXTENDS Integers, Sequences

CONSTANTS
    Vals,       \* words: values, members, hash fields
    Scores,     \* the scores of ordered sets
    Encoded,    \* [Vals -> Vals], the text a word is read back as after set
    Numeric,    \* the words that set stores as a 64-bit integer
    None        \* no entry in a hash, an ordered set or the deadline table

ASSUME EncodedAssumption == Encoded \in [Vals -> Vals]
ASSUME NumericAssumption == Numeric \subseteq Vals
ASSUME NoneAssumption == None \notin Vals \cup Int
-----------------------------------------------------------------------------
(* The types, spelled as getObjType spells them. *)
StringObjects == [type : {"string"}, str : Seq(Vals), enc : {"int", "raw"}]
ListObjects == [type : {"list"}, list : Seq(Vals)]
HashObjects == [type : {"hash"}, dict : [Vals -> Vals \cup {None}]]
SetObjects == [type : {"set"}, uset : SUBSET Vals]
OsetObjects == [type : {"orderedset"}, oset : [Scores -> Vals \cup {None}]]

Objects == StringObjects \cup ListObjects \cup HashObjects \cup SetObjects
             \cup OsetObjects

(* No entry in the map; an entry whose shared_ptr is null; a call that threw. *)
Absent == [type |-> "absent"]
NullPtr == [type |-> "nullptr"]
Unsupported == [type |-> "unsupported"]
-----------------------------------------------------------------------------
(* A string object starts untyped: its first set or append makes it a string. *)
CreateStrObject == [type |-> "null"]
CreateListObject == [type |-> "list", list |-> << >>]
CreateHashObject == [type |-> "hash", dict |-> [f \in Vals |-> None]]
CreateSetObject == [type |-> "set", uset |-> {}]
CreateOSetObject == [type |-> "orderedset", oset |-> [s \in Scores |-> None]]

set(o, v) ==
    IF o.type \in {"string", "null"}
    THEN [type |-> "string", str |-> << Encoded[v] >>,
          enc |-> IF v \in Numeric THEN "int" ELSE "raw"]
    ELSE Unsupported

append(o, v) ==
    IF o.type \in {"string", "null"}
    THEN [type |-> "string", enc |-> "raw",
          str |-> IF o.type = "null" THEN << v >> ELSE Append(o.str, v)]
    ELSE Unsupported

push(o, v) ==
    IF o.type = "list" THEN [o EXCEPT !.list = Append(@, v)] ELSE Unsupported

(* Only for a list that is not empty: on an empty one the code dereferences *)
(* a null node (see doPop).                                                 *)
pop(o) == IF o.type = "list" THEN [o EXCEPT !.list = Tail(@)] ELSE Unsupported

hadd(o, f, v) ==
    IF o.type = "hash" THEN [o EXCEPT !.dict[f] = v] ELSE Unsupported

(* hdel does not look at the type: erasing through a table of another layout *)
(* finds nothing, or ends the process (see doHdel).                          *)
hdel(o, f) == IF o.type = "hash" THEN [o EXCEPT !.dict[f] = None] ELSE o

sadd(o, v) ==
    IF o.type = "set" THEN [o EXCEPT !.uset = @ \cup {v}] ELSE Unsupported

sdel(o, v) ==
    IF o.type = "set" THEN [o EXCEPT !.uset = @ \ {v}] ELSE Unsupported

oadd(o, s, v) ==
    IF o.type = "orderedset" THEN [o EXCEPT !.oset[s] = v] ELSE Unsupported

odel(o, s) ==
    IF o.type = "orderedset" THEN [o EXCEPT !.oset[s] = None] ELSE Unsupported
-----------------------------------------------------------------------------
(* What any command that adds to, or takes from, an object can make of it. *)
Additions(o) ==
    (UNION {{set(o, v), append(o, v), push(o, v), sadd(o, v)} : v \in Vals})
      \cup {hadd(o, f, v) : f \in Vals, v \in Vals}
      \cup {oadd(o, s, v) : s \in Scores, v \in Vals}

Removals(o) ==
    (UNION {{hdel(o, v), sdel(o, v)} : v \in Vals})
      \cup {odel(o, s) : s \in Scores}

Creations == {CreateStrObject, CreateListObject, CreateHashObject,
              CreateSetObject, CreateOSetObject}
-----------------------------------------------------------------------------
(* The replies a client sees, without their formatting.  That of a command   *)
(* that has done its work is empty; the model tells by its kind what it was, *)
(* so that one kind of command is never taken for another.                   *)
Ok == [tag |-> "ok"]
Done(kind) == [tag |-> "done", kind |-> kind]
Null == [tag |-> "null"]
Error == [tag |-> "error"]
Died == [tag |-> "died"]
Quiet == [tag |-> "quiet"]
From(o) == [tag |-> "object", obj |-> o]
Element(v) == [tag |-> "element", val |-> v]

Replies == {Ok, Null, Error, Died, Quiet}
             \cup [tag : {"done"}, kind : {"add", "take", "del", "expire"}]
             \cup [tag : {"object"}, obj : Objects]
             \cup [tag : {"element"}, val : Vals]
=============================================================================
