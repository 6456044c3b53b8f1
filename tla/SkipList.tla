------------------------------ MODULE SkipList ------------------------------
(***************************************************************************)
(* The skip list under ordered sets (core/SkipList.hpp), one step per      *)
(* iteration of its loops over levels and nodes.                           *)
(*                                                                         *)
(* A node is known by its score, which no two nodes share: insert replaces *)
(* the data of a node of equal score.  The null pointer and the head are   *)
(* numbers above and below every score, so that a test "there is a next    *)
(* node and its score is less" is a comparison.  Spans are 32 bits wide in *)
(* the code: what is said of them here holds there modulo 2^32.            *)
(***************************************************************************)
EXTENDS Integers, FiniteSets

CONSTANTS
    Scores,         \* the scores clients use
    Head,           \* the head node, below every score
    Nil,            \* the null pointer, above every score
    Vals, None,     \* the data of nodes, and no data
    MaxLevel,       \* maxLevel, 32 in the code
    InitialLengths  \* what the memory of length, which no constructor sets, may hold

ASSUME ScoresAssumption ==
    /\ Scores \subseteq Int
    /\ Head \in Int /\ Nil \in Int /\ Head < Nil
    /\ \A s \in Scores : Head < s /\ s < Nil
ASSUME MaxLevelAssumption == MaxLevel \in Nat \ {0}
ASSUME InitialLengthsAssumption == InitialLengths \subseteq Nat
ASSUME NoneAssumption == None \notin Vals \cup Int

Levels == 0 .. (MaxLevel - 1)
Places == Scores \cup {Head}

VARIABLES
    nodes,      \* the scores of the nodes in the list
    height,     \* a node's level.size()
    forward,    \* a node's next node, per level
    span,       \* a node's span, per level
    backward,   \* a node's previous node
    data,       \* a node's data
    tail,       \* the last node
    level,      \* the levels in use
    length,     \* the count the list keeps of its nodes
    op,         \* the call under way: "idle", "insert", "del" or "search"
    key, val,   \* its arguments
    node, at,   \* its loop variables: the node reached, and the level i
    update,     \* where it went down, per level
    rank,       \* how many nodes it had passed there
    answer      \* what the last search returned

list == << nodes, height, forward, span, backward, data, tail, level, length >>
locals == << op, key, val, node, at, update, rank >>
vars == << list, locals, answer >>

(* Pointers lead to nodes or nowhere, and level stays between one and the *)
(* most levels a list may have, whatever insert and del do to it.         *)
TypeOK ==
    /\ nodes \subseteq Scores
    /\ height \in [Places -> 0 .. MaxLevel]
    /\ forward \in [Places -> [Levels -> Scores \cup {Nil}]]
    /\ span \in [Places -> [Levels -> Int]]
    /\ backward \in [Scores -> Places \cup {Nil}]
    /\ data \in [Scores -> Vals \cup {None}]
    /\ tail \in Places \cup {Nil}
    /\ level \in 1 .. MaxLevel
    /\ length \in Int
    /\ op \in {"idle", "insert", "del", "search"}
    /\ key \in Scores \cup {None}
    /\ val \in Vals \cup {None}
    /\ node \in Places
    /\ at \in -1 .. (MaxLevel - 1)
    /\ update \in [Levels -> Places \cup {Nil}]
    /\ rank \in [Levels -> Int]
    /\ answer \in Vals \cup {None}

NoUpdate == [l \in Levels |-> Nil]
NoRank == [l \in Levels |-> 0]

Init ==
    /\ nodes = {}
    /\ height = [n \in Places |-> IF n = Head THEN MaxLevel ELSE 0]
    /\ forward = [n \in Places |-> [l \in Levels |-> Nil]]
    /\ span = [n \in Places |-> [l \in Levels |-> 0]]
    /\ backward = [n \in Scores |-> Nil]
    /\ data = [n \in Scores |-> None]
    /\ tail = Nil
    /\ level = 1
    /\ length \in InitialLengths
    /\ op = "idle" /\ key = None /\ val = None
    /\ node = Head /\ at = -1
    /\ update = NoUpdate /\ rank = NoRank
    /\ answer = None
-----------------------------------------------------------------------------
Call(what, s, v, top) ==
    /\ op = "idle"
    /\ op' = what /\ key' = s /\ val' = v
    /\ node' = Head /\ at' = top
    /\ UNCHANGED << list, update, rank, answer >>

Return ==
    /\ op' = "idle" /\ key' = None /\ val' = None
    /\ node' = Head /\ at' = -1
    /\ update' = NoUpdate /\ rank' = NoRank

(* The node the loop looks at next, on the level it is on. *)
Ahead == forward[node][at]

Running(what) == op = what /\ at >= 0
Through(what) == op = what /\ at = -1
-----------------------------------------------------------------------------
(* insert *)
CallInsert(s, v) == Call("insert", s, v, level - 1)

InsertForward ==
    /\ Running("insert")
    /\ Ahead < key
    /\ rank' = [rank EXCEPT ![at] = @ + span[node][at]]
    /\ node' = Ahead
    /\ UNCHANGED << list, op, key, val, at, update, answer >>

(* Bug: the data of the node found is left as it is. *)
replaceKeeps ==
    /\ Running("insert") /\ Ahead = key
    /\ Return
    /\ UNCHANGED << list, answer >>

InsertReplace ==
    /\ Running("insert")
    /\ Ahead = key
    /\ data' = [data EXCEPT ![key] = val]
    /\ Return
    /\ UNCHANGED << nodes, height, forward, span, backward, tail, level, length,
                    answer >>

InsertDown ==
    /\ Running("insert")
    /\ Ahead > key
    /\ update' = [update EXCEPT ![at] = node]
    /\ rank' = [l \in Levels |-> IF l = at - 1 THEN rank[at] ELSE rank[l]]
    /\ at' = at - 1
    /\ UNCHANGED << list, op, key, val, node, answer >>

(* randomLevel draws the height; levels not used before start at the head, *)
(* whose span there is the length of the list.                             *)
newLevelsBehindUpdate(l) == IF l < level THEN update[l] ELSE update[0]  \* bug
Before(l) == IF l < level THEN update[l] ELSE Head
passedNothing(l) == 0   \* bug
Passed(l) == IF l < level THEN rank[l] ELSE 0
Width(l) == IF l < level THEN span[update[l]][l] ELSE length

(* What the node after the one put in, or taken out, and the tail become: *)
(* next is that node and prev the one before it from now on.              *)
Behind(next, prev) == [n \in Scores |-> IF n = next THEN prev ELSE backward[n]]
tailStays(next, prev) == tail   \* bug
TailAfter(next, prev) == IF next = Nil THEN prev ELSE tail

InsertLink(rlevel) ==
    /\ Through("insert")
    /\ nodes' = nodes \cup {key}
    /\ height' = [height EXCEPT ![key] = rlevel]
    /\ data' = [data EXCEPT ![key] = val]
    /\ level' = IF rlevel > level THEN rlevel ELSE level
    /\ forward' = [n \in Places |-> [l \in Levels |->
          IF l < rlevel /\ n = key THEN forward[Before(l)][l]
          ELSE IF l < rlevel /\ n = Before(l) THEN key
          ELSE forward[n][l]]]
    /\ span' = [n \in Places |-> [l \in Levels |->
          IF l < rlevel /\ n = key THEN Width(l) - (rank[0] - Passed(l))
          ELSE IF l < rlevel /\ n = Before(l) THEN rank[0] - Passed(l) + 1
          ELSE IF rlevel <= l /\ l < level /\ n = update[l] THEN span[n][l] + 1
          ELSE span[n][l]]]
    /\ backward' = [Behind(forward[update[0]][0], key) EXCEPT ![key] = update[0]]
    /\ tail' = TailAfter(forward[update[0]][0], key)
    /\ length' = length + 1
    /\ Return
    /\ UNCHANGED answer
-----------------------------------------------------------------------------
(* del *)
CallDel(s) == Call("del", s, None, level - 1)

DelForward ==
    /\ Running("del")
    /\ Ahead < key
    /\ node' = Ahead
    /\ UNCHANGED << list, op, key, val, at, update, rank, answer >>

DelDown ==
    /\ Running("del")
    /\ Ahead >= key
    /\ update' = [update EXCEPT ![at] = node]
    /\ at' = at - 1
    /\ UNCHANGED << list, op, key, val, node, rank, answer >>

DelMiss ==
    /\ Through("del")
    /\ forward[node][0] > key
    /\ Return
    /\ UNCHANGED << list, answer >>

(* The level of the list is not lowered; a list emptied has the head as tail. *)
Unlink ==
    /\ Through("del")
    /\ forward[node][0] <= key
    /\ LET rm == forward[node][0] IN
       /\ nodes' = nodes \ {rm}
       /\ height' = [height EXCEPT ![rm] = 0]
       /\ data' = [data EXCEPT ![rm] = None]
       /\ forward' = [n \in Places |-> [l \in Levels |->
             IF n = rm THEN Nil
             ELSE IF l < height[rm] /\ n = update[l] THEN forward[rm][l]
             ELSE forward[n][l]]]
       /\ span' = [n \in Places |-> [l \in Levels |->
             IF n = rm THEN 0
             ELSE IF l < height[rm] /\ n = update[l]
                  THEN span[n][l] + span[rm][l] - 1
             ELSE IF height[rm] <= l /\ l < level /\ n = update[l]
                  THEN span[n][l] - 1
             ELSE span[n][l]]]
       /\ backward' = [Behind(forward[rm][0], update[0]) EXCEPT ![rm] = Nil]
       /\ tail' = TailAfter(forward[rm][0], update[0])
    /\ length' = length - 1
    /\ Return
    /\ UNCHANGED << level, answer >>
-----------------------------------------------------------------------------
(* search, which starts on the highest level there can be *)
searchFromAbove(s) == Call("search", s, None, MaxLevel)   \* bug: one too high
CallSearch(s) == Call("search", s, None, MaxLevel - 1)

SearchForward ==
    /\ Running("search")
    /\ Ahead < key
    /\ node' = Ahead
    /\ UNCHANGED << list, op, key, val, at, update, rank, answer >>

SearchHit ==
    /\ Running("search")
    /\ Ahead = key
    /\ answer' = data[key]
    /\ Return
    /\ UNCHANGED list

(* Bug: the loop over the levels does not leave level 0. *)
searchStalls ==
    /\ Running("search") /\ Ahead > key
    /\ at' = IF at > 0 THEN at - 1 ELSE 0
    /\ UNCHANGED << list, op, key, val, node, update, rank, answer >>

SearchDown ==
    /\ Running("search")
    /\ Ahead > key
    /\ at' = at - 1
    /\ UNCHANGED << list, op, key, val, node, update, rank, answer >>

SearchMiss ==
    /\ Through("search")
    /\ answer' = None
    /\ Return
    /\ UNCHANGED list
-----------------------------------------------------------------------------
Begin ==
    \E s \in Scores : (\E v \in Vals : CallInsert(s, v)) \/ CallDel(s) \/ CallSearch(s)

Inserting == InsertForward \/ InsertReplace \/ InsertDown
               \/ \E rlevel \in 1 .. MaxLevel : InsertLink(rlevel)
Deleting == DelForward \/ DelDown \/ DelMiss \/ Unlink
Searching == SearchForward \/ SearchHit \/ SearchDown \/ SearchMiss

Step == Inserting \/ Deleting \/ Searching

Next == Begin \/ Step

(* A call, once made, runs to its end: it is an ordinary function call. *)
Spec == Init /\ [][Next]_vars /\ WF_vars(Step)
-----------------------------------------------------------------------------
Linked == nodes \cup {Head}

(* Heights: a node has at least one level and none above the list's; the  *)
(* head has them all.                                                     *)
Heights ==
    /\ height[Head] = MaxLevel
    /\ \A n \in nodes : 1 <= height[n] /\ height[n] <= level

(* On every level a node points at the nearest later node that tall: the  *)
(* levels are sorted, complete sublists of one another.                   *)
Shape ==
    \A n \in Linked, l \in Levels : l < height[n] =>
        LET next == forward[n][l] IN
        /\ next \in nodes \cup {Nil}
        /\ next > n
        /\ next # Nil => l < height[next]
        /\ \A m \in nodes : m > n /\ l < height[m] => next <= m

(* Where a call under way stands: before its key, at a node that has the  *)
(* level it is on, so that no level vector is indexed out of its bounds.  *)
Standing ==
    op # "idle" =>
        /\ key \in Scores
        /\ IF op = "insert" THEN val \in Vals ELSE val = None
        /\ node \in Linked
        /\ node < key
        /\ at < height[node]
        /\ op # "search" => at < level

AtRest == op = "idle" => key = None /\ val = None

(* What insert and del collected: on each level they left, the last node  *)
(* before the key.                                                        *)
Collected ==
    op \in {"insert", "del"} =>
        \A l \in Levels : at < l /\ l < level =>
            /\ update[l] \in Linked
            /\ update[l] < key
            /\ l < height[update[l]]
            /\ forward[update[l]][l] >= key
            /\ op = "insert" => forward[update[l]][l] # key

(* The loops end on the node above which they went down last. *)
AtBottom == op \in {"insert", "del"} /\ at = -1 => update[0] = node

(* On the levels it has left, a search has ruled the key out. *)
RuledOut ==
    op = "search" =>
        \A l \in Levels : at < l => ~ (key \in nodes /\ l < height[key])

DataOK == \A s \in Scores : IF s \in nodes THEN data[s] \in Vals ELSE data[s] = None

(* The shape of the list and what a call under way knows of it: inductive. *)
ListInv ==
    /\ Heights /\ Shape /\ DataOK
    /\ AtRest /\ Standing /\ Collected /\ AtBottom /\ RuledOut

(* The members under each score, whatever a call under way has reached: the  *)
(* list is a map from scores to members, and a call takes effect in one step *)
(* of the many it runs (SkipList::insert, del, search).                      *)
Map == INSTANCE OrderedMap WITH contents <- data, call <- << op, key, val >>

ImplementsOrderedMap == Map!Spec

(* The tail is the last node of level 0, and the node after any other points  *)
(* back to it: walking the list backwards from the tail meets every node.     *)
(* What the first node points back to is left open: the comments of insert    *)
(* (SkipList.hpp:278) and del (:323) say a null pointer, the code writes the  *)
(* head, since update[0] is never null, and the model does as the code does   *)
(* (InsertLink, Unlink).                                                      *)
BackwardMirrors ==
    op = "idle" =>
        /\ \A n \in nodes : forward[n][0] # Nil => backward[forward[n][0]] = n
        /\ nodes # {} => tail \in nodes /\ forward[tail][0] = Nil

(* A span counts the nodes from one node to the next of its level, and on   *)
(* the end of a level those left, so that the spans passed on the way to a  *)
(* node add up to its rank; so they do in rank, while insert descends.      *)
(* Above level 0 what lies beyond the last node is off by what length was   *)
(* off from the start.                                                      *)
RankOf(n) == Cardinality({m \in nodes : m <= n})
Spans ==
    /\ op = "idle" =>
        \A n \in Linked, l \in 0 .. (level - 1) : l < height[n] =>
            span[n][l] =
                (IF forward[n][l] # Nil THEN RankOf(forward[n][l])
                 ELSE IF l = 0 THEN Cardinality(nodes) ELSE length) - RankOf(n)
    /\ op = "insert" /\ at >= 0 => rank[at] = RankOf(node)

(* Every call returns: the loops cannot circle or stall. *)
CallsReturn == op # "idle" ~> op = "idle"
=============================================================================
