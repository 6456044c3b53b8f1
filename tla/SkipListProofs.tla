--------------------------- MODULE SkipListProofs ---------------------------
(***************************************************************************)
(* For every set of scores and every number of levels: the skip list keeps *)
(* its shape, a call under way knows where it stands, and the list is a    *)
(* map from scores to data.                                                *)
(***************************************************************************)
EXTENDS SkipList, FiniteSetTheorems, TLAPS

Inv == TypeOK /\ ListInv

LEMMA Domains ==
    /\ Levels = 0 .. (MaxLevel - 1)
    /\ 0 \in Levels
    /\ \A l \in Levels : l \in Int /\ 0 <= l /\ l < MaxLevel
    /\ Head \notin Scores /\ Nil \notin Places /\ Head \in Places
    /\ \A n \in Places \cup {Nil} : n \in Int
    /\ Scores \subseteq Places
    /\ None \notin Places \cup {Nil}
<1>1. \A s \in Scores : s \in Int /\ Head < s /\ s < Nil
  BY ScoresAssumption
<1>2. Head \in Int /\ Nil \in Int /\ Head < Nil
  BY ScoresAssumption
<1>3. Head \notin Scores /\ Nil \notin Places /\ Head \in Places
  BY <1>1, <1>2 DEF Places
<1>4. \A n \in Places \cup {Nil} : n \in Int
  BY <1>1, <1>2 DEF Places
<1>5. None \notin Places \cup {Nil}
  BY <1>4, NoneAssumption
<1>6. /\ 0 \in Levels
      /\ \A l \in Levels : l \in Int /\ 0 <= l /\ l < MaxLevel
  BY MaxLevelAssumption DEF Levels
<1> QED
  BY <1>3, <1>4, <1>5, <1>6 DEF Levels, Places

LEMMA InitInv == Init => Inv
<1> SUFFICES ASSUME Init PROVE Inv
  OBVIOUS
<1>1. TypeOK
  BY Domains, MaxLevelAssumption, InitialLengthsAssumption
  DEF Init, TypeOK, NoUpdate, NoRank, Places
<1>2. Heights /\ DataOK
  BY Domains DEF Init, Heights, DataOK
<1>3. Shape
  BY Domains, ScoresAssumption DEF Init, Shape, Linked
<1> QED
  BY <1>1, <1>2, <1>3
  DEF Inv, ListInv, Init, AtRest, Standing, Collected, AtBottom, RuledOut

(* A call under way looks at a node beyond the one it has reached, or at *)
(* the end of the level.                                                 *)
LEMMA LookAhead ==
    ASSUME Inv, op # "idle", at >= 0
    PROVE  /\ at \in Levels
           /\ Ahead \in nodes \cup {Nil}
           /\ Ahead \in Int /\ key \in Int
           /\ Ahead > node
           /\ Ahead # Nil => at < height[Ahead]
           /\ Ahead < key => Ahead \in nodes /\ Ahead \in Places
           /\ Ahead = key => key \in nodes
           /\ \A m \in nodes : m > node /\ at < height[m] => Ahead <= m
<1>1. at \in Levels
  BY Domains DEF Inv, TypeOK
<1>2. key \in Scores /\ node \in Linked /\ at < height[node]
  BY DEF Inv, ListInv, Standing
<1>3. /\ Ahead \in nodes \cup {Nil}
      /\ Ahead > node
      /\ Ahead # Nil => at < height[Ahead]
      /\ \A m \in nodes : m > node /\ at < height[m] => Ahead <= m
  BY <1>1, <1>2 DEF Inv, ListInv, Shape, Ahead
<1> QED
  BY <1>1, <1>2, <1>3, Domains, ScoresAssumption DEF Inv, TypeOK
-----------------------------------------------------------------------------
(* The list itself has its shape; a step that leaves the list alone keeps it. *)
ListShape == Heights /\ Shape /\ DataOK

LEMMA ShapeUnchanged ==
    ASSUME ListShape, UNCHANGED list
    PROVE  ListShape'
BY DEF ListShape, Heights, Shape, DataOK, Linked, list

(* When a call returns nothing is left to know about it. *)
LEMMA ReturnInv ==
    ASSUME Return, ListShape'
    PROVE  ListInv'
BY DEF Return, ListShape, ListInv, AtRest, Standing, Collected, AtBottom, RuledOut

LEMMA BehindTyped ==
    ASSUME Inv, NEW next, NEW prev \in Places,
           NEW n \in Scores, NEW prevOfN \in Places \cup {Nil}
    PROVE  /\ [Behind(next, prev) EXCEPT ![n] = prevOfN]
                \in [Scores -> Places \cup {Nil}]
           /\ TailAfter(next, prev) \in Places \cup {Nil}
<1>1. Behind(next, prev) \in [Scores -> Places \cup {Nil}]
  BY DEF Behind, Inv, TypeOK
<1> QED
  BY <1>1 DEF TailAfter, Inv, TypeOK

LEMMA ReturnTyped ==
    ASSUME Return
    PROVE  /\ op' \in {"idle", "insert", "del", "search"}
           /\ key' \in Scores \cup {None} /\ val' \in Vals \cup {None}
           /\ node' \in Places /\ at' \in -1 .. (MaxLevel - 1)
           /\ update' \in [Levels -> Places \cup {Nil}]
           /\ rank' \in [Levels -> Int]
BY MaxLevelAssumption DEF Return, NoUpdate, NoRank, Places

(* A call starts at the head, on a level of the list. *)
LEMMA CallInv ==
    ASSUME Inv, NEW what \in {"insert", "del", "search"}, NEW s \in Scores,
           NEW v, what = "insert" => v \in Vals, what # "insert" => v = None,
           NEW top \in Levels,
           what # "search" => top = level - 1,
           what = "search" => top = MaxLevel - 1,
           Call(what, s, v, top)
    PROVE  Inv'
<1>1. top \in -1 .. (MaxLevel - 1)
  BY Domains
<1>2. TypeOK'
  BY <1>1, Domains DEF Inv, TypeOK, Call, list
<1>3. ListShape'
  BY ShapeUnchanged DEF Inv, ListInv, ListShape, Call
<1>4. Standing'
  <2>1. Head < s /\ Head \in Linked /\ height[Head] = MaxLevel
    BY ScoresAssumption DEF Inv, ListInv, Heights, Linked
  <2>2. top < MaxLevel /\ (what # "search" => top < level)
    BY Domains DEF Inv, TypeOK
  <2> QED
    BY <2>1, <2>2 DEF Standing, Call, Linked, list
<1>5. Collected'
  <2>1. what # "search" => ~ \E l \in Levels : top < l /\ l < level
    BY Domains DEF Inv, TypeOK
  <2> QED
    BY <2>1 DEF Collected, Call, list
<1>6. AtBottom'
  BY Domains DEF AtBottom, Call
<1>7. RuledOut'
  BY Domains DEF RuledOut, Call
<1>8. AtRest'
  BY DEF AtRest, Call
<1> QED
  BY <1>2, <1>3, <1>4, <1>5, <1>6, <1>7, <1>8 DEF Inv, ListInv, ListShape

(* Going forward keeps the call before its key, on its level. *)
LEMMA ForwardInv ==
    ASSUME Inv, op # "idle", at >= 0, Ahead < key,
           node' = Ahead, rank' \in [Levels -> Int],
           UNCHANGED << list, op, key, val, at, update, answer >>
    PROVE  Inv'
<1>1. TypeOK'
  BY LookAhead DEF Inv, TypeOK, list
<1>2. ListShape'
  BY ShapeUnchanged DEF Inv, ListInv, ListShape
<1>3. Standing'
  BY LookAhead, Domains DEF Inv, ListInv, Standing, Linked, list
<1>4. Collected'
  BY DEF Inv, ListInv, Collected, Linked, list
<1>5. AtRest' /\ AtBottom' /\ RuledOut'
  BY DEF AtRest, Inv, ListInv, TypeOK, AtBottom, RuledOut, list
<1> QED
  BY <1>1, <1>2, <1>3, <1>4, <1>5 DEF Inv, ListInv, ListShape

(* Going down, insert and del remember where. *)
LEMMA DownInv ==
    ASSUME Inv, op \in {"insert", "del"}, at >= 0, Ahead >= key,
           op = "insert" => Ahead # key,
           update' = [update EXCEPT ![at] = node], at' = at - 1,
           rank' \in [Levels -> Int],
           UNCHANGED << list, op, key, val, node, answer >>
    PROVE  Inv'
<1>1. at \in Levels /\ Ahead \in Int /\ key \in Int
  BY LookAhead
<1>2. TypeOK'
  <2>1. at - 1 \in -1 .. (MaxLevel - 1)
    BY <1>1, Domains, MaxLevelAssumption
  <2>2. update' \in [Levels -> Places \cup {Nil}]
    BY <1>1 DEF Inv, TypeOK
  <2> QED
    BY <2>1, <2>2 DEF Inv, TypeOK, list
<1>3. ListShape'
  BY ShapeUnchanged DEF Inv, ListInv, ListShape
<1>4. Standing'
  <2>1. height[node] \in Int /\ level \in Int
    BY DEF Inv, TypeOK
  <2> QED
    BY <1>1, <2>1, Domains DEF Inv, ListInv, Standing, Linked, list
<1>5. Collected'
  <2> SUFFICES ASSUME NEW l \in Levels, at - 1 < l, l < level
               PROVE  /\ update'[l] \in Linked
                      /\ update'[l] < key
                      /\ l < height[update'[l]]
                      /\ forward[update'[l]][l] >= key
                      /\ op = "insert" => forward[update'[l]][l] # key
    BY DEF Collected, Linked, list
  <2>1. CASE l = at
    BY <1>1, <2>1 DEF Inv, TypeOK, ListInv, Standing, Ahead
  <2>2. CASE l # at
    <3>1. at < l /\ update'[l] = update[l]
      BY <1>1, <2>2, Domains DEF Inv, TypeOK
    <3> QED
      BY <3>1 DEF Inv, ListInv, Collected
  <2> QED
    BY <2>1, <2>2
<1>6. AtBottom'
  BY <1>1, Domains DEF Inv, TypeOK, AtBottom
<1>7. RuledOut' /\ AtRest'
  BY DEF RuledOut, AtRest
<1> QED
  BY <1>2, <1>3, <1>4, <1>5, <1>6, <1>7 DEF Inv, ListInv, ListShape

(* Going down, a search has ruled out one more level. *)
LEMMA SearchDownInv ==
    ASSUME Inv, SearchDown
    PROVE  Inv'
<1>1. /\ at \in Levels /\ Ahead \in Int /\ key \in Int
      /\ \A m \in nodes : m > node /\ at < height[m] => Ahead <= m
  BY LookAhead DEF SearchDown, Running
<1>2. TypeOK'
  <2>1. at - 1 \in -1 .. (MaxLevel - 1)
    BY <1>1, Domains, MaxLevelAssumption
  <2> QED
    BY <2>1 DEF SearchDown, Inv, TypeOK, list
<1>3. ListShape'
  BY ShapeUnchanged DEF SearchDown, Inv, ListInv, ListShape
<1>4. Standing'
  <2>1. height[node] \in Int
    BY DEF Inv, TypeOK
  <2> QED
    BY <1>1, <2>1, Domains
    DEF SearchDown, Running, Inv, ListInv, Standing, Linked, list
<1>5. RuledOut'
  <2> SUFFICES ASSUME NEW l \in Levels, at - 1 < l
               PROVE  ~ (key \in nodes /\ l < height[key])
    BY DEF RuledOut, SearchDown, list
  <2>1. CASE l = at
    BY <1>1, <2>1 DEF SearchDown, Running, Inv, ListInv, Standing
  <2>2. CASE l # at
    <3>1. at < l
      BY <1>1, <2>2, Domains
    <3> QED
      BY <3>1 DEF SearchDown, Running, Inv, ListInv, RuledOut
  <2> QED
    BY <2>1, <2>2
<1>6. Collected' /\ AtBottom' /\ AtRest'
  BY DEF SearchDown, Running, Collected, AtBottom, AtRest
<1> QED
  BY <1>2, <1>3, <1>4, <1>5, <1>6 DEF Inv, ListInv, ListShape
-----------------------------------------------------------------------------
(* When insert links, it knows the node before its key on every level, and *)
(* the key is not in the list.                                             *)
LEMMA InsertPlace ==
    ASSUME Inv, Through("insert")
    PROVE  /\ key \in Scores /\ key \in Int /\ key \notin nodes
           /\ val \in Vals
           /\ update[0] \in Linked
           /\ \A l \in Levels :
                /\ Before(l) \in Linked /\ Before(l) \in Int /\ Before(l) < key
                /\ l < height[Before(l)]
                /\ forward[Before(l)][l] \in nodes \cup {Nil}
                /\ forward[Before(l)][l] \in Int
                /\ forward[Before(l)][l] > key
                /\ forward[Before(l)][l] # Nil =>
                      l < height[forward[Before(l)][l]]
                /\ \A m \in nodes : m > Before(l) /\ l < height[m] =>
                      forward[Before(l)][l] <= m
<1>1. key \in Scores /\ key \in Int
  BY ScoresAssumption DEF Through, Inv, ListInv, Standing
<1>2. ASSUME NEW l \in Levels
      PROVE  /\ Before(l) \in Linked /\ Before(l) < key /\ Before(l) \in Int
             /\ l < height[Before(l)]
             /\ forward[Before(l)][l] >= key
             /\ forward[Before(l)][l] # key
  <2>1. CASE l < level
    <3>1. -1 < l
      BY Domains
    <3>2. update[l] \in Int
      BY <2>1, <3>1, Domains DEF Through, Inv, ListInv, Collected, TypeOK, Linked
    <3> QED
      BY <2>1, <3>1, <3>2 DEF Through, Inv, ListInv, Collected, Before
  <2>2. CASE ~(l < level)
    <3>1. Before(l) = Head /\ Head \in Linked /\ Head < key /\ Head \in Int
      BY <1>1, <2>2, ScoresAssumption DEF Before, Linked
    <3>2. l < height[Head]
      BY Domains DEF Inv, ListInv, Heights
    <3>3. forward[Head][l] = Nil
      <4>1. /\ forward[Head][l] \in nodes \cup {Nil}
            /\ forward[Head][l] # Nil => l < height[forward[Head][l]]
        BY <3>1, <3>2 DEF Inv, ListInv, Shape
      <4>2. \A n \in nodes : ~(l < height[n])
        <5>1. \A n \in nodes : height[n] \in Int /\ height[n] <= level
          BY Domains DEF Inv, TypeOK, ListInv, Heights
        <5> QED
          BY <2>2, <5>1, Domains DEF Inv, TypeOK
      <4> QED
        BY <4>1, <4>2
    <3>4. Nil > key /\ Nil \in Int
      BY <1>1, ScoresAssumption
    <3> QED
      BY <1>1, <3>1, <3>2, <3>3, <3>4
  <2> QED
    BY <2>1, <2>2
<1>3. ASSUME NEW l \in Levels
      PROVE  /\ forward[Before(l)][l] \in nodes \cup {Nil}
             /\ forward[Before(l)][l] \in Int
             /\ forward[Before(l)][l] > key
             /\ forward[Before(l)][l] # Nil => l < height[forward[Before(l)][l]]
             /\ \A m \in nodes : m > Before(l) /\ l < height[m] =>
                   forward[Before(l)][l] <= m
  <2>1. /\ forward[Before(l)][l] \in nodes \cup {Nil}
        /\ forward[Before(l)][l] # Nil => l < height[forward[Before(l)][l]]
        /\ \A m \in nodes : m > Before(l) /\ l < height[m] =>
              forward[Before(l)][l] <= m
    BY <1>2 DEF Inv, ListInv, Shape
  <2>2. forward[Before(l)][l] \in Int
    BY <2>1, Domains DEF Inv, TypeOK
  <2> QED
    BY <1>1, <1>2, <2>1, <2>2
<1>4. key \notin nodes
  <2>1. ASSUME key \in nodes
        PROVE  FALSE
    <3>1. 0 < height[key]
      BY <2>1, Domains DEF Inv, TypeOK, ListInv, Heights
    <3>2. forward[Before(0)][0] <= key /\ forward[Before(0)][0] > key
          /\ forward[Before(0)][0] \in Int
      BY <1>1, <1>2, <1>3, <2>1, <3>1, Domains
    <3> QED
      BY <1>1, <3>2
  <2> QED
    BY <2>1
<1>5. update[0] \in Linked
  BY Domains DEF Through, Inv, TypeOK, ListInv, AtBottom, Standing
<1>6. val \in Vals
  BY DEF Through, Inv, ListInv, Standing
<1> QED
  BY <1>1, <1>2, <1>3, <1>4, <1>5, <1>6

(* Linking the new node keeps every level a sorted, complete sublist. *)
LEMMA LinkShape ==
    ASSUME Inv, NEW rlevel \in 1 .. MaxLevel, InsertLink(rlevel)
    PROVE  Shape'
<1> DEFINE B(l) == Before(l)
<1>1. Through("insert")
  BY DEF InsertLink
<1>2. /\ key \in Scores /\ key \in Int /\ key \notin nodes /\ key # Head
      /\ key # Nil
  BY <1>1, InsertPlace, ScoresAssumption
<1>3. /\ nodes' = nodes \cup {key}
      /\ Linked' = Linked \cup {key}
      /\ nodes \subseteq Scores /\ Linked \subseteq Places
      /\ \A n \in Linked : n \in Int
  BY <1>2, Domains DEF InsertLink, Linked, Inv, TypeOK, Places
<1>4. /\ \A n \in Linked : height'[n] = height[n]
      /\ height'[key] = rlevel /\ rlevel \in Int
      /\ \A n \in Linked : height[n] \in Int
  <2>1. height' = [height EXCEPT ![key] = rlevel]
    BY DEF InsertLink
  <2>2. height \in [Places -> 0 .. MaxLevel] /\ key \in Places /\ rlevel \in Int
    BY <1>2, Domains, MaxLevelAssumption DEF Inv, TypeOK
  <2>3. \A n \in Linked : n # key /\ n \in Places
    BY <1>2, <1>3 DEF Linked
  <2>4. \A n \in Places : height[n] \in Int
    BY <2>2, MaxLevelAssumption
  <2> QED
    BY <2>1, <2>2, <2>3, <2>4
<1>5. \A n \in Places, l \in Levels :
        forward'[n][l] = IF l < rlevel /\ n = key THEN forward[B(l)][l]
                         ELSE IF l < rlevel /\ n = B(l) THEN key
                         ELSE forward[n][l]
  BY DEF InsertLink
<1> HIDE DEF B
<1>6. \A l \in Levels :
        /\ B(l) \in Linked /\ B(l) \in Int /\ B(l) < key /\ l < height[B(l)]
        /\ forward[B(l)][l] \in nodes \cup {Nil}
        /\ forward[B(l)][l] \in Int
        /\ forward[B(l)][l] > key
        /\ forward[B(l)][l] # Nil => l < height[forward[B(l)][l]]
        /\ \A m \in nodes : m > B(l) /\ l < height[m] => forward[B(l)][l] <= m
  BY <1>1, InsertPlace DEF B
<1> SUFFICES ASSUME NEW n \in Linked \cup {key}, NEW l \in Levels,
                    l < height'[n]
             PROVE  /\ forward'[n][l] \in nodes \cup {key, Nil}
                    /\ forward'[n][l] > n
                    /\ forward'[n][l] # Nil => l < height'[forward'[n][l]]
                    /\ \A m \in nodes \cup {key} :
                         m > n /\ l < height'[m] => forward'[n][l] <= m
  BY <1>3 DEF Shape
<1>7. CASE n = key
  <2>1. forward'[n][l] = forward[B(l)][l]
    BY <1>2, <1>4, <1>5, <1>7 DEF Places
  <2>2. \A m \in nodes : m > key => m > B(l)
    BY <1>2, <1>3, <1>6 DEF Linked
  <2>3. forward[B(l)][l] \in nodes => forward[B(l)][l] \in Linked
    BY DEF Linked
  <2>4. \A m \in nodes : height'[m] = height[m]
    BY <1>4 DEF Linked
  <2>5. \A m \in nodes \cup {key} : m > key /\ l < height'[m] =>
          forward[B(l)][l] <= m
    BY <1>2, <1>6, <2>2, <2>4
  <2>6. /\ forward[B(l)][l] \in nodes \cup {Nil}
        /\ forward[B(l)][l] > key
        /\ forward[B(l)][l] # Nil => l < height'[forward[B(l)][l]]
    BY <1>6, <2>4
  <2> QED
    BY <1>7, <2>1, <2>5, <2>6
<1>8. CASE n # key /\ l < rlevel /\ n = B(l)
  <2>1. forward'[n][l] = key
    BY <1>3, <1>5, <1>8
  <2>2. \A m \in nodes : m > n /\ l < height[m] => key <= m
    BY <1>2, <1>3, <1>6, <1>8, Domains DEF Linked
  <2> QED
    BY <1>2, <1>3, <1>4, <1>6, <1>8, <2>1, <2>2 DEF Linked
<1>9. CASE n # key /\ ~(l < rlevel /\ n = B(l))
  <2>1. forward'[n][l] = forward[n][l] /\ n \in Linked /\ l < height[n]
    BY <1>3, <1>4, <1>5, <1>9
  <2>2. /\ forward[n][l] \in nodes \cup {Nil} /\ forward[n][l] > n
        /\ forward[n][l] # Nil => l < height[forward[n][l]]
        /\ \A m \in nodes : m > n /\ l < height[m] => forward[n][l] <= m
    BY <2>1 DEF Inv, ListInv, Shape
  <2>3. forward[n][l] \in Int
    BY <1>3, <2>2, Domains DEF Linked
  <2>4. key > n /\ l < rlevel => forward[n][l] <= key
    <3> SUFFICES ASSUME key > n, l < rlevel PROVE forward[n][l] <= key
      OBVIOUS
    <3>1. n # B(l) /\ n \in Int
      BY <1>3, <1>9, <2>1
    <3>2. ~ (n > B(l))
      <4>1. n > B(l) => n \in nodes
        BY <1>3, <1>6, <2>1, ScoresAssumption DEF Linked
      <4> QED
        BY <1>2, <1>6, <2>1, <3>1, <4>1
    <3>3. n < B(l) /\ B(l) \in nodes
      BY <1>3, <1>6, <2>1, <3>1, <3>2, ScoresAssumption DEF Linked
    <3> QED
      BY <1>2, <1>6, <2>2, <2>3, <3>3
  <2> QED
    BY <1>2, <1>3, <1>4, <2>1, <2>2, <2>4 DEF Linked
<1> QED
  BY <1>7, <1>8, <1>9

LEMMA LinkInv ==
    ASSUME Inv, NEW rlevel \in 1 .. MaxLevel, InsertLink(rlevel)
    PROVE  Inv'
<1>1. Through("insert") /\ Return
  BY DEF InsertLink
<1>2. /\ key \in Scores /\ key # Head /\ val \in Vals
      /\ update[0] \in Places /\ forward[update[0]][0] \in Scores \cup {Nil}
  <2>1. key \in Scores /\ val \in Vals /\ update[0] \in Linked
    BY <1>1, InsertPlace
  <2>2. Linked \subseteq Places
    BY DEF Linked, Places, Inv, TypeOK
  <2>3. key # Head
    BY <2>1, Domains
  <2>4. update[0] \in Places
    BY <2>1, <2>2
  <2>5. \A l \in Levels : forward[update[0]][l] \in Scores \cup {Nil}
    BY <2>4 DEF Inv, TypeOK
  <2> QED
    BY <2>1, <2>3, <2>4, <2>5, Domains
<1>3. \A l \in Levels : /\ Before(l) \in Places
                         /\ forward[Before(l)][l] \in Scores \cup {Nil}
                         /\ Width(l) \in Int /\ Passed(l) \in Int
                         /\ rank[0] \in Int
  <2>1. \A l \in Levels : Before(l) \in Places
    BY <1>1, InsertPlace DEF Linked, Places, Inv, TypeOK
  <2>2. \A l \in Levels : forward[Before(l)][l] \in Scores \cup {Nil}
    BY <2>1 DEF Inv, TypeOK
  <2>3. \A l \in Levels : Passed(l) \in Int /\ rank[0] \in Int
    BY Domains DEF Passed, Inv, TypeOK
  <2>4. ASSUME NEW l \in Levels
        PROVE  Width(l) \in Int
    <3>1. CASE l < level
      <4>1. update[l] \in Places
        BY <2>1, <3>1 DEF Before
      <4> QED
        BY <3>1, <4>1 DEF Width, Inv, TypeOK
    <3>2. CASE ~(l < level)
      BY <3>2 DEF Width, Inv, TypeOK
    <3> QED
      BY <3>1, <3>2
  <2> QED
    BY <2>1, <2>2, <2>3, <2>4
<1>4. height' \in [Places -> 0 .. MaxLevel] /\ level' \in 1 .. MaxLevel
  BY <1>2, MaxLevelAssumption DEF InsertLink, Inv, TypeOK, Places
<1>5. forward' \in [Places -> [Levels -> Scores \cup {Nil}]]
  BY <1>2, <1>3 DEF InsertLink, Inv, TypeOK
<1>6. span' \in [Places -> [Levels -> Int]]
  <2> SUFFICES ASSUME NEW n \in Places, NEW l \in Levels
               PROVE  span'[n][l] \in Int
    BY DEF InsertLink
  <2>1. span[n][l] \in Int
    BY DEF Inv, TypeOK
  <2> QED
    BY <1>3, <2>1 DEF InsertLink
<1>7. backward' \in [Scores -> Places \cup {Nil}] /\ tail' \in Places \cup {Nil}
  BY <1>2, BehindTyped DEF InsertLink, Inv, TypeOK, Places
<1>8. TypeOK'
  BY <1>1, <1>2, <1>4, <1>5, <1>6, <1>7, ReturnTyped DEF InsertLink, Inv, TypeOK
<1>9. Heights'
  <2>1. \A n \in nodes \cup {Head} : n # key => height'[n] = height[n]
    BY <1>2 DEF InsertLink, Inv, TypeOK, Places
  <2>2. height'[key] = rlevel
    BY <1>2 DEF InsertLink, Inv, TypeOK, Places
  <2>3. rlevel \in Int /\ 1 <= rlevel /\ level \in Int
        /\ level' \in Int /\ level <= level' /\ rlevel <= level'
    BY MaxLevelAssumption DEF InsertLink, Inv, TypeOK
  <2>4. \A n \in nodes : height[n] \in Int
    BY MaxLevelAssumption DEF Inv, TypeOK, Places
  <2> QED
    BY <1>2, <2>1, <2>2, <2>3, <2>4 DEF Heights, Inv, ListInv, InsertLink
<1>10. DataOK'
  BY <1>2 DEF DataOK, Inv, ListInv, TypeOK, InsertLink
<1> QED
  BY <1>1, <1>8, <1>9, <1>10, LinkShape, ReturnInv DEF Inv, ListShape
-----------------------------------------------------------------------------
(* When del unlinks, it stands before its key, which is in the list, and on *)
(* each of the key's levels remembers the node that points at it.           *)
LEMMA UnlinkPlace ==
    ASSUME Inv, Unlink
    PROVE  /\ forward[node][0] = key
           /\ key \in nodes /\ key \in Int /\ key # Head /\ key # Nil
           /\ update[0] \in Linked
           /\ \A l \in Levels : l < height[key] =>
                /\ l < level
                /\ update[l] \in Linked /\ update[l] \in Int /\ update[l] < key
                /\ l < height[update[l]]
                /\ forward[update[l]][l] = key
<1>1. /\ op = "del" /\ at = -1 /\ key \in Scores /\ key \in Int
      /\ key # Head /\ key < Nil /\ Nil \in Int
  <2>1. op = "del" /\ at = -1
    BY DEF Unlink, Through
  <2>2. key \in Scores
    BY <2>1 DEF Inv, ListInv, Standing
  <2> QED
    BY <2>1, <2>2, ScoresAssumption, Domains
<1>2. ASSUME NEW l \in Levels, l < level
      PROVE  /\ update[l] \in Linked /\ update[l] < key /\ l < height[update[l]]
             /\ forward[update[l]][l] >= key
             /\ forward[update[l]][l] \in nodes \cup {Nil}
             /\ \A m \in nodes : m > update[l] /\ l < height[m] =>
                   forward[update[l]][l] <= m
  <2>1. -1 < l
    BY Domains
  <2>2. /\ update[l] \in Linked /\ update[l] < key /\ l < height[update[l]]
        /\ forward[update[l]][l] >= key
    BY <1>1, <1>2, <2>1 DEF Inv, ListInv, Collected
  <2> QED
    BY <2>2 DEF Inv, ListInv, Shape
<1>3. 0 < level
  BY MaxLevelAssumption DEF Inv, TypeOK
<1>4. update[0] = node /\ update[0] \in Linked
  BY <1>1, <1>2, <1>3, Domains DEF Inv, ListInv, AtBottom
<1>5. forward[node][0] = key /\ key \in nodes
  <2>1. forward[node][0] \in nodes \cup {Nil} /\ forward[node][0] >= key
        /\ forward[node][0] <= key
    BY <1>2, <1>3, <1>4, Domains DEF Unlink
  <2>2. forward[node][0] \in Int
    BY <2>1, Domains DEF Inv, TypeOK
  <2> QED
    BY <1>1, <2>1, <2>2
<1>6. ASSUME NEW l \in Levels, l < height[key]
      PROVE  /\ l < level /\ update[l] \in Int
             /\ forward[update[l]][l] = key
  <2>1. l < level
    <3>1. height[key] \in Int /\ height[key] <= level /\ level \in Int
      BY <1>5, MaxLevelAssumption DEF Inv, TypeOK, Places, ListInv, Heights
    <3> QED
      BY <1>6, <3>1, Domains
  <2>2. update[l] \in Int /\ forward[update[l]][l] \in Int
    BY <1>2, <2>1, Domains DEF Inv, TypeOK, Linked
  <2>3. key > update[l]
    BY <1>1, <1>2, <2>1, <2>2
  <2> QED
    BY <1>1, <1>2, <1>5, <1>6, <2>1, <2>2, <2>3
<1> QED
  BY <1>1, <1>2, <1>4, <1>5, <1>6

LEMMA UnlinkShape ==
    ASSUME Inv, Unlink
    PROVE  Shape'
<1>1. /\ forward[node][0] = key /\ key \in nodes /\ key \in Int
      /\ key # Head /\ key # Nil
      /\ \A l \in Levels : l < height[key] =>
            /\ update[l] \in Linked /\ update[l] \in Int /\ update[l] < key
            /\ l < height[update[l]] /\ forward[update[l]][l] = key
  BY UnlinkPlace
<1>2. /\ nodes' = nodes \ {key} /\ Linked' = Linked \ {key}
      /\ \A n \in Linked : n \in Int /\ n \in Places
  BY <1>1, Domains DEF Unlink, Linked, Inv, TypeOK, Places
<1>3. \A n \in Linked : n # key => height'[n] = height[n]
  BY <1>1, <1>2 DEF Unlink, Inv, TypeOK
<1>4. \A n \in Places, l \in Levels : n # key =>
        forward'[n][l] = IF l < height[key] /\ n = update[l] THEN forward[key][l]
                         ELSE forward[n][l]
  BY <1>1 DEF Unlink
<1>5. \A n \in Linked, l \in Levels : l < height[n] =>
        /\ forward[n][l] \in nodes \cup {Nil} /\ forward[n][l] > n
        /\ forward[n][l] # Nil => l < height[forward[n][l]]
        /\ \A m \in nodes : m > n /\ l < height[m] => forward[n][l] <= m
  BY DEF Inv, ListInv, Shape
<1> SUFFICES ASSUME NEW n \in Linked, n # key, NEW l \in Levels,
                    l < height[n]
             PROVE  /\ forward'[n][l] \in (nodes \ {key}) \cup {Nil}
                    /\ forward'[n][l] > n
                    /\ forward'[n][l] # Nil => l < height[forward'[n][l]]
                    /\ \A m \in nodes \ {key} :
                         m > n /\ l < height[m] => forward'[n][l] <= m
  <2>1. \A m \in nodes \ {key} : height'[m] = height[m]
    BY <1>3 DEF Linked
  <2> QED
    BY <1>2, <1>3, <2>1 DEF Shape
<1>6. CASE l < height[key] /\ n = update[l]
  <2>1. forward'[n][l] = forward[key][l] /\ key \in Linked
    BY <1>1, <1>2, <1>4, <1>6 DEF Linked
  <2>2. /\ forward[key][l] \in nodes \cup {Nil} /\ forward[key][l] > key
        /\ forward[key][l] # Nil => l < height[forward[key][l]]
        /\ \A m \in nodes : m > key /\ l < height[m] => forward[key][l] <= m
    BY <1>5, <1>6, <2>1
  <2>3. forward[key][l] \in Int /\ n \in Int /\ n < key
    BY <1>1, <1>2, <1>6, <2>2, Domains DEF Linked
  <2>4. \A m \in nodes \ {key} : m > n /\ l < height[m] => m > key
    <3>1. \A m \in nodes : m > n /\ l < height[m] => key <= m
      BY <1>1, <1>5, <1>6
    <3>2. \A m \in nodes : m \in Int
      BY <1>2 DEF Linked
    <3> QED
      BY <1>1, <3>1, <3>2
  <2> QED
    BY <1>1, <2>1, <2>2, <2>3, <2>4
<1>7. CASE ~(l < height[key] /\ n = update[l])
  <2>1. forward'[n][l] = forward[n][l]
    BY <1>2, <1>4, <1>7
  <2>2. forward[n][l] # key
    <3>1. ASSUME forward[n][l] = key
          PROVE  FALSE
      <4>1. l < height[key] /\ n < key /\ n # update[l] /\ n \in Int
        BY <1>1, <1>2, <1>5, <1>7, <3>1
      <4>2. CASE n < update[l]
        <5>1. update[l] \in nodes
          BY <1>1, <1>2, <4>1, <4>2, ScoresAssumption DEF Linked, Places
        <5> QED
          BY <1>1, <1>5, <3>1, <4>1, <4>2, <5>1
      <4>3. CASE n > update[l]
        <5>1. n \in nodes
          BY <1>1, <1>2, <4>1, <4>3, ScoresAssumption DEF Linked, Places
        <5> QED
          BY <1>1, <1>5, <4>1, <4>3, <5>1
      <4> QED
        BY <1>1, <4>1, <4>2, <4>3
    <3> QED
      BY <3>1
  <2> QED
    BY <1>5, <2>1, <2>2
<1> QED
  BY <1>6, <1>7

LEMMA UnlinkInv ==
    ASSUME Inv, Unlink
    PROVE  Inv'
<1>1. /\ forward[node][0] = key /\ key \in nodes /\ key \in Scores /\ key # Head
      /\ update[0] \in Places /\ key \in Places
  BY UnlinkPlace DEF Inv, TypeOK, Linked, Places
<1>2. height' \in [Places -> 0 .. MaxLevel]
  BY <1>1, MaxLevelAssumption DEF Unlink, Inv, TypeOK
<1>3. forward' \in [Places -> [Levels -> Scores \cup {Nil}]]
  BY <1>1 DEF Unlink, Inv, TypeOK
<1>4. span' \in [Places -> [Levels -> Int]]
  <2> SUFFICES ASSUME NEW n \in Places, NEW l \in Levels
               PROVE  span'[n][l] \in Int
    BY DEF Unlink
  <2>1. span[n][l] \in Int /\ span[key][l] \in Int
    BY <1>1 DEF Inv, TypeOK
  <2> QED
    BY <1>1, <2>1 DEF Unlink
<1>5. backward' \in [Scores -> Places \cup {Nil}] /\ tail' \in Places \cup {Nil}
  BY <1>1, BehindTyped DEF Unlink
<1>6. TypeOK'
  BY <1>1, <1>2, <1>3, <1>4, <1>5, ReturnTyped DEF Unlink, Inv, TypeOK
<1>7. Heights'
  <2>1. \A n \in nodes \cup {Head} : n # key => height'[n] = height[n]
    BY <1>1 DEF Unlink, Inv, TypeOK, Places
  <2> QED
    BY <1>1, <2>1 DEF Heights, Unlink, Inv, ListInv
<1>8. DataOK'
  BY <1>1 DEF DataOK, Inv, ListInv, TypeOK, Unlink
<1> QED
  BY <1>6, <1>7, <1>8, UnlinkShape, ReturnInv DEF Inv, ListShape, Unlink

(* Replacing the data of a node that is there leaves the rest alone. *)
LEMMA ReplaceInv ==
    ASSUME Inv, InsertReplace
    PROVE  Inv'
<1>1. key \in nodes /\ key \in Scores /\ val \in Vals
  BY LookAhead DEF InsertReplace, Running, Inv, ListInv, Standing
<1>2. TypeOK'
  BY <1>1, ReturnTyped DEF InsertReplace, Inv, TypeOK
<1>3. DataOK'
  BY <1>1 DEF DataOK, Inv, ListInv, TypeOK, InsertReplace
<1>4. Heights' /\ Shape'
  BY DEF Heights, Shape, Linked, Inv, ListInv, InsertReplace
<1> QED
  BY <1>2, <1>3, <1>4, ReturnInv DEF Inv, ListShape, InsertReplace

LEMMA ReturnOnlyInv ==
    ASSUME Inv, Return, UNCHANGED list, answer' \in Vals \cup {None}
    PROVE  Inv'
<1>1. TypeOK'
  BY ReturnTyped DEF Inv, TypeOK, list
<1>2. ListShape'
  BY ShapeUnchanged DEF Inv, ListInv, ListShape
<1> QED
  BY <1>1, <1>2, ReturnInv DEF Inv
-----------------------------------------------------------------------------
LEMMA BeginInv ==
    ASSUME Inv, Begin
    PROVE  Inv'
<1>1. level - 1 \in Levels /\ MaxLevel - 1 \in Levels
  BY MaxLevelAssumption DEF Levels, Inv, TypeOK
<1>2. ASSUME NEW s \in Scores, NEW v \in Vals, CallInsert(s, v)
      PROVE  Inv'
  BY <1>1, <1>2, CallInv DEF CallInsert
<1>3. ASSUME NEW s \in Scores, CallDel(s)
      PROVE  Inv'
  BY <1>1, <1>3, CallInv DEF CallDel
<1>4. ASSUME NEW s \in Scores, CallSearch(s)
      PROVE  Inv'
  BY <1>1, <1>4, CallInv DEF CallSearch
<1> QED
  BY <1>2, <1>3, <1>4 DEF Begin

LEMMA InsertingInv ==
    ASSUME Inv, Inserting
    PROVE  Inv'
<1>1. CASE InsertForward
  <2>1. op # "idle" /\ at >= 0 /\ at \in Levels
    BY <1>1, LookAhead DEF InsertForward, Running
  <2>2. rank' \in [Levels -> Int]
    <3>1. node \in Places /\ span \in [Places -> [Levels -> Int]]
          /\ rank \in [Levels -> Int]
      BY DEF Inv, TypeOK
    <3>2. span[node] \in [Levels -> Int]
      BY <3>1
    <3>3. span[node][at] \in Int
      BY <2>1, <3>2
    <3>4. rank[at] + span[node][at] \in Int
      BY <2>1, <3>1, <3>3
    <3>5. rank' = [rank EXCEPT ![at] = rank[at] + span[node][at]]
      BY <1>1, <2>1, <3>1 DEF InsertForward
    <3> QED
      BY <2>1, <3>1, <3>4, <3>5
  <2> QED
    BY <1>1, <2>1, <2>2, ForwardInv DEF InsertForward
<1>2. CASE InsertDown
  <2>1. op = "insert" /\ at >= 0 /\ at \in Levels /\ Ahead \in Int /\ key \in Int
    BY <1>2, LookAhead DEF InsertDown, Running
  <2>2. rank' \in [Levels -> Int]
    BY <1>2, <2>1 DEF InsertDown, Inv, TypeOK
  <2>3. Ahead >= key /\ Ahead # key
    BY <1>2, <2>1 DEF InsertDown
  <2> QED
    BY <1>2, <2>1, <2>2, <2>3, DownInv DEF InsertDown
<1> QED
  BY <1>1, <1>2, ReplaceInv, LinkInv DEF Inserting

LEMMA DeletingInv ==
    ASSUME Inv, Deleting
    PROVE  Inv'
<1>1. CASE DelForward
  BY <1>1, ForwardInv DEF DelForward, Running, Inv, TypeOK
<1>2. CASE DelDown
  BY <1>2, DownInv DEF DelDown, Running, Inv, TypeOK
<1>3. CASE DelMiss
  BY <1>3, ReturnOnlyInv DEF DelMiss, Inv, TypeOK
<1> QED
  BY <1>1, <1>2, <1>3, UnlinkInv DEF Deleting

LEMMA SearchingInv ==
    ASSUME Inv, Searching
    PROVE  Inv'
<1>1. CASE SearchForward
  BY <1>1, ForwardInv DEF SearchForward, Running, Inv, TypeOK
<1>2. CASE SearchHit
  <2>1. data[key] \in Vals \cup {None}
    BY <1>2, LookAhead DEF SearchHit, Running, Inv, TypeOK
  <2> QED
    BY <1>2, <2>1, ReturnOnlyInv DEF SearchHit
<1>3. CASE SearchMiss
  BY <1>3, ReturnOnlyInv DEF SearchMiss
<1> QED
  BY <1>1, <1>2, <1>3, SearchDownInv DEF Searching

LEMMA NextInv ==
    ASSUME Inv, [Next]_vars
    PROVE  Inv'
<1>1. CASE UNCHANGED vars
  BY <1>1 DEF vars, list, locals, Inv, TypeOK, ListInv, Heights, Shape, DataOK,
              AtRest, Standing, Collected, AtBottom, RuledOut, Linked
<1> QED
  BY <1>1, BeginInv, InsertingInv, DeletingInv, SearchingInv DEF Next, Step

(* The types, the shape of the list and the place of the call under way, for *)
(* every set of scores and every number of levels.                           *)
THEOREM InvHolds == Spec => []Inv
BY InitInv, NextInv, PTL DEF Spec

(* Every variable of the list and of the call under way keeps its type. *)
THEOREM TypeCorrect == Spec => []TypeOK
<1>1. Inv => TypeOK
  BY DEF Inv
<1> QED
  BY <1>1, InvHolds, PTL

(* The levels stay sorted sublists of one another that end in null, for any *)
(* scores and heights, also between the assignments of a call.              *)
THEOREM ShapeHolds == Spec => []ListInv
<1>1. Inv => ListInv
  BY DEF Inv
<1> QED
  BY <1>1, InvHolds, PTL
-----------------------------------------------------------------------------
(* Each call starts and ends one of the map; in between nothing changes. *)
MapVars == << data, << op, key, val >>, answer >>

LEMMA BeginRefines ==
    ASSUME Inv, Begin
    PROVE  Map!Next
<1>1. ASSUME NEW what \in {"insert", "del", "search"}, NEW s, NEW v, NEW top,
             Call(what, s, v, top)
      PROVE  Map!Begin(what, s, v)
  <2>1. << op, key, val >> = Map!Idle
    BY <1>1 DEF Call, Inv, ListInv, AtRest, Map!Idle
  <2> QED
    BY <1>1, <2>1 DEF Call, list, Map!Begin
<1> QED
  BY <1>1 DEF Begin, CallInsert, CallDel, CallSearch, Map!Next

LEMMA ReturnsIdle == Return => << op', key', val' >> = Map!Idle
BY DEF Return, Map!Idle

LEMMA InsertingRefines ==
    ASSUME Inv, Inserting
    PROVE  Map!Next \/ UNCHANGED MapVars
<1>1. CASE InsertForward \/ InsertDown
  BY <1>1 DEF InsertForward, InsertDown, list, MapVars
<1>2. ASSUME op = "insert", data' = [data EXCEPT ![key] = val], Return,
             answer' = answer
      PROVE  Map!Next
  <2>1. key \in Scores /\ val \in Vals
    BY <1>2 DEF Inv, ListInv, Standing
  <2>2. Map!Insert(key, val)
    BY <1>2, ReturnsIdle DEF Map!Insert
  <2> QED
    BY <2>1, <2>2 DEF Map!Next
<1>3. CASE InsertReplace
  BY <1>2, <1>3 DEF InsertReplace, Running
<1>4. ASSUME NEW rlevel \in 1 .. MaxLevel, InsertLink(rlevel)
      PROVE  Map!Next
  BY <1>2, <1>4 DEF InsertLink, Through
<1> QED
  BY <1>1, <1>3, <1>4 DEF Inserting

LEMMA DeletingRefines ==
    ASSUME Inv, Deleting
    PROVE  Map!Next \/ UNCHANGED MapVars
<1>1. CASE DelForward \/ DelDown
  BY <1>1 DEF DelForward, DelDown, list, MapVars
<1>2. ASSUME op = "del", data' = [data EXCEPT ![key] = None], Return,
             answer' = answer
      PROVE  Map!Next
  <2>1. key \in Scores /\ val = None
    BY <1>2 DEF Inv, ListInv, Standing
  <2>2. Map!Delete(key)
    BY <1>2, <2>1, ReturnsIdle DEF Map!Delete
  <2> QED
    BY <2>1, <2>2 DEF Map!Next
<1>3. CASE DelMiss
  <2>1. op = "del" /\ at = -1 /\ key \in Scores /\ key \in Int
    BY <1>3, Domains DEF DelMiss, Through, Inv, ListInv, Standing
  <2>2. key \notin nodes
    <3> SUFFICES ASSUME key \in nodes PROVE FALSE
      OBVIOUS
    <3>1. 0 < level /\ 0 < height[key] /\ node < key
      BY <2>1, Domains DEF Inv, TypeOK, ListInv, Heights, Standing
    <3>2. update[0] = node /\ node \in Linked /\ 0 < height[node]
      BY <2>1, <3>1, Domains DEF Inv, ListInv, AtBottom, Collected
    <3>3. forward[node][0] <= key /\ forward[node][0] \in nodes \cup {Nil}
      BY <3>1, <3>2, Domains DEF Inv, ListInv, Shape
    <3>4. forward[node][0] \in Int
      BY <3>3, Domains DEF Inv, TypeOK
    <3> QED
      BY <1>3, <2>1, <3>3, <3>4 DEF DelMiss
  <2>3. data' = [data EXCEPT ![key] = None]
    BY <1>3, <2>1, <2>2 DEF DelMiss, list, Inv, TypeOK, ListInv, DataOK
  <2> QED
    BY <1>2, <1>3, <2>1, <2>3 DEF DelMiss
<1>4. CASE Unlink
  <2>1. forward[node][0] = key
    BY <1>4, UnlinkPlace
  <2> QED
    BY <1>2, <1>4, <2>1 DEF Unlink, Through
<1> QED
  BY <1>1, <1>3, <1>4 DEF Deleting

LEMMA SearchingRefines ==
    ASSUME Inv, Searching
    PROVE  Map!Next \/ UNCHANGED MapVars
<1>1. CASE SearchForward \/ SearchDown
  BY <1>1 DEF SearchForward, SearchDown, list, MapVars
<1>2. ASSUME op = "search", data' = data, Return, answer' = data[key]
      PROVE  Map!Next
  <2>1. key \in Scores /\ val = None
    BY <1>2 DEF Inv, ListInv, Standing
  <2>2. Map!Search(key)
    BY <1>2, <2>1, ReturnsIdle DEF Map!Search
  <2> QED
    BY <2>1, <2>2 DEF Map!Next
<1>3. CASE SearchHit
  BY <1>2, <1>3 DEF SearchHit, Running, list
<1>4. CASE SearchMiss
  <2>1. op = "search" /\ at = -1 /\ key \in Scores
    BY <1>4 DEF SearchMiss, Through, Inv, ListInv, Standing
  <2>2. key \notin nodes
    <3>1. key \in nodes => 0 < height[key]
      BY Domains DEF Inv, TypeOK, ListInv, Heights
    <3> QED
      BY <2>1, <3>1, Domains DEF Inv, ListInv, RuledOut
  <2>3. data[key] = None
    BY <2>1, <2>2 DEF Inv, ListInv, DataOK
  <2> QED
    BY <1>2, <1>4, <2>1, <2>3 DEF SearchMiss, list
<1> QED
  BY <1>1, <1>3, <1>4 DEF Searching

(* The skip list is a map from scores to data: what a call changes or        *)
(* answers is what the map's call does, whatever heights nodes were given.   *)
THEOREM ImplementsOrderedMapHolds == Spec => ImplementsOrderedMap
<1>1. Init => Map!Init
  BY DEF Init, Map!Init, Map!Idle
<1>2. Inv /\ [Next]_vars => [Map!Next]_(Map!vars)
  <2>1. UNCHANGED vars => UNCHANGED MapVars
    BY DEF vars, list, locals, MapVars
  <2>2. UNCHANGED MapVars <=> UNCHANGED Map!vars
    BY DEF MapVars, Map!vars
  <2> QED
    BY <2>1, <2>2, BeginRefines, InsertingRefines, DeletingRefines,
       SearchingRefines DEF Next, Step
<1> QED
  BY <1>1, <1>2, InvHolds, PTL DEF Spec, ImplementsOrderedMap, Map!Spec
-----------------------------------------------------------------------------
(* Level 0 and the back pointers, during a call too. *)
Mirror ==
    /\ \A n \in Linked : forward[n][0] # Nil => backward[forward[n][0]] = n
    /\ nodes # {} => tail \in nodes /\ forward[tail][0] = Nil

LEMMA NextTyped ==
    ASSUME Inv, NEW n \in Places, NEW l \in Levels
    PROVE  /\ forward[n][l] \in Scores \cup {Nil} /\ forward[n][l] \in Int
           /\ span[n][l] \in Int
<1>1. forward[n] \in [Levels -> Scores \cup {Nil}] /\ span[n] \in [Levels -> Int]
  BY DEF Inv, TypeOK
<1> QED
  BY <1>1, Domains

LEMMA InitMirror == Init => Mirror
BY Domains DEF Init, Mirror, Linked, Places

LEMMA LinkMirror ==
    ASSUME Inv, Mirror, NEW rlevel \in 1 .. MaxLevel, InsertLink(rlevel)
    PROVE  Mirror'
<1>1. PICK p \in Places : p = update[0] /\ p = Before(0)
  BY InsertPlace, MaxLevelAssumption DEF InsertLink, Before, Inv, TypeOK, Linked, Places
<1>2. PICK q \in Scores \cup {Nil} : q = forward[p][0]
  BY NextTyped, Domains
<1>3. /\ key \in Scores /\ key \notin nodes /\ key # Head /\ key # Nil /\ key \in Places
      /\ p \in Linked /\ p # key /\ q # key /\ q \in nodes \cup {Nil}
      /\ nodes \subseteq Scores /\ Nil \notin Scores
  <2>1. Through("insert")
    BY DEF InsertLink
  <2>2. /\ key \in Scores /\ key \in Int /\ key \notin nodes
        /\ p \in Linked /\ p \in Int /\ p < key
        /\ q \in nodes \cup {Nil} /\ q \in Int /\ q > key
    BY <1>1, <1>2, <2>1, InsertPlace, Domains
  <2>3. p # key /\ q # key
    BY <2>2
  <2> QED
    BY <2>2, <2>3, Domains DEF Inv, TypeOK, Places
<1>4. /\ nodes' = nodes \cup {key} /\ Linked' = Linked \cup {key}
      /\ Linked \subseteq Places
  BY <1>3 DEF InsertLink, Linked, Places
<1>5. \A n \in Places : forward'[n][0] = IF n = key THEN q
                                        ELSE IF n = p THEN key ELSE forward[n][0]
  BY <1>1, <1>2, <1>3, Domains, MaxLevelAssumption DEF InsertLink
<1>6. \A n \in Scores : backward'[n] = IF n = key THEN p
                                      ELSE IF n = q THEN key ELSE backward[n]
  BY <1>1, <1>2, <1>3 DEF InsertLink, Behind
<1>7. tail' = IF q = Nil THEN key ELSE tail
  BY <1>1, <1>2 DEF InsertLink, TailAfter
<1>8. \A n \in Linked : forward[n][0] \in nodes \cup {Nil}
  BY Domains DEF Inv, ListInv, Heights, Shape, TypeOK, Linked, Places
<1>9. ASSUME NEW n \in Linked', forward'[n][0] # Nil
      PROVE  backward'[forward'[n][0]] = n
  <2>1. CASE n = key
    BY <1>3, <1>4, <1>5, <1>6, <1>9, <2>1
  <2>2. CASE n = p
    BY <1>3, <1>4, <1>5, <1>6, <1>9, <2>2
  <2>3. CASE n # key /\ n # p
    <3>1. forward'[n][0] = forward[n][0] /\ n \in Linked
      BY <1>4, <1>5, <2>3
    <3>2. forward[n][0] \in nodes /\ backward[forward[n][0]] = n
      BY <1>8, <1>9, <3>1 DEF Mirror
    <3>3. forward[n][0] # q
      BY <1>2, <1>3, <2>3, <3>2 DEF Mirror
    <3> QED
      BY <1>3, <1>6, <3>1, <3>2, <3>3
  <2> QED
    BY <2>1, <2>2, <2>3
<1>10. tail' \in nodes' /\ forward'[tail'][0] = Nil
  <2>1. CASE q = Nil
    BY <1>3, <1>4, <1>5, <1>7, <2>1 DEF Places
  <2>2. CASE q # Nil
    <3>1. tail \in nodes /\ forward[tail][0] = Nil /\ tail # p /\ tail # key
      BY <1>2, <1>3, <2>2 DEF Mirror
    <3> QED
      BY <1>3, <1>4, <1>5, <1>7, <2>2, <3>1 DEF Places
  <2> QED
    BY <2>1, <2>2
<1> QED
  BY <1>9, <1>10 DEF Mirror

LEMMA UnlinkMirror ==
    ASSUME Inv, Mirror, Unlink
    PROVE  Mirror'
<1>1. /\ key \in nodes /\ key \in Scores /\ key # Head /\ key # Nil
      /\ forward[node][0] = key /\ 0 < height[key]
  <2>1. key \in nodes /\ 1 <= height[key] /\ height[key] \in Int
    BY UnlinkPlace, MaxLevelAssumption DEF Inv, ListInv, Heights, TypeOK, Places
  <2> QED
    BY <2>1, UnlinkPlace DEF Inv, TypeOK
<1>2. PICK p \in Places : /\ p = update[0] /\ p \in Linked /\ p # key
                          /\ forward[p][0] = key
  <2>1. /\ update[0] \in Linked /\ update[0] \in Int /\ update[0] < key
        /\ forward[update[0]][0] = key
    BY <1>1, UnlinkPlace, Domains
  <2> QED
    BY <2>1 DEF Linked, Places, Inv, TypeOK
<1>3. PICK q \in Scores \cup {Nil} : q = forward[key][0]
  BY <1>1, NextTyped, Domains
<1>4. /\ nodes' = nodes \ {key} /\ Linked' = Linked \ {key}
      /\ Linked \subseteq Places /\ nodes \subseteq Scores /\ Nil \notin Scores
      /\ nodes \subseteq Linked
  BY <1>1, Domains DEF Unlink, Linked, Places, Inv, TypeOK
<1>5. \A n \in Places : n # key =>
        forward'[n][0] = IF n = p THEN q ELSE forward[n][0]
  BY <1>1, <1>2, <1>3, Domains DEF Unlink
<1>6. \A n \in Scores : n # key =>
        backward'[n] = IF n = q THEN p ELSE backward[n]
  BY <1>1, <1>2, <1>3 DEF Unlink, Behind
<1>7. tail' = IF q = Nil THEN p ELSE tail
  BY <1>1, <1>2, <1>3 DEF Unlink, TailAfter
<1>8. \A n \in Linked : /\ forward[n][0] \in nodes \cup {Nil} /\ forward[n][0] > n
                        /\ \A m \in nodes : m > n => forward[n][0] <= m
  <2>1. \A n \in Linked : 0 < height[n]
    BY MaxLevelAssumption DEF Inv, ListInv, Heights, Linked, TypeOK, Places
  <2>2. nodes \subseteq Linked
    BY DEF Linked
  <2> QED
    BY <2>1, <2>2, Domains DEF Inv, ListInv, Shape
<1>9. q # key /\ q \in nodes \cup {Nil}
  BY <1>1, <1>3, <1>4, <1>8, Domains
<1>10. ASSUME NEW n \in Linked', forward'[n][0] # Nil
       PROVE  backward'[forward'[n][0]] = n
  <2>1. CASE n = p
    BY <1>2, <1>3, <1>4, <1>5, <1>6, <1>9, <1>10, <2>1
  <2>2. CASE n # p
    <3>1. forward'[n][0] = forward[n][0] /\ n \in Linked /\ n # key
      BY <1>4, <1>5, <2>2
    <3>2. forward[n][0] \in nodes /\ backward[forward[n][0]] = n
      BY <1>8, <1>10, <3>1 DEF Mirror
    <3>3. forward[n][0] # key
      BY <1>1, <1>2, <2>2, <3>2 DEF Mirror
    <3>4. forward[n][0] # q
      BY <1>1, <1>3, <1>4, <3>1, <3>2 DEF Mirror
    <3> QED
      BY <1>4, <1>6, <3>1, <3>2, <3>3, <3>4
  <2> QED
    BY <2>1, <2>2
<1>11. ASSUME nodes' # {}
       PROVE  tail' \in nodes' /\ forward'[tail'][0] = Nil
  <2>1. CASE q = Nil
    <3>1. p # Head
      <4>1. PICK m \in nodes : m # key
        BY <1>4, <1>11
      <4>2. m \in Int /\ m > Head /\ m < Nil /\ Head \in Int /\ Nil \in Int /\ key \in Int
        BY <1>1, <1>4, ScoresAssumption
      <4>3. p = Head => key <= m
        BY <1>2, <1>8, <4>1, <4>2
      <4>4. m > key => Nil <= m
        BY <1>1, <1>3, <1>4, <1>8, <2>1
      <4> QED
        BY <4>1, <4>2, <4>3, <4>4
    <3>2. p \in nodes'
      BY <1>2, <1>4, <3>1 DEF Linked
    <3> QED
      BY <1>2, <1>5, <1>7, <2>1, <3>2
  <2>2. CASE q # Nil
    <3>1. tail \in nodes /\ forward[tail][0] = Nil
      BY <1>1 DEF Mirror
    <3>2. tail # key /\ tail # p
      BY <1>1, <1>2, <1>3, <2>2, <3>1
    <3> QED
      BY <1>4, <1>5, <1>7, <2>2, <3>1, <3>2
  <2> QED
    BY <2>1, <2>2
<1> QED
  BY <1>10, <1>11 DEF Mirror

(* Every other step leaves the list alone, or all of it but the data. *)
LEMMA Others ==
    ASSUME Next, ~ Unlink, \A rlevel \in 1 .. MaxLevel : ~ InsertLink(rlevel)
    PROVE  UNCHANGED << nodes, height, forward, span, backward, tail, level, length >>
<1>1. CASE Begin
  BY <1>1 DEF Begin, CallInsert, CallDel, CallSearch, Call, list
<1>2. CASE Step
  BY <1>2
  DEF Step, Inserting, InsertForward, InsertReplace, InsertDown, Deleting,
      DelForward, DelDown, DelMiss, Searching, SearchForward, SearchHit, SearchDown,
      SearchMiss, list
<1> QED
  BY <1>1, <1>2 DEF Next

LEMMA MirrorStep == Inv /\ Mirror /\ [Next]_vars => Mirror'
<1> SUFFICES ASSUME Inv, Mirror, [Next]_vars PROVE Mirror'
  OBVIOUS
<1>1. CASE Next /\ Unlink
  BY <1>1, UnlinkMirror
<1>2. ASSUME NEW rlevel \in 1 .. MaxLevel, InsertLink(rlevel)
      PROVE  Mirror'
  BY <1>2, LinkMirror
<1>3. CASE UNCHANGED << nodes, height, forward, span, backward, tail, level, length >>
  BY <1>3 DEF Mirror, Linked
<1> QED
  BY <1>1, <1>2, <1>3, Others DEF vars, list

(* Walking back from the tail meets every node of a list between two calls   *)
(* (SkipList::insert and del set backward and tail); nothing is said of what  *)
(* the first node points back to.                                            *)
THEOREM BackwardMirrorsHolds == Spec => []BackwardMirrors
<1>1. Mirror => BackwardMirrors
  BY DEF Mirror, BackwardMirrors, Linked
<1> QED
  BY <1>1, InvHolds, InitMirror, MirrorStep, PTL DEF Spec
-----------------------------------------------------------------------------
(* The spans count nodes, and what insert has added up is the rank of where  *)
(* it stands and, per level, of where it went down.                          *)
Reach(next, l) == IF next # Nil THEN RankOf(next)
                  ELSE IF l = 0 THEN Cardinality(nodes) ELSE length

Ranked ==
    /\ IsFiniteSet(nodes)
    /\ \A n \in Linked, l \in Levels : l < level /\ l < height[n] =>
         span[n][l] = Reach(forward[n][l], l) - RankOf(n)

Counted ==
    /\ op # "insert" => rank = NoRank
    /\ op = "insert" =>
         /\ at >= 0 => rank[at] = RankOf(node)
         /\ \A l \in Levels : at < l /\ l < level => rank[l] = RankOf(update[l])

LEMMA RankTyped ==
    ASSUME Ranked
    PROVE  /\ \A n : RankOf(n) \in Nat
           /\ Cardinality(nodes) \in Nat
<1>1. ASSUME NEW n
      PROVE  RankOf(n) \in Nat
  <2>1. {m \in nodes : m <= n} \subseteq nodes
    OBVIOUS
  <2>2. IsFiniteSet({m \in nodes : m <= n})
    BY <2>1, FS_Subset DEF Ranked
  <2> QED
    BY <2>2, FS_CardinalityType DEF RankOf
<1> QED
  BY <1>1, FS_CardinalityType DEF Ranked

LEMMA HeadRank == Inv => RankOf(Head) = 0
<1> SUFFICES ASSUME Inv PROVE RankOf(Head) = 0
  OBVIOUS
<1>1. ASSUME NEW m \in nodes PROVE ~ (m <= Head)
  <2>1. m \in Int /\ Head \in Int /\ Head < m
    BY ScoresAssumption DEF Inv, TypeOK
  <2> QED
    BY <2>1
<1>2. {m \in nodes : m <= Head} = {}
  BY <1>1
<1> QED
  BY <1>2, FS_EmptySet DEF RankOf

LEMMA RankAdd ==
    ASSUME Ranked, nodes \subseteq Int, NEW k \in Int, k \notin nodes,
           nodes' = nodes \cup {k}
    PROVE  /\ IsFiniteSet(nodes') /\ Cardinality(nodes') = Cardinality(nodes) + 1
           /\ \A n \in Int : RankOf(n)' = IF k <= n THEN RankOf(n) + 1 ELSE RankOf(n)
<1>1. IsFiniteSet(nodes') /\ Cardinality(nodes') = Cardinality(nodes) + 1
  BY FS_AddElement DEF Ranked
<1>2. ASSUME NEW n \in Int
      PROVE  RankOf(n)' = IF k <= n THEN RankOf(n) + 1 ELSE RankOf(n)
  <2> DEFINE M == {m \in nodes : m <= n}
             N == {m \in nodes' : m <= n}
  <2>1. RankOf(n) = Cardinality(M) /\ RankOf(n)' = Cardinality(N)
    BY DEF RankOf
  <2>2. M \subseteq nodes
    OBVIOUS
  <2>3. IsFiniteSet(M) /\ k \notin M
    BY <2>2, FS_Subset DEF Ranked
  <2>4. N = IF k <= n THEN M \cup {k} ELSE M
    OBVIOUS
  <2> HIDE DEF M, N
  <2>5. Cardinality(M \cup {k}) = Cardinality(M) + 1
    BY <2>3, FS_AddElement
  <2> QED
    BY <2>1, <2>4, <2>5
<1> QED
  BY <1>1, <1>2

LEMMA RankRemove ==
    ASSUME Ranked, nodes \subseteq Int, NEW k \in Int, k \in nodes,
           nodes' = nodes \ {k}
    PROVE  /\ IsFiniteSet(nodes') /\ Cardinality(nodes') = Cardinality(nodes) - 1
           /\ \A n \in Int : RankOf(n)' = IF k <= n THEN RankOf(n) - 1 ELSE RankOf(n)
<1>1. IsFiniteSet(nodes') /\ Cardinality(nodes') = Cardinality(nodes) - 1
  BY FS_RemoveElement DEF Ranked
<1>2. ASSUME NEW n \in Int
      PROVE  RankOf(n)' = IF k <= n THEN RankOf(n) - 1 ELSE RankOf(n)
  <2> DEFINE M == {m \in nodes : m <= n}
             N == {m \in nodes' : m <= n}
  <2>1. RankOf(n) = Cardinality(M) /\ RankOf(n)' = Cardinality(N)
    BY DEF RankOf
  <2>2. M \subseteq nodes
    OBVIOUS
  <2>3. IsFiniteSet(M) /\ (k <= n => k \in M)
    BY <2>2, FS_Subset DEF Ranked
  <2>4. N = IF k <= n THEN M \ {k} ELSE M
    OBVIOUS
  <2> HIDE DEF M, N
  <2>5. k <= n => Cardinality(M \ {k}) = Cardinality(M) - 1
    BY <2>3, FS_RemoveElement
  <2> QED
    BY <2>1, <2>4, <2>5
<1> QED
  BY <1>1, <1>2

(* What a node that is not where a call went down points at lies on the same *)
(* side of the key as the node itself.                                       *)
LEMMA SameSide ==
    ASSUME Inv, NEW b \in Linked, NEW l \in Levels, l < height[b], b < key,
           key \in Scores, forward[b][l] >= key,
           NEW n \in Linked, l < height[n], n # b
    PROVE  n < key => forward[n][l] # Nil /\ forward[n][l] < key
<1> SUFFICES ASSUME n < key PROVE forward[n][l] # Nil /\ forward[n][l] < key
  OBVIOUS
<1>1. /\ n \in Places /\ b \in Places /\ n \in Int /\ b \in Int
      /\ key \in Int /\ key < Nil /\ Nil \in Int
  BY Domains, ScoresAssumption DEF Inv, TypeOK, Linked, Places
<1>2. forward[n][l] \in Int /\ forward[b][l] \in Int
  BY <1>1, NextTyped
<1>3. ~ (n > b)
  <2>1. n > b => n \in nodes
    BY <1>1, ScoresAssumption DEF Linked, Inv, TypeOK
  <2>2. n > b => forward[b][l] <= n
    BY <2>1 DEF Inv, ListInv, Shape
  <2> QED
    BY <1>1, <1>2, <2>2
<1>4. n < b
  BY <1>1, <1>3
<1>5. b \in nodes
  BY <1>1, <1>4, ScoresAssumption DEF Linked, Inv, TypeOK
<1>6. forward[n][l] <= b
  BY <1>4, <1>5 DEF Inv, ListInv, Shape
<1> QED
  BY <1>1, <1>2, <1>6

LEMMA ReachTyped ==
    ASSUME Inv, Ranked
    PROVE  \A next, l : Reach(next, l) \in Int
BY RankTyped DEF Reach, Inv, TypeOK

(* What insert knows of ranks and spans when it links. *)
LEMMA InsertRanks ==
    ASSUME Inv, Ranked, Counted, Through("insert")
    PROVE  /\ rank[0] = RankOf(key)
           /\ \A l \in Levels :
                /\ Passed(l) = RankOf(Before(l))
                /\ Width(l) = Reach(forward[Before(l)][l], l) - Passed(l)
<1>1. /\ key \in Scores /\ key \in Int /\ key \notin nodes /\ update[0] \in Linked
      /\ \A l \in Levels :
           /\ Before(l) \in Linked /\ Before(l) \in Int /\ Before(l) < key
           /\ l < height[Before(l)]
           /\ forward[Before(l)][l] \in nodes \cup {Nil}
           /\ forward[Before(l)][l] \in Int /\ forward[Before(l)][l] > key
           /\ forward[Before(l)][l] # Nil => l < height[forward[Before(l)][l]]
           /\ \A m \in nodes : m > Before(l) /\ l < height[m] =>
                 forward[Before(l)][l] <= m
  BY InsertPlace
<1>2. /\ at = -1 /\ op = "insert" /\ 0 < level /\ level \in Int
      /\ \A l \in Levels : -1 < l /\ l \in Int
      /\ 0 \in Levels /\ Before(0) = update[0]
  BY Domains, MaxLevelAssumption DEF Through, Inv, TypeOK, Before
<1>3. \A l \in Levels : l < level => rank[l] = RankOf(update[l])
  BY <1>2 DEF Counted
<1>4. RankOf(key) = RankOf(update[0])
  <2>1. ASSUME NEW m \in nodes
        PROVE  m <= key <=> m <= update[0]
    <3>1. m \in Int /\ 0 < height[m]
      BY MaxLevelAssumption, ScoresAssumption
      DEF Inv, TypeOK, ListInv, Heights, Places
    <3>2. m > update[0] => forward[update[0]][0] <= m
      BY <1>1, <1>2, <3>1
    <3> QED
      BY <1>1, <1>2, <3>1, <3>2
  <2>2. {m \in nodes : m <= key} = {m \in nodes : m <= update[0]}
    BY <2>1
  <2> QED
    BY <2>2 DEF RankOf
<1>5. ASSUME NEW l \in Levels, l < level
      PROVE  /\ Passed(l) = RankOf(Before(l))
             /\ Width(l) = Reach(forward[Before(l)][l], l) - Passed(l)
  <2>1. Before(l) = update[l] /\ Passed(l) = rank[l] /\ Width(l) = span[update[l]][l]
    BY <1>5 DEF Before, Passed, Width
  <2>2. span[update[l]][l] = Reach(forward[update[l]][l], l) - RankOf(update[l])
    BY <1>1, <1>5, <2>1 DEF Ranked
  <2> QED
    BY <1>3, <1>5, <2>1, <2>2
<1>6. ASSUME NEW l \in Levels, ~ (l < level)
      PROVE  /\ Passed(l) = RankOf(Before(l))
             /\ Width(l) = Reach(forward[Before(l)][l], l) - Passed(l)
  <2>1. Before(l) = Head /\ Passed(l) = 0 /\ Width(l) = length /\ l # 0
    BY <1>2, <1>6 DEF Before, Passed, Width
  <2>2. \A m \in nodes : height[m] <= level /\ height[m] \in Int
    BY MaxLevelAssumption DEF Inv, TypeOK, ListInv, Heights, Places
  <2>3. forward[Before(l)][l] = Nil
    BY <1>1, <1>2, <1>6, <2>2
  <2>4. Reach(forward[Before(l)][l], l) = length
    BY <2>1, <2>3 DEF Reach
  <2>5. length - 0 = length
    BY DEF Inv, TypeOK
  <2> QED
    BY <2>1, <2>4, <2>5, HeadRank
<1> QED
  BY <1>2, <1>3, <1>4, <1>5, <1>6

LEMMA LinkRanked ==
    ASSUME Inv, Ranked, Counted, NEW rlevel \in 1 .. MaxLevel, InsertLink(rlevel)
    PROVE  Ranked'
<1>1. Through("insert")
  BY DEF InsertLink
<1>2. /\ key \in Scores /\ key \in Int /\ key \in Places /\ key \notin nodes
      /\ \A l \in Levels :
           /\ Before(l) \in Linked /\ Before(l) \in Int /\ Before(l) < key
           /\ l < height[Before(l)]
           /\ forward[Before(l)][l] \in nodes \cup {Nil}
           /\ forward[Before(l)][l] \in Int /\ forward[Before(l)][l] > key
  BY <1>1, InsertPlace, Domains
<1>3. /\ nodes' = nodes \cup {key} /\ Linked' = Linked \cup {key}
      /\ Linked \subseteq Places /\ nodes \subseteq Int /\ key \notin Linked
      /\ \A n \in Places : n \in Int
      /\ length' = length + 1 /\ rlevel \in Int /\ level \in Int
      /\ level' = IF rlevel > level THEN rlevel ELSE level
  <2>1. /\ nodes' = nodes \cup {key} /\ length' = length + 1
        /\ level' = IF rlevel > level THEN rlevel ELSE level
    BY DEF InsertLink
  <2>2. nodes \subseteq Scores /\ level \in Int /\ rlevel \in Int
    BY MaxLevelAssumption DEF Inv, TypeOK
  <2>3. \A n \in Places : n \in Int
    BY Domains
  <2>4. key # Head
    BY <1>2, Domains
  <2> QED
    BY <1>2, <2>1, <2>2, <2>3, <2>4 DEF Linked, Places
<1>4. /\ IsFiniteSet(nodes') /\ Cardinality(nodes') = Cardinality(nodes) + 1
      /\ \A n \in Int : RankOf(n)' = IF key <= n THEN RankOf(n) + 1 ELSE RankOf(n)
      /\ \A n : RankOf(n) \in Int
      /\ \A x, l : Reach(x, l) \in Int
  <2>1. nodes \subseteq Int /\ key \in Int /\ key \notin nodes
    BY <1>2, <1>3
  <2>2. nodes' = nodes \cup {key}
    BY <1>3
  <2>3. /\ IsFiniteSet(nodes') /\ Cardinality(nodes') = Cardinality(nodes) + 1
        /\ \A n \in Int :
              RankOf(n)' = IF key <= n THEN RankOf(n) + 1 ELSE RankOf(n)
    BY <2>1, <2>2, RankAdd
  <2> QED
    BY <2>3, RankTyped, ReachTyped
<1>5. ASSUME NEW x \in Scores \cup {Nil}, NEW l
      PROVE  Reach(x, l)' = IF key <= x THEN Reach(x, l) + 1 ELSE Reach(x, l)
  <2>1. x \in Int /\ (x = Nil => key <= x)
    BY <1>2, Domains, ScoresAssumption
  <2> QED
    BY <1>3, <1>4, <2>1 DEF Reach
<1>6. /\ rank[0] = RankOf(key)
      /\ \A l \in Levels :
           /\ Passed(l) = RankOf(Before(l))
           /\ Width(l) = Reach(forward[Before(l)][l], l) - RankOf(Before(l))
  BY <1>1, InsertRanks
<1>7. \A n \in Linked : height'[n] = height[n] /\ height[n] \in Int
  BY <1>2, <1>3, MaxLevelAssumption DEF InsertLink, Inv, TypeOK
<1>8. \A n \in Places, l \in Levels :
        forward'[n][l] = IF l < rlevel /\ n = key THEN forward[Before(l)][l]
                         ELSE IF l < rlevel /\ n = Before(l) THEN key
                         ELSE forward[n][l]
  BY DEF InsertLink
<1>9. \A n \in Places, l \in Levels :
        span'[n][l] =
          IF l < rlevel /\ n = key THEN Width(l) - (rank[0] - Passed(l))
          ELSE IF l < rlevel /\ n = Before(l) THEN rank[0] - Passed(l) + 1
          ELSE IF rlevel <= l /\ l < level /\ n = update[l] THEN span[n][l] + 1
          ELSE span[n][l]
  BY DEF InsertLink
<1> SUFFICES ASSUME NEW n \in Linked \cup {key}, NEW l \in Levels,
                    l < level', l < height'[n]
             PROVE  \E x \in Scores \cup {Nil} :
                       /\ forward'[n][l] = x
                       /\ span'[n][l] = Reach(x, l)' - RankOf(n)'
  BY <1>3, <1>4 DEF Ranked, Reach
<1>10. l \in Int /\ nodes \subseteq Scores
  BY Domains DEF Inv, TypeOK
<1>11. PICK b \in Linked : /\ b = Before(l) /\ b \in Int /\ b < key /\ l < height[b]
                           /\ forward[b][l] > key
  BY <1>2
<1>12. PICK y \in Scores \cup {Nil} : y = forward[b][l] /\ y > key /\ y \in Int
  BY <1>2, <1>10, <1>11
<1>16. PICK k \in Scores : k = key
  BY <1>2
<1>13. CASE n = key
  <2>1. l < rlevel
    BY <1>2, <1>13, MaxLevelAssumption DEF InsertLink, Inv, TypeOK
  <2>2. forward'[n][l] = y
    BY <1>2, <1>8, <1>11, <1>12, <1>13, <2>1
  <2>3. span'[n][l] = Reach(y, l) - RankOf(b) - (RankOf(key) - RankOf(b))
    BY <1>2, <1>6, <1>9, <1>11, <1>12, <1>13, <2>1
  <2>4. Reach(y, l)' = Reach(y, l) + 1 /\ RankOf(n)' = RankOf(key) + 1
    BY <1>2, <1>4, <1>5, <1>12, <1>13
  <2> QED
    BY <1>4, <2>2, <2>3, <2>4
<1>14. CASE n # key /\ n = b /\ l < rlevel
  <2>1. forward'[n][l] = k
    BY <1>3, <1>8, <1>11, <1>14, <1>16
  <2>2. span'[n][l] = RankOf(key) - RankOf(b) + 1
    BY <1>3, <1>6, <1>9, <1>11, <1>14
  <2>3. RankOf(n)' = RankOf(b) /\ Reach(k, l)' = RankOf(k) + 1
    <3>1. k # Nil /\ ~ (key <= b)
      BY <1>2, <1>11, <1>16, Domains
    <3>2. Reach(k, l)' = Reach(k, l) + 1
      BY <1>2, <1>5, <1>16
    <3> QED
      BY <1>4, <1>11, <1>14, <3>1, <3>2 DEF Reach
  <2>4. RankOf(k) \in Int /\ RankOf(b) \in Int /\ RankOf(k) = RankOf(key)
    BY <1>4, <1>16
  <2> QED
    BY <2>1, <2>2, <2>3, <2>4
<1>15. CASE n # key /\ ~ (n = b /\ l < rlevel)
  <2>1. n \in Linked /\ l < height[n] /\ n \in Places /\ n \in Int
    BY <1>3, <1>7, <1>15
  <2>2. l < level
    <3>1. CASE n = Head
      <4>1. ASSUME ~ (l < level) PROVE FALSE
        <5>1. b = Head /\ l < rlevel
          BY <1>3, <1>10, <1>11, <4>1 DEF Before
        <5> QED
          BY <1>15, <3>1, <5>1
      <4> QED
        BY <4>1
    <3>2. CASE n # Head
      <4>1. n \in nodes
        BY <2>1, <3>2 DEF Linked
      <4>2. height[n] <= level
        BY <4>1 DEF Inv, ListInv, Heights
      <4> QED
        BY <1>3, <1>7, <1>10, <2>1, <4>2
    <3> QED
      BY <3>1, <3>2
  <2>3. b = update[l]
    BY <1>11, <2>2 DEF Before
  <2>4. PICK x \in Scores \cup {Nil} : x = forward[n][l]
    BY <2>1, NextTyped
  <2>5. forward'[n][l] = x
    BY <1>8, <1>11, <1>15, <2>1, <2>4
  <2>6. span[n][l] = Reach(x, l) - RankOf(n) /\ x > n /\ x \in Int
    <3>1. span[n][l] = Reach(x, l) - RankOf(n)
      BY <2>1, <2>2, <2>4 DEF Ranked
    <3>2. x > n
      BY <2>1, <2>4 DEF Inv, ListInv, Shape
    <3> QED
      BY <3>1, <3>2, Domains
  <2>7. CASE n = b
    <3>1. span'[n][l] = span[n][l] + 1
      BY <1>3, <1>9, <1>10, <1>11, <1>15, <2>1, <2>2, <2>3, <2>7
    <3>2. Reach(x, l)' = Reach(x, l) + 1 /\ RankOf(n)' = RankOf(n)
      BY <1>2, <1>4, <1>5, <1>11, <1>12, <2>1, <2>4, <2>6, <2>7
    <3> QED
      BY <1>4, <2>5, <2>6, <3>1, <3>2
  <2>8. CASE n # b
    <3>1. span'[n][l] = span[n][l]
      BY <1>9, <1>11, <1>15, <2>1, <2>3, <2>8
    <3>2. n < key => x < key
      BY <1>2, <1>11, <1>12, <2>1, <2>4, <2>8, SameSide
    <3>3. key <= n <=> key <= x
      BY <1>2, <2>1, <2>6, <3>2
    <3>4. Reach(x, l)' - RankOf(n)' = Reach(x, l) - RankOf(n)
      BY <1>4, <1>5, <2>1, <3>3
    <3> QED
      BY <2>5, <2>6, <3>1, <3>4
  <2> QED
    BY <2>7, <2>8
<1> QED
  BY <1>13, <1>14, <1>15

LEMMA UnlinkRanked ==
    ASSUME Inv, Ranked, Unlink
    PROVE  Ranked'
<1>1. PICK k \in Scores : /\ k = key /\ k \in nodes /\ k \in Int /\ k \in Places
                          /\ forward[node][0] = k /\ k # Head /\ k # Nil
  BY UnlinkPlace, Domains DEF Inv, TypeOK
<1>2. \A l \in Levels : l < height[k] =>
        /\ l < level /\ forward[update[l]][l] = k
  BY <1>1, UnlinkPlace
<1>3. ASSUME NEW l \in Levels, l < level
      PROVE  /\ update[l] \in Linked /\ update[l] \in Int /\ update[l] < k
             /\ l < height[update[l]] /\ forward[update[l]][l] >= k
  <2>1. op = "del" /\ at = -1 /\ -1 < l
    BY Domains DEF Unlink, Through
  <2>2. /\ update[l] \in Linked /\ update[l] < key
        /\ l < height[update[l]] /\ forward[update[l]][l] >= key
    BY <1>3, <2>1 DEF Inv, ListInv, Collected
  <2>3. update[l] \in Int
    BY <2>2, Domains DEF Linked, Inv, TypeOK, Places
  <2> QED
    BY <1>1, <2>2, <2>3
<1>4. /\ nodes' = nodes \ {k} /\ Linked' = Linked \ {k} /\ nodes \subseteq Scores
      /\ length' = length - 1 /\ level' = level /\ level \in Int
  BY <1>1, MaxLevelAssumption DEF Unlink, Linked, Inv, TypeOK
<1>5. /\ Linked \subseteq Places /\ nodes \subseteq Int /\ \A n \in Places : n \in Int
  BY <1>4, Domains DEF Linked, Places
<1>6. /\ IsFiniteSet(nodes') /\ Cardinality(nodes') = Cardinality(nodes) - 1
      /\ \A n \in Int : RankOf(n)' = IF k <= n THEN RankOf(n) - 1 ELSE RankOf(n)
      /\ \A n : RankOf(n) \in Int
      /\ \A x, l : Reach(x, l) \in Int
  <2>1. /\ IsFiniteSet(nodes') /\ Cardinality(nodes') = Cardinality(nodes) - 1
        /\ \A n \in Int : RankOf(n)' = IF k <= n THEN RankOf(n) - 1 ELSE RankOf(n)
    BY <1>1, <1>4, <1>5, RankRemove
  <2>2. \A n : RankOf(n) \in Int
    BY RankTyped
  <2> QED
    BY <2>1, <2>2, ReachTyped
<1>7. ASSUME NEW x \in Scores \cup {Nil}, NEW l
      PROVE  Reach(x, l)' = IF k <= x THEN Reach(x, l) - 1 ELSE Reach(x, l)
  <2>1. x \in Int /\ (x = Nil => k <= x)
    BY <1>1, Domains, ScoresAssumption
  <2> QED
    BY <1>4, <1>6, <2>1 DEF Reach
<1>8. \A n \in Linked : n # k => height'[n] = height[n] /\ height[n] \in Int
  BY <1>1, <1>5, MaxLevelAssumption DEF Unlink, Inv, TypeOK
<1>9. \A n \in Places, l \in Levels : n # k =>
        forward'[n][l] = IF l < height[k] /\ n = update[l] THEN forward[k][l]
                         ELSE forward[n][l]
  BY <1>1 DEF Unlink
<1>10. \A n \in Places, l \in Levels : n # k =>
         span'[n][l] =
           IF l < height[k] /\ n = update[l] THEN span[n][l] + span[k][l] - 1
           ELSE IF height[k] <= l /\ l < level /\ n = update[l] THEN span[n][l] - 1
           ELSE span[n][l]
  BY <1>1 DEF Unlink
<1> SUFFICES ASSUME NEW n \in Linked, n # k, NEW l \in Levels,
                    l < level, l < height[n]
             PROVE  \E x \in Scores \cup {Nil} :
                       /\ forward'[n][l] = x
                       /\ span'[n][l] = Reach(x, l)' - RankOf(n)'
  BY <1>4, <1>6, <1>8 DEF Ranked, Reach
<1>11. /\ n \in Places /\ n \in Int /\ l \in Int /\ height[k] \in Int
       /\ k \in Linked /\ Nil \in Int /\ k < Nil
  BY <1>1, <1>5, Domains, ScoresAssumption, MaxLevelAssumption DEF Inv, TypeOK, Linked
<1>12. PICK b \in Linked : /\ b = update[l] /\ b \in Int /\ b < k /\ l < height[b]
                           /\ forward[b][l] >= k
  BY <1>3
<1>13. PICK x \in Scores \cup {Nil} : x = forward[n][l] /\ x \in Int
  BY <1>11, NextTyped
<1>14. span[n][l] = Reach(x, l) - RankOf(n) /\ x > n
  <2>1. span[n][l] = Reach(x, l) - RankOf(n)
    BY <1>13 DEF Ranked
  <2>2. x > n
    BY <1>13 DEF Inv, ListInv, Shape
  <2> QED
    BY <2>1, <2>2
<1>15. CASE n = b /\ l < height[k]
  <2>1. PICK y \in Scores \cup {Nil} : y = forward[k][l] /\ y \in Int
    BY <1>1, NextTyped
  <2>2. span[k][l] = Reach(y, l) - RankOf(k) /\ y > k
    <3>1. span[k][l] = Reach(y, l) - RankOf(k)
      BY <1>11, <1>15, <2>1 DEF Ranked
    <3>2. y > k
      BY <1>11, <1>15, <2>1 DEF Inv, ListInv, Shape
    <3> QED
      BY <3>1, <3>2
  <2>3. x = k /\ Reach(x, l) = RankOf(k)
    BY <1>1, <1>2, <1>12, <1>13, <1>15 DEF Reach
  <2>4. forward'[n][l] = y
    BY <1>9, <1>11, <1>12, <1>15, <2>1
  <2>5. span'[n][l] = RankOf(k) - RankOf(n) + (Reach(y, l) - RankOf(k)) - 1
    BY <1>10, <1>11, <1>12, <1>14, <1>15, <2>2, <2>3
  <2>6. Reach(y, l)' = Reach(y, l) - 1 /\ RankOf(n)' = RankOf(n)
    BY <1>1, <1>6, <1>7, <1>11, <1>12, <1>15, <2>1, <2>2
  <2>7. RankOf(k) \in Int /\ RankOf(n) \in Int /\ Reach(y, l) \in Int
    BY <1>6
  <2> QED
    BY <2>4, <2>5, <2>6, <2>7
<1>16. CASE n = b /\ ~ (l < height[k])
  <2>1. forward'[n][l] = x /\ span'[n][l] = span[n][l] - 1
    BY <1>9, <1>10, <1>11, <1>12, <1>13, <1>16
  <2>2. Reach(x, l)' = Reach(x, l) - 1 /\ RankOf(n)' = RankOf(n)
    BY <1>1, <1>6, <1>7, <1>11, <1>12, <1>13, <1>16
  <2>3. RankOf(n) \in Int /\ Reach(x, l) \in Int
    BY <1>6
  <2> QED
    BY <1>14, <2>1, <2>2, <2>3
<1>17. CASE n # b
  <2>1. forward'[n][l] = x /\ span'[n][l] = span[n][l]
    BY <1>9, <1>10, <1>11, <1>12, <1>13, <1>17
  <2>2. n < k => x < k
    BY <1>1, <1>12, <1>13, <1>17, SameSide
  <2>3. k <= n <=> k <= x
    BY <1>1, <1>11, <1>13, <1>14, <2>2
  <2>4. Reach(x, l)' - RankOf(n)' = Reach(x, l) - RankOf(n)
    BY <1>6, <1>7, <1>11, <2>3
  <2> QED
    BY <1>14, <2>1, <2>4
<1> QED
  BY <1>15, <1>16, <1>17

LEMMA RankedStep == Inv /\ Ranked /\ Counted /\ [Next]_vars => Ranked'
<1> SUFFICES ASSUME Inv, Ranked, Counted, [Next]_vars PROVE Ranked'
  OBVIOUS
<1>1. CASE Next /\ Unlink
  BY <1>1, UnlinkRanked
<1>2. ASSUME NEW rlevel \in 1 .. MaxLevel, InsertLink(rlevel)
      PROVE  Ranked'
  BY <1>2, LinkRanked
<1>3. CASE UNCHANGED << nodes, height, forward, span, backward, tail, level, length >>
  BY <1>3 DEF Ranked, Linked, Reach, RankOf
<1> QED
  BY <1>1, <1>2, <1>3, Others DEF vars, list

(* Going forward insert adds the span it passes; going down it keeps the sum. *)
LEMMA CountedStep == Inv /\ Ranked /\ Counted /\ [Next]_vars => Counted'
<1> SUFFICES ASSUME Inv, Ranked, Counted, [Next]_vars PROVE Counted'
  OBVIOUS
<1>1. CASE Return
  BY <1>1 DEF Return, Counted
<1>2. CASE Begin
  <2>1. ASSUME NEW s \in Scores, NEW v \in Vals, CallInsert(s, v)
        PROVE  Counted'
    <3>1. /\ op = "idle" /\ op' = "insert" /\ node' = Head /\ at' = level - 1
          /\ rank' = rank /\ nodes' = nodes /\ level' = level
      BY <2>1 DEF CallInsert, Call, list
    <3>2. rank = NoRank /\ level - 1 \in Levels
      BY <3>1, MaxLevelAssumption DEF Counted, Levels, Inv, TypeOK
    <3>3. RankOf(Head)' = 0
      BY <3>1, HeadRank DEF RankOf
    <3>4. rank'[at'] = 0
      BY <3>1, <3>2 DEF NoRank
    <3>5. \A l \in Levels : ~ (at' < l /\ l < level')
      BY <3>1, Domains, MaxLevelAssumption DEF Inv, TypeOK
    <3> QED
      BY <3>1, <3>3, <3>4, <3>5 DEF Counted, RankOf
  <2>2. ASSUME op' # "insert", op = "idle", UNCHANGED rank
        PROVE  Counted'
    BY <2>2 DEF Counted
  <2> QED
    BY <1>2, <2>1, <2>2 DEF Begin, CallDel, CallSearch, Call
<1>3. CASE InsertForward
  <2>1. /\ op = "insert" /\ at >= 0 /\ Ahead < key /\ node' = Ahead
        /\ rank' = [rank EXCEPT ![at] = @ + span[node][at]]
        /\ UNCHANGED << list, op, at, update >>
    BY <1>3 DEF InsertForward, Running
  <2>2. at \in Levels /\ Ahead \in nodes /\ Ahead \in Int /\ Ahead # Nil
    BY <2>1, LookAhead, Domains DEF Inv, TypeOK
  <2>3. node \in Linked /\ at < height[node] /\ at < level /\ node \in Places
    BY <2>1 DEF Inv, ListInv, Standing, TypeOK
  <2>4. span[node][at] = RankOf(Ahead) - RankOf(node)
    BY <2>2, <2>3 DEF Ranked, Reach, Ahead
  <2>5. rank[at] = RankOf(node) /\ RankOf(node) \in Int /\ RankOf(Ahead) \in Int
    BY <2>1, RankTyped DEF Counted
  <2>6. rank'[at] = RankOf(Ahead) /\ \A l \in Levels : l # at => rank'[l] = rank[l]
    BY <2>1, <2>2, <2>4, <2>5 DEF Inv, TypeOK
  <2>7. nodes' = nodes /\ level' = level
    BY <2>1 DEF list
  <2>8. \A n : RankOf(n)' = RankOf(n)
    BY <2>7 DEF RankOf
  <2>9. \A l \in Levels : at < l => l # at
    BY <2>2, Domains
  <2>10. (at >= 0 => rank[at] = RankOf(node))'
    BY <2>1, <2>6, <2>7 DEF RankOf
  <2>11. (\A l \in Levels : at < l /\ l < level => rank[l] = RankOf(update[l]))'
    BY <2>1, <2>6, <2>7, <2>9 DEF Counted, RankOf
  <2> QED
    BY <2>1, <2>10, <2>11 DEF Counted
<1>4. CASE InsertDown
  <2>1. /\ op = "insert" /\ at >= 0 /\ at' = at - 1
        /\ update' = [update EXCEPT ![at] = node]
        /\ rank' = [l \in Levels |-> IF l = at - 1 THEN rank[at] ELSE rank[l]]
        /\ UNCHANGED << list, op, node >>
    BY <1>4 DEF InsertDown, Running
  <2>2. at \in Levels /\ at \in Int /\ at - 1 \in Int
    BY <2>1, Domains DEF Inv, TypeOK
  <2>3. nodes' = nodes /\ level' = level
    BY <2>1 DEF list
  <2>4. (at >= 0 => rank[at] = RankOf(node))'
    <3>1. at - 1 >= 0 => at - 1 \in Levels
      BY <2>2, MaxLevelAssumption DEF Levels
    <3>2. at - 1 >= 0 => rank'[at - 1] = rank[at] /\ rank[at] = RankOf(node)
      BY <2>1, <3>1 DEF Counted
    <3> QED
      BY <2>1, <2>3, <3>2 DEF RankOf
  <2>5. ASSUME NEW l \in Levels, at - 1 < l, l < level
        PROVE  /\ rank'[l] = rank[l]
               /\ l = at => update'[l] = node /\ rank[l] = RankOf(node)
               /\ l # at => update'[l] = update[l] /\ rank[l] = RankOf(update[l])
    <3>1. rank'[l] = rank[l]
      BY <2>1, <2>2, <2>5, Domains
    <3>2. l = at => update'[l] = node /\ rank[l] = RankOf(node)
      BY <2>1, <2>2 DEF Counted, Inv, TypeOK
    <3>3. l # at => update'[l] = update[l] /\ at < l
      BY <2>1, <2>2, <2>5, Domains DEF Inv, TypeOK
    <3> QED
      BY <2>1, <2>5, <3>1, <3>2, <3>3 DEF Counted
  <2>6. (\A l \in Levels : at < l /\ l < level => rank[l] = RankOf(update[l]))'
    BY <2>1, <2>3, <2>5 DEF RankOf
  <2> QED
    BY <2>1, <2>4, <2>6 DEF Counted
<1>5. CASE op # "insert" /\ UNCHANGED << op, rank >>
  BY <1>5 DEF Counted
<1>6. CASE UNCHANGED vars
  BY <1>6 DEF vars, list, locals, Counted, RankOf
<1> QED
  BY <1>1, <1>2, <1>3, <1>4, <1>5, <1>6
  DEF Next, Step, Inserting, InsertReplace, InsertLink, Deleting, DelForward, DelDown,
      DelMiss, Unlink, Searching, SearchForward, SearchHit, SearchDown, SearchMiss,
      Running, Through

LEMMA InitRanked == Init => Ranked /\ Counted
<1> SUFFICES ASSUME Init PROVE Ranked /\ Counted
  OBVIOUS
<1>1. nodes = {} /\ IsFiniteSet({}) /\ Cardinality({}) = 0
  BY FS_EmptySet DEF Init
<1>2. \A n : RankOf(n) = 0
  <2>1. \A n : {m \in nodes : m <= n} = {}
    BY <1>1
  <2> QED
    BY <1>1, <2>1 DEF RankOf
<1>3. ASSUME NEW n \in Linked, NEW l \in Levels, l < level
      PROVE  span[n][l] = Reach(forward[n][l], l) - RankOf(n)
  <2>1. n \in Places /\ span[n][l] = 0 /\ forward[n][l] = Nil /\ l = 0
    BY <1>1, <1>3, Domains DEF Init, Linked, Places
  <2> QED
    BY <1>1, <1>2, <2>1 DEF Reach
<1> QED
  BY <1>1, <1>3 DEF Init, Ranked, Counted

(* Every span counts the nodes it passes, and insert adds up the rank of its *)
(* key, whatever the random heights (SkipList::insert and del).              *)
THEOREM SpansHold == Spec => []Spans
<1>1. Inv /\ Ranked /\ Counted => Spans
  <2> SUFFICES ASSUME Inv, Ranked, Counted PROVE Spans
    OBVIOUS
  <2>1. ASSUME NEW n \in Linked, NEW l \in 0 .. (level - 1), l < height[n]
        PROVE  span[n][l] =
                 (IF forward[n][l] # Nil THEN RankOf(forward[n][l])
                  ELSE IF l = 0 THEN Cardinality(nodes) ELSE length) - RankOf(n)
    <3>1. l \in Levels /\ l < level
      BY MaxLevelAssumption DEF Levels, Inv, TypeOK
    <3> QED
      BY <2>1, <3>1 DEF Ranked, Reach
  <2> QED
    BY <2>1 DEF Spans, Counted
<1>2. Inv /\ (Ranked /\ Counted) /\ [Next]_vars => (Ranked /\ Counted)'
  BY RankedStep, CountedStep
<1> QED
  BY <1>1, <1>2, InvHolds, InitRanked, PTL DEF Spec
=============================================================================
