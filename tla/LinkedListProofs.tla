-------------------------- MODULE LinkedListProofs --------------------------
(***************************************************************************)
(* For any values, any memory and any stack: head, tail and length of a    *)
(* list agree, and it is a queue, through every step of print and of the   *)
(* destructor.                                                             *)
(***************************************************************************)
EXTENDS LinkedList, FiniteSetTheorems, SequenceTheorems, NaturalsInduction,
        WellFoundedInduction, TLAPS

(* The nodes of the list, in a name that does not change with the links. *)
IsChain(c) ==
    /\ c \in Seq(Nodes)
    /\ \A i, j \in 1 .. Len(c) : c[i] = c[j] => i = j
    /\ head = IF Len(c) = 0 THEN Nil ELSE c[1]
    /\ tail = IF Len(c) = 0 THEN Nil ELSE c[Len(c)]
    /\ length = Len(c)
    /\ \A i \in 1 .. Len(c) : next[c[i]] = IF i = Len(c) THEN Nil ELSE c[i + 1]
    /\ \A i \in 1 .. Len(c) : data[c[i]] \in Values

(* print has shown the first j nodes. *)
Printed(c, j) ==
    /\ out = [i \in 1 .. j |-> data[c[i]]]
    /\ temp = IF j = Len(c) THEN Nil ELSE c[j + 1]

(* Until it is destroyed a list is a chain, and then its tail has gone. *)
Inv ==
    /\ ListTypeOK
    /\ phase # "destroy" =>
         \E c \in Seq(Nodes) :
            /\ IsChain(c)
            /\ phase = "print" => \E j \in 0 .. Len(c) : Printed(c, j)
    /\ phase = "destroy" => tail = Nil

Places == 1 .. Cardinality(Nodes) + 1

(* c is what a walk from h over the links nx meets; f is Nth of such a walk. *)
Meets(c, h, nx) ==
    /\ h = IF Len(c) = 0 THEN Nil ELSE c[1]
    /\ \A i \in 1 .. Len(c) : nx[c[i]] = IF i = Len(c) THEN Nil ELSE c[i + 1]

Walks(f, h, nx) ==
    f = [i \in Places |-> IF i = 1 THEN h
                          ELSE IF f[i - 1] = Nil THEN Nil ELSE nx[f[i - 1]]]

Table(c) == [i \in Places |-> IF i <= Len(c) THEN c[i] ELSE Nil]
-----------------------------------------------------------------------------
(* Numbers and finite sets. *)
LEMMA LeastNumber ==
    ASSUME NEW S, S \subseteq Nat, S # {}
    PROVE  \E x \in S : \A y \in S : x <= y
<1> DEFINE Less == {p \in Nat \X Nat : p[1] < p[2]}
<1>1. IsWellFoundedOn(Less, Nat)
  BY NatLessThanWellFounded DEF OpToRel
<1>2. PICK x \in S : \A y \in S : ~ (<< y, x >> \in Less)
  <2> HIDE DEF Less
  <2> QED
    BY <1>1, WFMin
<1>3. ASSUME NEW y \in S
      PROVE  x <= y
  <2>1. << y, x >> \in Nat \X Nat /\ x \in Nat /\ y \in Nat
    OBVIOUS
  <2>2. ~ (y < x)
    BY <1>2, <2>1
  <2> QED
    BY <2>1, <2>2
<1> QED
  BY <1>3

LEMMA Memory == Cardinality(Nodes) \in Nat /\ IsFiniteSet(Nodes) /\ Nil \notin Nodes
BY NodesAssumption, FS_CardinalityType

(* As many nodes as places, and no more than there are. *)
LEMMA ChainSize ==
    ASSUME NEW c \in Seq(Nodes), \A i, j \in 1 .. Len(c) : c[i] = c[j] => i = j
    PROVE  /\ Len(c) \in 0 .. Cardinality(Nodes)
           /\ Cardinality({c[i] : i \in 1 .. Len(c)}) = Len(c)
<1>1. PICK n \in Nat : n = Len(c)
  OBVIOUS
<1>2. PICK R : R = {c[i] : i \in 1 .. n}
  OBVIOUS
<1>3. IsFiniteSet(1 .. n) /\ Cardinality(1 .. n) = n
  <2>1. n \in Int /\ 1 \in Int /\ (1 > n => n = 0) /\ n - 1 + 1 = n
    OBVIOUS
  <2> QED
    BY <2>1, FS_Interval
<1>4. c \in [1 .. n -> R]
  BY <1>1, <1>2
<1>5. c \in Injection(1 .. n, R)
  BY <1>1, <1>4 DEF Injection, IsInjective
<1>6. c \in Surjection(1 .. n, R)
  BY <1>2, <1>4 DEF Surjection
<1>7. Cardinality(R) = n
  BY <1>3, <1>5, <1>6, FS_Bijection DEF ExistsBijection, Bijection
<1>8. R \in SUBSET Nodes
  <2>1. ASSUME NEW i \in 1 .. n
        PROVE  c[i] \in Nodes
    BY <1>1, <2>1, ElementOfSeq
  <2> QED
    BY <1>2, <2>1
<1>9. Cardinality(R) <= Cardinality(Nodes)
  BY <1>8, Memory, FS_Subset
<1>10. n \in 0 .. Cardinality(Nodes)
  BY <1>7, <1>9, Memory
<1> QED
  BY <1>1, <1>2, <1>7, <1>10

(* Following next from the head one meets the chain, and then nothing. *)
LEMMA Followed ==
    ASSUME NEW c \in Seq(Nodes), NEW h, NEW nx, NEW f,
           Meets(c, h, nx), Walks(f, h, nx)
    PROVE  \A i \in Places : f[i] = IF i <= Len(c) THEN c[i] ELSE Nil
<1> DEFINE Wrong == {i \in Places : f[i] # IF i <= Len(c) THEN c[i] ELSE Nil}
<1>1. Len(c) \in Nat /\ Places \subseteq Nat \ {0}
  BY Memory DEF Places
<1>0. /\ h = IF Len(c) = 0 THEN Nil ELSE c[1]
      /\ \A i \in 1 .. Len(c) : nx[c[i]] = IF i = Len(c) THEN Nil ELSE c[i + 1]
      /\ \A i \in Places : f[i] = IF i = 1 THEN h
                                  ELSE IF f[i - 1] = Nil THEN Nil ELSE nx[f[i - 1]]
  BY DEF Meets, Walks
<1>2. SUFFICES ASSUME Wrong # {} PROVE FALSE
  OBVIOUS
<1>3. PICK x \in Wrong : \A y \in Wrong : x <= y
  <2>1. Wrong \subseteq Nat
    BY <1>1
  <2> HIDE DEF Wrong
  <2> QED
    BY <1>2, <2>1, LeastNumber
<1>4. x \in Places /\ f[x] # IF x <= Len(c) THEN c[x] ELSE Nil
  BY <1>3
<1>5. CASE x = 1
  <2>1. f[x] = h
    BY <1>0, <1>4, <1>5
  <2>2. h = IF x <= Len(c) THEN c[x] ELSE Nil
    BY <1>0, <1>1, <1>5
  <2> QED
    BY <1>4, <2>1, <2>2
<1>6. CASE x # 1
  <2>1. x - 1 \in Places /\ x \in Nat /\ ~ (x <= x - 1) /\ (x - 1) + 1 = x
    BY <1>1, <1>4, <1>6, Memory DEF Places
  <2>2. x - 1 \notin Wrong
    BY <1>3, <2>1
  <2>3. f[x - 1] = IF x - 1 <= Len(c) THEN c[x - 1] ELSE Nil
    BY <2>1, <2>2
  <2>4. f[x] = IF f[x - 1] = Nil THEN Nil ELSE nx[f[x - 1]]
    BY <1>0, <1>4, <1>6
  <2>5. CASE x - 1 <= Len(c)
    <3>1. x - 1 \in 1 .. Len(c)
      BY <1>1, <1>4, <1>6, <2>1, <2>5
    <3>2. f[x - 1] = c[x - 1] /\ c[x - 1] \in Nodes
      BY <2>3, <2>5, <3>1, ElementOfSeq
    <3>3. f[x] = nx[c[x - 1]]
      BY <2>4, <3>2, Memory
    <3>4. nx[c[x - 1]] = IF x - 1 = Len(c) THEN Nil ELSE c[x]
      BY <1>0, <2>1, <3>1
    <3>5. x <= Len(c) <=> x - 1 # Len(c)
      BY <1>1, <2>1, <2>5
    <3> QED
      BY <1>4, <3>3, <3>4, <3>5
  <2>6. CASE ~ (x - 1 <= Len(c))
    <3>1. f[x] = Nil
      BY <2>3, <2>4, <2>6
    <3>2. ~ (x <= Len(c))
      BY <1>1, <2>1, <2>6
    <3> QED
      BY <1>4, <3>1, <3>2
  <2> QED
    BY <2>5, <2>6
<1> QED
  BY <1>5, <1>6

(* There is such a walk. *)
LEMMA Walkable ==
    ASSUME NEW c \in Seq(Nodes), NEW h, NEW nx, Meets(c, h, nx)
    PROVE  Walks(Table(c), h, nx)
<1>3. PICK g : g = Table(c)
  OBVIOUS
<1>4. /\ h = IF Len(c) = 0 THEN Nil ELSE c[1]
      /\ \A i \in 1 .. Len(c) : nx[c[i]] = IF i = Len(c) THEN Nil ELSE c[i + 1]
      /\ g = [i \in Places |-> IF i <= Len(c) THEN c[i] ELSE Nil]
  BY <1>3 DEF Meets, Table
<1>1. Len(c) \in Nat /\ Places \subseteq Nat \ {0}
  BY Memory DEF Places
<1>2. ASSUME NEW i \in Places
      PROVE  g[i] = IF i = 1 THEN h
                    ELSE IF g[i - 1] = Nil THEN Nil ELSE nx[g[i - 1]]
  <2>1. g[i] = IF i <= Len(c) THEN c[i] ELSE Nil
    BY <1>4
  <2>2. CASE i = 1
    BY <1>1, <1>4, <2>1, <2>2
  <2>3. CASE i # 1
    <3>1. i - 1 \in Places /\ i \in Nat /\ (i - 1) + 1 = i
      BY <1>1, <2>3, Memory DEF Places
    <3>2. g[i - 1] = IF i - 1 <= Len(c) THEN c[i - 1] ELSE Nil
      BY <1>4, <3>1
    <3>3. CASE i - 1 <= Len(c)
      <4>1. i - 1 \in 1 .. Len(c)
        BY <1>1, <2>3, <3>1, <3>3
      <4>2. g[i - 1] = c[i - 1] /\ c[i - 1] \in Nodes
        BY <3>2, <3>3, <4>1, ElementOfSeq
      <4>3. nx[c[i - 1]] = IF i - 1 = Len(c) THEN Nil ELSE c[i]
        BY <1>4, <3>1, <4>1
      <4>4. i <= Len(c) <=> i - 1 # Len(c)
        BY <1>1, <3>1, <3>3
      <4> QED
        BY <2>1, <2>3, <4>2, <4>3, <4>4, Memory
    <3>4. CASE ~ (i - 1 <= Len(c))
      <4>1. ~ (i <= Len(c))
        BY <1>1, <3>1, <3>4
      <4> QED
        BY <2>1, <2>3, <3>2, <3>4, <4>1
    <3> QED
      BY <3>3, <3>4
  <2> QED
    BY <2>2, <2>3
<1>5. g = [i \in Places |-> IF i = 1 THEN h
                            ELSE IF g[i - 1] = Nil THEN Nil ELSE nx[g[i - 1]]]
  BY <1>2, <1>4
<1>6. Walks(g, h, nx)
  BY <1>5, Zenon DEF Walks
<1> QED
  BY <1>3, <1>6

(* What the definitions over Nth say of a chain. *)
Listed(c) == [i \in 1 .. Len(c) |-> data[c[i]]]

LEMMA NthNode ==
    ASSUME NEW c \in Seq(Nodes), IsChain(c)
    PROVE  /\ DOMAIN Nth = Places
           /\ \A i \in Places : Nth[i] = IF i <= Len(c) THEN c[i] ELSE Nil
<1>1. Meets(c, head, next)
  BY DEF IsChain, Meets
<1>2. Walks(Table(c), head, next)
  BY <1>1, Walkable
<1>3. Walks(Nth, head, next)
  BY <1>2, Zenon DEF Nth, Places, Walks
<1>4. DOMAIN Nth = Places
  BY <1>3 DEF Walks
<1> QED
  BY <1>1, <1>3, <1>4, Followed

LEMMA NthChain ==
    \A c \in Seq(Nodes) : IsChain(c) =>
        /\ Cardinality({i \in DOMAIN Nth : Nth[i] # Nil}) = Len(c)
        /\ Len(c) \in 0 .. Cardinality(Nodes)
        /\ \A i \in 1 .. Len(c) : Nth[i] = c[i]
        /\ Owned = {c[i] : i \in 1 .. Len(c)}
        /\ Cardinality(Owned) = Len(c)
        /\ contents = Listed(c)
<1> SUFFICES ASSUME NEW c \in Seq(Nodes), IsChain(c)
             PROVE  /\ Cardinality({i \in DOMAIN Nth : Nth[i] # Nil}) = Len(c)
                    /\ Len(c) \in 0 .. Cardinality(Nodes)
                    /\ \A i \in 1 .. Len(c) : Nth[i] = c[i]
                    /\ Owned = {c[i] : i \in 1 .. Len(c)}
                    /\ Cardinality(Owned) = Len(c)
                    /\ contents = Listed(c)
  OBVIOUS
<1>1. /\ DOMAIN Nth = Places
      /\ \A i \in Places : Nth[i] = IF i <= Len(c) THEN c[i] ELSE Nil
  BY NthNode
<1>2. /\ Len(c) \in 0 .. Cardinality(Nodes)
      /\ Cardinality({c[i] : i \in 1 .. Len(c)}) = Len(c)
  BY ChainSize DEF IsChain
<1>3. PICK n \in Nat, m \in Nat : n = Len(c) /\ m = Cardinality(Nodes)
  BY Memory
<1>4. n <= m
  <2>1. Len(c) \in 0 .. Cardinality(Nodes)
    BY <1>2
  <2>2. n \in 0 .. m
    BY <1>3, <2>1
  <2> QED
    BY <2>2
<1>5. Places = 1 .. m + 1
  BY <1>3 DEF Places
<1>6. \A i \in 1 .. Len(c) : i \in Places /\ i <= Len(c) /\ c[i] \in Nodes /\ c[i] # Nil
  <2> SUFFICES ASSUME NEW i \in 1 .. Len(c)
               PROVE  i \in Places /\ i <= Len(c) /\ c[i] \in Nodes /\ c[i] # Nil
    OBVIOUS
  <2>1. c[i] \in Nodes
    BY ElementOfSeq
  <2>2. i \in Places /\ i <= n
    BY <1>3, <1>4, <1>5
  <2> QED
    BY <1>3, <2>1, <2>2, Memory
<1>7. \A i \in 1 .. Len(c) : Nth[i] = c[i] /\ Nth[i] # Nil
  BY <1>1, <1>6
<1>8. \A i \in Places : Nth[i] # Nil => i \in 1 .. Len(c)
  <2> SUFFICES ASSUME NEW i \in Places, Nth[i] # Nil
               PROVE  i \in 1 .. Len(c)
    OBVIOUS
  <2>1. i <= n
    BY <1>1, <1>3
  <2>2. i \in 1 .. n
    BY <1>5, <2>1
  <2> QED
    BY <1>3, <2>2
<1>9. {i \in DOMAIN Nth : Nth[i] # Nil} = 1 .. Len(c)
  BY <1>1, <1>6, <1>7, <1>8
<1>10. Cardinality(1 .. Len(c)) = Len(c)
  <2>1. n \in Int /\ 1 \in Int /\ (1 > n => n = 0) /\ n - 1 + 1 = n
    OBVIOUS
  <2>2. Cardinality(1 .. n) = n
    BY <2>1, FS_Interval
  <2> QED
    BY <1>3, <2>2
<1>11. Owned = {c[i] : i \in 1 .. Len(c)}
  <2>1. ASSUME NEW x, x \in Owned
        PROVE  x \in {c[i] : i \in 1 .. Len(c)}
    <3>1. x # Nil /\ (x = tail \/ \E i \in Places : x = Nth[i])
      BY <1>1, <2>1 DEF Owned
    <3>2. CASE x = tail
      <4>1. Len(c) # 0 /\ x = c[Len(c)] /\ Len(c) \in 1 .. Len(c)
        BY <1>2, <3>1, <3>2 DEF IsChain
      <4> QED
        BY <4>1
    <3>3. ASSUME NEW i \in Places, x = Nth[i]
          PROVE  x \in {c[j] : j \in 1 .. Len(c)}
      BY <1>7, <1>8, <3>1, <3>3
    <3> QED
      BY <3>1, <3>2, <3>3
  <2>2. ASSUME NEW i \in 1 .. Len(c)
        PROVE  c[i] \in Owned
    BY <1>1, <1>6, <1>7 DEF Owned
  <2> QED
    BY <2>1, <2>2
<1>12. contents = Listed(c)
  BY <1>7, <1>9, <1>10 DEF contents, Listed
<1> QED
  BY <1>2, <1>7, <1>9, <1>10, <1>11, <1>12

LEMMA InvAgrees == Inv => ListInv
<1> SUFFICES ASSUME Inv, phase # "destroy" PROVE EndsAgree
  BY DEF Inv, ListInv, EndsAgree
<1>1. PICK c \in Seq(Nodes) : IsChain(c)
  BY DEF Inv
<1>2. /\ Cardinality({i \in DOMAIN Nth : Nth[i] # Nil}) = Len(c)
      /\ \A i \in 1 .. Len(c) : Nth[i] = c[i]
      /\ Cardinality(Owned) = Len(c)
  BY <1>1, NthChain
<1>3. length = Len(c) /\ tail = IF Len(c) = 0 THEN Nil ELSE c[Len(c)]
  BY <1>1 DEF IsChain
<1>4. Len(c) # 0 => Len(c) \in 1 .. Len(c)
  OBVIOUS
<1>5. tail = IF length = 0 THEN Nil ELSE Nth[length]
  BY <1>2, <1>3, <1>4
<1> QED
  BY <1>2, <1>3, <1>5 DEF EndsAgree
-----------------------------------------------------------------------------
(* The steps.  Types first: push makes room, and pop leaves it. *)
LEMMA InitInv == Init => Inv
<1> SUFFICES ASSUME Init PROVE Inv
  OBVIOUS
<1>1. PICK c \in Seq(Nodes) : Len(c) = 0
  BY EmptySeq
<1>2. IsChain(c)
  BY <1>1 DEF Init, IsChain
<1>3. ListTypeOK
  BY Memory, FramesAssumption DEF Init, ListTypeOK, AllNil, Pointers
<1> QED
  BY <1>2, <1>3 DEF Inv, Init

(* The next state of an idle list. *)
LEMMA IdleNext ==
    ASSUME ListTypeOK, phase' = "idle", out' \in Seq(Values), temp' = temp, depth' = depth \/ depth' = 0,
           fate' \in {"up", "nullpointer", "stackoverflow"},
           data' \in [Nodes -> Values \cup {Nil}], next' \in [Nodes -> Pointers],
           NEW c \in Seq(Nodes), IsChain(c)'
    PROVE  Inv'
<1>1. Len(c) \in 0 .. Cardinality(Nodes)
  BY ChainSize DEF IsChain
<1>2. {head', tail'} \subseteq Pointers /\ length' \in 0 .. Cardinality(Nodes)
  <2>1. Len(c) # 0 => c[1] \in Nodes /\ c[Len(c)] \in Nodes
    BY ElementOfSeq
  <2>2. /\ head' = IF Len(c) = 0 THEN Nil ELSE c[1]
        /\ tail' = IF Len(c) = 0 THEN Nil ELSE c[Len(c)]
        /\ length' = Len(c)
    BY DEF IsChain
  <2> QED
    BY <1>1, <2>1, <2>2 DEF Pointers
<1>3. ListTypeOK'
  BY <1>2, FramesAssumption DEF ListTypeOK
<1> QED
  BY <1>3 DEF Inv

(* A new node behind the last. *)
LEMMA PushLonger ==
    ASSUME NEW c \in Seq(Nodes), NEW n \in Nodes, IsChain(c), NEW v \in Values,
           \A i \in 1 .. Len(c) : c[i] # n,
           ListTypeOK,
           head' = IF head = Nil THEN n ELSE head,
           next' = IF head = Nil THEN [next EXCEPT ![n] = Nil]
                                 ELSE [next EXCEPT ![tail] = n, ![n] = Nil],
           tail' = n, length' = length + 1,
           data' = [data EXCEPT ![n] = v]
    PROVE  IsChain(Append(c, n))'
<1>1. PICK d \in Seq(Nodes), m \in Nat :
        /\ d = Append(c, n) /\ m = Len(c) /\ Len(d) = m + 1
        /\ \A i \in 1 .. m : d[i] = c[i]
        /\ d[m + 1] = n
  <2>1. PICK m \in Nat : m = Len(c)
    OBVIOUS
  <2>2. /\ Append(c, n) \in Seq(Nodes) /\ Len(Append(c, n)) = m + 1
        /\ \A i \in 1 .. m : Append(c, n)[i] = c[i]
        /\ Append(c, n)[m + 1] = n
    BY <2>1, AppendProperties
  <2> QED
    BY <2>1, <2>2
<1>2. /\ \A i, j \in 1 .. m : c[i] = c[j] => i = j
      /\ head = IF m = 0 THEN Nil ELSE c[1]
      /\ tail = IF m = 0 THEN Nil ELSE c[m]
      /\ length = m
      /\ \A i \in 1 .. m : next[c[i]] = IF i = m THEN Nil ELSE c[i + 1]
      /\ \A i \in 1 .. m : data[c[i]] \in Values
  BY <1>1 DEF IsChain
<1>3. \A i \in 1 .. m : c[i] \in Nodes /\ c[i] # n /\ c[i] # Nil
  BY <1>1, Memory, ElementOfSeq
<1>4. head = Nil <=> m = 0
  BY <1>1, <1>2, <1>3
<1>5. \A i, j \in 1 .. m + 1 : d[i] = d[j] => i = j
  BY <1>1, <1>2, <1>3
<1>6. head' = d[1] /\ tail' = d[m + 1] /\ length' = m + 1
  BY <1>1, <1>2, <1>4
<1>7. ASSUME NEW i \in 1 .. m + 1
      PROVE  next'[d[i]] = IF i = m + 1 THEN Nil ELSE d[i + 1]
  <2>1. CASE i = m + 1
    BY <1>1, <2>1 DEF ListTypeOK
  <2>2. CASE i = m
    <3>1. m # 0 /\ tail = c[m] /\ d[i] = c[m] /\ d[i + 1] = n /\ c[m] # n /\ c[m] \in Nodes
      BY <1>1, <1>2, <1>3, <2>2
    <3>2. next'[c[m]] = n
      BY <1>4, <3>1 DEF ListTypeOK
    <3> QED
      BY <1>1, <2>2, <3>1, <3>2
  <2>3. CASE i \in 1 .. m - 1
    <3>1. i \in 1 .. m /\ i + 1 \in 1 .. m /\ m \in 1 .. m /\ m # 0 /\ i # m + 1 /\ i # m
      BY <1>1, <2>3
    <3>2. d[i] = c[i] /\ d[i + 1] = c[i + 1] /\ tail = c[m] /\ c[i] # c[m]
      BY <1>1, <1>2, <3>1
    <3>3. next'[c[i]] = next[c[i]]
      BY <1>3, <1>4, <3>1, <3>2 DEF ListTypeOK
    <3> QED
      BY <1>2, <3>1, <3>2, <3>3
  <2> QED
    BY <1>1, <2>1, <2>2, <2>3
<1>8. ASSUME NEW i \in 1 .. m + 1
      PROVE  data'[d[i]] \in Values
  <2>1. CASE i = m + 1
    BY <1>1, <2>1 DEF ListTypeOK
  <2>2. CASE i \in 1 .. m
    BY <1>1, <1>2, <1>3, <2>2 DEF ListTypeOK
  <2> QED
    BY <1>1, <2>1, <2>2
<1>9. IsChain(d)'
  <2>1. m + 1 # 0 /\ Len(d) = m + 1
    BY <1>1
  <2> QED
    BY <1>5, <1>6, <1>7, <1>8, <2>1 DEF IsChain
<1> QED
  BY <1>1, <1>9

(* The first node is cut off. *)
LEMMA PopShorter ==
    ASSUME NEW c \in Seq(Nodes), IsChain(c), length # 0, ListTypeOK, Unlink,
           data' = data
    PROVE  IsChain(Tail(c))'
<1>1. PICK m \in Nat : m = Len(c)
  OBVIOUS
<1>2. /\ \A i, j \in 1 .. m : c[i] = c[j] => i = j
      /\ head = IF m = 0 THEN Nil ELSE c[1]
      /\ tail = IF m = 0 THEN Nil ELSE c[m]
      /\ length = m
      /\ \A i \in 1 .. m : next[c[i]] = IF i = m THEN Nil ELSE c[i + 1]
      /\ \A i \in 1 .. m : data[c[i]] \in Values
  BY <1>1 DEF IsChain
<1>3. m # 0 /\ c # << >>
  BY <1>1, <1>2
<1>4. PICK d \in Seq(Nodes) :
        /\ d = Tail(c) /\ Len(d) = m - 1
        /\ \A i \in 1 .. m - 1 : d[i] = c[i + 1]
  <2>1. /\ Tail(c) \in Seq(Nodes) /\ Len(Tail(c)) = Len(c) - 1
        /\ \A i \in 1 .. Len(Tail(c)) : Tail(c)[i] = c[i + 1]
    BY <1>3, HeadTailProperties
  <2> QED
    BY <1>1, <2>1
<1>5. \A i \in 1 .. m : c[i] \in Nodes
  BY <1>1, ElementOfSeq
<1>6. 1 \in 1 .. m /\ head = c[1]
  BY <1>2, <1>3
<1>7. head' = IF m - 1 = 0 THEN Nil ELSE d[1]
  <2>1. head' = next[c[1]]
    BY <1>6 DEF Unlink
  <2>2. next[c[1]] = IF 1 = m THEN Nil ELSE c[1 + 1]
    BY <1>2, <1>6
  <2>3. 1 # m => 1 \in 1 .. m - 1
    BY <1>3
  <2> QED
    BY <1>4, <2>1, <2>2, <2>3
<1>8. length' = m - 1
  BY <1>2 DEF Unlink
<1>9. CASE m = 1
  <2>0. m - 1 = 0
    BY <1>9
  <2>1. head' = Nil /\ tail' = Nil /\ length' = 0 /\ Len(d) = 0
    BY <1>4, <1>7, <1>8, <2>0 DEF Unlink
  <2>2. IsChain(d)'
    BY <2>1 DEF IsChain
  <2> QED
    BY <1>4, <2>2
<1>10. CASE m # 1
  <2>1. length' # 0 /\ m - 1 # 0 /\ m - 1 \in 1 .. m - 1
    BY <1>3, <1>8, <1>10
  <2>2. next' = [next EXCEPT ![c[1]] = Nil] /\ tail' = tail
    BY <1>6, <2>1 DEF Unlink
  <2>3. tail' = d[m - 1]
    BY <1>2, <1>3, <1>4, <2>1, <2>2
  <2>4. ASSUME NEW i \in 1 .. m - 1
        PROVE  /\ i + 1 \in 1 .. m /\ d[i] = c[i + 1] /\ c[i + 1] # c[1]
               /\ next'[d[i]] = next[c[i + 1]]
    <3>1. i + 1 \in 1 .. m /\ i + 1 # 1
      OBVIOUS
    <3>2. d[i] = c[i + 1] /\ c[i + 1] # c[1]
      BY <1>2, <1>4, <1>6, <3>1
    <3> QED
      BY <1>5, <2>2, <3>1, <3>2 DEF ListTypeOK
  <2>5. \A i, j \in 1 .. m - 1 : d[i] = d[j] => i = j
    <3>1. ASSUME NEW i \in 1 .. m - 1, NEW j \in 1 .. m - 1, d[i] = d[j]
          PROVE  i + 1 = j + 1
      BY <1>2, <2>4, <3>1
    <3> QED
      BY <3>1
  <2>6. ASSUME NEW i \in 1 .. m - 1
        PROVE  next'[d[i]] = IF i = m - 1 THEN Nil ELSE d[i + 1]
    <3>1. next'[d[i]] = IF i + 1 = m THEN Nil ELSE c[(i + 1) + 1]
      BY <1>2, <2>4
    <3>2. i # m - 1 => i + 1 \in 1 .. m - 1
      OBVIOUS
    <3> QED
      BY <1>4, <3>1, <3>2
  <2>7. \A i \in 1 .. m - 1 : data'[d[i]] \in Values
    BY <1>2, <2>4
  <2>8. IsChain(d)'
    BY <1>4, <1>7, <1>8, <2>1, <2>3, <2>5, <2>6, <2>7 DEF IsChain
  <2> QED
    BY <1>4, <2>8
<1> QED
  BY <1>9, <1>10

LEMMA Pushed ==
    ASSUME Inv, NEW v \in Values, push(v)
    PROVE  \E c \in Seq(Nodes), n \in Nodes :
              /\ IsChain(c) /\ IsChain(Append(c, n))'
              /\ \A i \in 1 .. Len(c) : c[i] # n
              /\ data' = [data EXCEPT ![n] = v]
              /\ next' \in [Nodes -> Pointers]
<1>1. PICK c \in Seq(Nodes) : IsChain(c)
  BY DEF Inv, push, Idle
<1>2. PICK n : n = NewNode
  OBVIOUS
<1>3. /\ ListTypeOK /\ phase = "idle" /\ Owned # Nodes
      /\ head' = IF head = Nil THEN n ELSE head
      /\ next' = IF head = Nil THEN [next EXCEPT ![n] = Nil]
                               ELSE [next EXCEPT ![tail] = n, ![n] = Nil]
      /\ tail' = n /\ length' = length + 1
      /\ data' = [data EXCEPT ![n] = v] /\ out' = << >>
      /\ UNCHANGED << walk, fate >>
  BY <1>2 DEF Inv, push, Idle
<1>4. Owned = {c[i] : i \in 1 .. Len(c)}
  BY <1>1, NthChain
<1>5. n \in Nodes \ Owned
  <2>1. \A i \in 1 .. Len(c) : c[i] \in Nodes
    BY ElementOfSeq
  <2>2. \E x : x \in Nodes \ Owned
    BY <1>3, <1>4, <2>1
  <2> QED
    BY <1>2, <2>2 DEF NewNode
<1>6. IsChain(Append(c, n))'
  BY <1>1, <1>3, <1>4, <1>5, PushLonger
<1>7. next' \in [Nodes -> Pointers]
  BY <1>3, <1>5 DEF ListTypeOK, Pointers
<1> QED
  BY <1>1, <1>3, <1>4, <1>5, <1>6, <1>7

LEMMA PushInv ==
    ASSUME Inv, NEW v \in Values, push(v)
    PROVE  Inv'
<1>1. PICK c \in Seq(Nodes), n \in Nodes :
        /\ IsChain(Append(c, n))'
        /\ data' = [data EXCEPT ![n] = v] /\ next' \in [Nodes -> Pointers]
  BY Pushed
<1>2. /\ ListTypeOK /\ phase = "idle" /\ out' = << >> /\ UNCHANGED << walk, fate >>
  BY DEF Inv, push, Idle
<1>3. Append(c, n) \in Seq(Nodes)
  BY AppendProperties
<1>4. data' \in [Nodes -> Values \cup {Nil}] /\ out' \in Seq(Values)
  BY <1>1, <1>2, EmptySeq DEF ListTypeOK
<1>5. phase' = "idle" /\ fate' \in {"up", "nullpointer", "stackoverflow"}
  BY <1>2 DEF walk, ListTypeOK
<1> QED
  BY <1>1, <1>2, <1>3, <1>4, <1>5, IdleNext DEF walk

LEMMA PopInv ==
    ASSUME Inv, pop
    PROVE  Inv'
<1>1. PICK c \in Seq(Nodes) : IsChain(c)
  BY DEF Inv, pop, Idle
<1>2. ListTypeOK /\ phase = "idle" /\ UNCHANGED walk
  BY DEF Inv, pop, Idle
<1>3. CASE length = 0
  <2>1. fate' = "nullpointer" /\ UNCHANGED << list, out >>
    BY <1>3 DEF pop
  <2>2. IsChain(c)'
    BY <1>1, <2>1 DEF IsChain, list
  <2> QED
    BY <1>2, <2>1, <2>2, IdleNext DEF walk, list, ListTypeOK
<1>4. CASE length # 0
  <2>1. Unlink /\ out' = << data[head] >> /\ data' = data /\ fate' = fate
    BY <1>4 DEF pop
  <2>2. IsChain(Tail(c))'
    BY <1>1, <1>2, <1>4, <2>1, PopShorter
  <2>3. c # << >> /\ 1 \in 1 .. Len(c)
    BY <1>1, <1>4 DEF IsChain
  <2>4. Tail(c) \in Seq(Nodes)
    BY <2>3, HeadTailProperties
  <2>5. data[head] \in Values /\ head \in Nodes
    BY <1>1, <2>3, ElementOfSeq DEF IsChain
  <2>6. out' \in Seq(Values)
    BY <2>1, <2>5
  <2>7. next' \in [Nodes -> Pointers]
    BY <1>2, <2>1, <2>5 DEF Unlink, ListTypeOK, Pointers
  <2> QED
    BY <1>2, <2>1, <2>2, <2>4, <2>6, <2>7, IdleNext DEF walk, ListTypeOK
<1> QED
  BY <1>3, <1>4

(* print stands before the first node, and shows one at a time. *)
LEMMA PrintInv ==
    ASSUME Inv, print
    PROVE  Inv'
<1>1. PICK c \in Seq(Nodes) : IsChain(c)
  BY DEF Inv, print, Idle
<1>2. /\ ListTypeOK /\ phase' = "print" /\ temp' = head /\ out' = << >>
      /\ UNCHANGED << list, depth, fate >>
  BY DEF Inv, print
<1>3. ListTypeOK'
  BY <1>2, EmptySeq DEF ListTypeOK, list
<1>4. IsChain(c)'
  BY <1>1, <1>2 DEF IsChain, list
<1>5. PICK j \in Nat : j = 0
  OBVIOUS
<1>6. Printed(c, j)' /\ j \in 0 .. Len(c)
  <2>1. head = IF j = Len(c) THEN Nil ELSE c[j + 1]
    BY <1>1, <1>5 DEF IsChain
  <2>2. << >> = [i \in 1 .. j |-> data'[c[i]]]
    BY <1>5
  <2> QED
    BY <1>2, <1>5, <2>1, <2>2 DEF Printed
<1> QED
  BY <1>2, <1>3, <1>4, <1>6 DEF Inv

LEMMA PrintNodeInv ==
    ASSUME Inv, printNode
    PROVE  Inv'
<1>1. PICK c \in Seq(Nodes), j \in Nat : IsChain(c) /\ j \in 0 .. Len(c) /\ Printed(c, j)
  BY DEF Inv, printNode
<1>2. ListTypeOK /\ phase = "print" /\ UNCHANGED << list, depth, fate >>
  BY DEF Inv, printNode
<1>3. IsChain(c)'
  BY <1>1, <1>2 DEF IsChain, list
<1>4. CASE temp = Nil
  <2>1. phase' = "idle" /\ UNCHANGED << temp, out >>
    BY <1>4 DEF printNode
  <2> QED
    BY <1>2, <1>3, <2>1, IdleNext DEF list, ListTypeOK
<1>5. CASE temp # Nil
  <2>1. temp' = next[temp] /\ out' = Append(out, data[temp]) /\ phase' = "print"
    BY <1>2, <1>5 DEF printNode
  <2>2. /\ temp = c[j + 1] /\ j + 1 \in 1 .. Len(c) /\ j + 1 \in Nat /\ temp \in Nodes
    <3>1. j # Len(c) /\ temp = c[j + 1]
      BY <1>1, <1>5 DEF Printed
    <3>2. j + 1 \in 1 .. Len(c)
      BY <1>1, <3>1
    <3> QED
      BY <1>1, <3>1, <3>2, ElementOfSeq
  <2>3. data[temp] \in Values /\ next[temp] \in Pointers
    BY <1>1, <1>2, <2>2 DEF IsChain, ListTypeOK
  <2>4. ListTypeOK'
    BY <1>2, <2>1, <2>3, AppendProperties DEF ListTypeOK, list
  <2>5. temp' = IF j + 1 = Len(c) THEN Nil ELSE c[(j + 1) + 1]
    BY <1>1, <2>1, <2>2 DEF IsChain
  <2>6. out' = [i \in 1 .. j + 1 |-> data[c[i]]]
    <3>1. PICK o \in Seq(Values) : o = out
      BY <1>2 DEF ListTypeOK
    <3>2. o = [i \in 1 .. j |-> data[c[i]]] /\ Len(o) = j
      BY <1>1, <3>1 DEF Printed
    <3>3. out' = Append(o, data[c[j + 1]])
      BY <2>1, <2>2, <3>1
    <3>4. Append(o, data[c[j + 1]])
            = [i \in 1 .. j + 1 |-> IF i <= j THEN o[i] ELSE data[c[j + 1]]]
      BY <3>2
    <3>5. \A i \in 1 .. j + 1 :
            (IF i <= j THEN o[i] ELSE data[c[j + 1]]) = data[c[i]]
      BY <3>2
    <3> QED
      BY <3>3, <3>4, <3>5
  <2>7. Printed(c, j + 1)'
    BY <1>2, <2>5, <2>6 DEF Printed, list
  <2>8. j + 1 \in 0 .. Len(c)
    BY <2>2
  <2> QED
    BY <1>3, <2>1, <2>4, <2>7, <2>8 DEF Inv
<1> QED
  BY <1>4, <1>5

(* While it is destroyed a list is nothing that anybody looks at. *)
LEMMA DestroyInv ==
    ASSUME Inv, destroy \/ destroyNode
    PROVE  Inv'
<1>1. ListTypeOK
  BY DEF Inv
<1>2. CASE destroy
  <2>1. /\ phase' = "destroy" /\ temp' = head /\ tail' = Nil /\ out' = << >>
        /\ UNCHANGED << data, next, head, length, depth, fate >>
    BY <1>2 DEF destroy
  <2>2. ListTypeOK'
    BY <1>1, <2>1, EmptySeq DEF ListTypeOK, Pointers
  <2> QED
    BY <2>1, <2>2 DEF Inv
<1>3. CASE destroyNode /\ temp # Nil
  <2>1. /\ phase' = "destroy" /\ UNCHANGED << list, out >>
        /\ \/ fate' = "stackoverflow" /\ UNCHANGED << depth, temp >>
           \/ /\ depth # Frames /\ depth' = depth + 1
              /\ temp' = next[temp] /\ UNCHANGED fate
    BY <1>3 DEF destroyNode
  <2>2. temp \in Nodes /\ depth \in 0 .. Frames /\ Frames \in Nat
    BY <1>1, <1>3, FramesAssumption DEF ListTypeOK, Pointers
  <2>3. ListTypeOK'
    BY <1>1, <2>1, <2>2 DEF ListTypeOK, list
  <2>4. tail' = Nil
    BY <1>3, <2>1 DEF Inv, destroyNode, list
  <2> QED
    BY <2>1, <2>3, <2>4 DEF Inv
<1>4. CASE destroyNode /\ temp = Nil
  <2>1. /\ data' = AllNil /\ next' = AllNil /\ head' = Nil /\ length' = 0
        /\ phase' = "idle" /\ depth' = 0 /\ UNCHANGED << tail, temp, fate, out >>
    BY <1>4 DEF destroyNode
  <2>2. PICK c \in Seq(Nodes) : Len(c) = 0
    BY EmptySeq
  <2>3. IsChain(c)'
    <3>1. tail = Nil
      BY <1>4 DEF Inv, destroyNode
    <3> QED
      BY <2>1, <2>2, <3>1 DEF IsChain
  <2>4. /\ data' \in [Nodes -> Values \cup {Nil}] /\ next' \in [Nodes -> Pointers]
        /\ out' \in Seq(Values) /\ fate' \in {"up", "nullpointer", "stackoverflow"}
    BY <1>1, <2>1 DEF ListTypeOK, AllNil, Pointers
  <2> QED
    BY <1>1, <2>1, <2>2, <2>3, <2>4, IdleNext
<1> QED
  BY <1>2, <1>3, <1>4

LEMMA NextInv == Inv /\ [Next]_vars => Inv'
<1> SUFFICES ASSUME Inv, [Next]_vars PROVE Inv'
  OBVIOUS
<1>1. CASE UNCHANGED vars
  BY <1>1 DEF vars, list, walk, Inv, ListTypeOK, IsChain, Printed
<1> QED
  BY <1>1, PushInv, PopInv, PrintInv, PrintNodeInv, DestroyInv DEF Next

LEMMA InvHolds == Spec => []Inv
BY InitInv, NextInv, PTL DEF Spec

(* Head, tail and length agree with the chain after every push and pop, and  *)
(* nothing that was popped hangs on it (List::push, List::pop).              *)
THEOREM EndsMeet == Spec => []ListInv
BY InvAgrees, InvHolds, PTL
-----------------------------------------------------------------------------
(* The chain as a queue, before and after a step. *)
LEMMA ContentsNow ==
    /\ \A c \in Seq(Nodes) : IsChain(c) => contents = Listed(c)
    /\ (\A c \in Seq(Nodes) : IsChain(c) => contents = Listed(c))'
<1>1. \A c \in Seq(Nodes) : IsChain(c) => contents = Listed(c)
  BY NthChain
<1> QED
  BY <1>1, PTL

LEMMA ListedTyped ==
    ASSUME NEW c \in Seq(Nodes), IsChain(c)
    PROVE  Listed(c) \in Seq(Values) /\ Len(Listed(c)) = Len(c)
<1>1. Listed(c) \in [1 .. Len(c) -> Values] /\ Len(c) \in Nat
  BY DEF Listed, IsChain
<1> QED
  BY <1>1

(* What abstract state an idle or a printing list has. *)
Queue == IF phase = "destroy" THEN << >> ELSE contents

LEMMA SameQueue ==
    ASSUME Inv, UNCHANGED list, phase # "destroy", phase' # "destroy"
    PROVE  Queue' = Queue
<1>1. PICK c \in Seq(Nodes) : IsChain(c)
  BY DEF Inv
<1>2. IsChain(c)'
  BY <1>1 DEF IsChain, list
<1>3. contents = Listed(c) /\ contents' = Listed(c)'
  BY <1>1, <1>2, ContentsNow
<1>4. Listed(c)' = Listed(c)
  BY DEF Listed, list
<1> QED
  BY <1>3, <1>4 DEF Queue

LEMMA PushRefines ==
    ASSUME Inv, NEW v \in Values, push(v)
    PROVE  F!Push(v)
<1>1. PICK c \in Seq(Nodes), n \in Nodes :
        /\ IsChain(c) /\ IsChain(Append(c, n))'
        /\ \A i \in 1 .. Len(c) : c[i] # n
        /\ data' = [data EXCEPT ![n] = v]
  BY Pushed
<1>2. PICK d \in Seq(Nodes), m \in Nat :
        /\ d = Append(c, n) /\ m = Len(c) /\ Len(d) = m + 1
        /\ \A i \in 1 .. m : d[i] = c[i]
        /\ d[m + 1] = n
  <2>1. PICK m \in Nat : m = Len(c)
    OBVIOUS
  <2>2. /\ Append(c, n) \in Seq(Nodes) /\ Len(Append(c, n)) = m + 1
        /\ \A i \in 1 .. m : Append(c, n)[i] = c[i]
        /\ Append(c, n)[m + 1] = n
    BY <2>1, AppendProperties
  <2> QED
    BY <2>1, <2>2
<1>3. contents = Listed(c) /\ contents' = Listed(d)'
  BY <1>1, <1>2, ContentsNow
<1>4. PICK o \in Seq(Values) : o = Listed(c) /\ Len(o) = m
  BY <1>1, <1>2, ListedTyped
<1>5. ASSUME NEW i \in 1 .. m + 1
      PROVE  data'[d[i]] = IF i <= m THEN o[i] ELSE v
  <2>1. CASE i \in 1 .. m
    <3>1. d[i] = c[i] /\ c[i] # n /\ c[i] \in Nodes /\ o[i] = data[c[i]] /\ i <= m
      BY <1>1, <1>2, <1>4, <2>1, ElementOfSeq DEF Listed
    <3>2. data'[c[i]] = data[c[i]]
      BY <1>1, <3>1 DEF Inv, ListTypeOK
    <3> QED
      BY <3>1, <3>2
  <2>2. CASE i = m + 1
    <3>1. data'[n] = v
      BY <1>1 DEF Inv, ListTypeOK
    <3>2. d[i] = n /\ ~ (i <= m)
      BY <1>2, <2>2
    <3> QED
      BY <3>1, <3>2
  <2> QED
    BY <2>1, <2>2
<1>6. Listed(d)' = [i \in 1 .. m + 1 |-> IF i <= m THEN o[i] ELSE v]
  BY <1>2, <1>5 DEF Listed
<1>7. Append(o, v) = [i \in 1 .. m + 1 |-> IF i <= m THEN o[i] ELSE v]
  <2>1. /\ Append(o, v) \in Seq(Values) /\ Len(Append(o, v)) = Len(o) + 1
        /\ \A i \in 1 .. Len(o) : Append(o, v)[i] = o[i]
        /\ Append(o, v)[Len(o) + 1] = v
    BY AppendProperties
  <2>2. PICK a \in Seq(Values) : a = Append(o, v)
    BY <2>1
  <2>3. Len(o) = m
    BY <1>4
  <2>4. /\ Len(a) = m + 1 /\ a[m + 1] = v
        /\ \A i \in 1 .. m : a[i] = o[i]
    BY <2>1, <2>2, <2>3
  <2>5. a = [i \in 1 .. m + 1 |-> a[i]]
    BY <2>4
  <2>6. ASSUME NEW i \in 1 .. m + 1
        PROVE  a[i] = IF i <= m THEN o[i] ELSE v
    <3>1. i = m + 1 \/ i \in 1 .. m
      OBVIOUS
    <3>2. i = m + 1 => ~ (i <= m)
      OBVIOUS
    <3> QED
      BY <2>4, <3>1, <3>2
  <2> QED
    BY <2>2, <2>5, <2>6
<1>8. contents' = Append(contents, v)
  BY <1>3, <1>4, <1>6, <1>7
<1>9. phase = "idle" /\ phase' = "idle" /\ out' = << >>
  BY DEF push, Idle, walk
<1> QED
  BY <1>8, <1>9 DEF F!Push, shown

LEMMA PopRefines ==
    ASSUME Inv, pop, length # 0
    PROVE  F!Pop
<1>1. PICK c \in Seq(Nodes) : IsChain(c)
  BY DEF Inv, pop, Idle
<1>2. /\ Unlink /\ out' = << data[head] >> /\ data' = data
      /\ ListTypeOK /\ phase = "idle" /\ phase' = "idle"
  BY DEF Inv, pop, Idle, walk
<1>3. c # << >> /\ 1 \in 1 .. Len(c) /\ head = c[1]
  BY <1>1 DEF IsChain
<1>4. Tail(c) \in Seq(Nodes) /\ IsChain(Tail(c))'
  BY <1>1, <1>2, <1>3, PopShorter, HeadTailProperties
<1>5. PICK m \in Nat : m = Len(c)
  OBVIOUS
<1>6. PICK d \in Seq(Nodes) :
        /\ d = Tail(c) /\ Len(d) = m - 1
        /\ \A i \in 1 .. m - 1 : d[i] = c[i + 1]
  <2>1. /\ Tail(c) \in Seq(Nodes) /\ Len(Tail(c)) = Len(c) - 1
        /\ \A i \in 1 .. Len(Tail(c)) : Tail(c)[i] = c[i + 1]
    BY <1>3, HeadTailProperties
  <2> QED
    BY <1>5, <2>1
<1>7. contents = Listed(c) /\ contents' = Listed(d)'
  BY <1>1, <1>4, <1>6, ContentsNow
<1>8. PICK o \in Seq(Values) : o = Listed(c) /\ Len(o) = m
  BY <1>1, <1>5, ListedTyped
<1>9. \A i \in 1 .. m : o[i] = data[c[i]]
  BY <1>5, <1>8 DEF Listed
<1>10. m # 0 /\ o # << >> /\ Head(o) = data[head]
  BY <1>3, <1>5, <1>8, <1>9
<1>11. Listed(d)' = [i \in 1 .. m - 1 |-> o[i + 1]]
  <2>1. ASSUME NEW i \in 1 .. m - 1
        PROVE  data'[d[i]] = o[i + 1]
    <3>1. i + 1 \in 1 .. m /\ d[i] = c[i + 1]
      BY <1>6
    <3> QED
      BY <1>2, <1>9, <3>1
  <2> QED
    BY <1>6, <2>1 DEF Listed
<1>12. Tail(o) = [i \in 1 .. m - 1 |-> o[i + 1]]
  <2>1. /\ Tail(o) \in Seq(Values) /\ Len(Tail(o)) = Len(o) - 1
        /\ \A i \in 1 .. Len(Tail(o)) : Tail(o)[i] = o[i + 1]
    BY <1>10, HeadTailProperties
  <2>2. PICK a \in Seq(Values) : a = Tail(o)
    BY <2>1
  <2>3. Len(o) = m
    BY <1>8
  <2>4. Len(a) = m - 1 /\ \A i \in 1 .. m - 1 : a[i] = o[i + 1]
    BY <2>1, <2>2, <2>3
  <2>5. a = [i \in 1 .. m - 1 |-> a[i]]
    BY <2>4
  <2> QED
    BY <2>2, <2>4, <2>5
<1>13. contents # << >> /\ contents' = Tail(contents) /\ Head(contents) = data[head]
  BY <1>7, <1>8, <1>10, <1>11, <1>12
<1> QED
  BY <1>2, <1>13 DEF F!Pop, shown

LEMMA PrintNodeRefines ==
    ASSUME Inv, printNode
    PROVE  F!Show \/ UNCHANGED << Queue, shown >>
<1>1. /\ phase = "print" /\ phase' \in {"print", "idle"} /\ UNCHANGED list
      /\ Queue' = Queue
  BY SameQueue DEF printNode
<1>2. CASE temp # Nil
  BY <1>1, <1>2 DEF printNode, shown
<1>3. CASE temp = Nil
  <2>1. PICK c \in Seq(Nodes), j \in Nat :
          IsChain(c) /\ j \in 0 .. Len(c) /\ Printed(c, j)
    BY <1>1 DEF Inv
  <2>2. j = Len(c)
    <3>1. j # Len(c) => c[j + 1] \in Nodes
      BY <2>1, ElementOfSeq
    <3> QED
      BY <1>3, <2>1, <3>1, Memory DEF Printed
  <2>3. out = Listed(c)
    BY <2>1, <2>2 DEF Printed, Listed
  <2>4. contents = out
    BY <2>1, <2>3, ContentsNow
  <2>5. phase' = "idle" /\ out' = out
    BY <1>3 DEF printNode
  <2> QED
    BY <1>1, <2>4, <2>5 DEF F!Show, shown, Queue
<1> QED
  BY <1>2, <1>3

LEMMA DestroyRefines ==
    ASSUME Inv, destroy \/ destroyNode
    PROVE  F!Clear \/ UNCHANGED << Queue, shown >>
<1>1. CASE destroy
  BY <1>1 DEF destroy, F!Clear, shown
<1>2. CASE destroyNode /\ temp # Nil
  BY <1>2 DEF destroyNode, Queue, shown
<1>3. CASE destroyNode /\ temp = Nil
  <2>1. PICK c \in Seq(Nodes) : Len(c) = 0
    BY EmptySeq
  <2>2. /\ phase = "destroy" /\ phase' = "idle" /\ out' = out /\ tail = Nil
        /\ data' = AllNil /\ next' = AllNil /\ head' = Nil /\ length' = 0
        /\ tail' = Nil
    BY <1>3 DEF destroyNode, Inv
  <2>3. IsChain(c)'
    BY <2>1, <2>2 DEF IsChain
  <2>4. contents' = Listed(c)'
    BY <2>3, ContentsNow
  <2>5. Listed(c)' = << >>
    BY <2>1 DEF Listed
  <2> QED
    BY <2>2, <2>4, <2>5 DEF Queue, shown
<1> QED
  BY <1>1, <1>2, <1>3

(* The list is a queue: every push, pop, walk of print and destruction, one  *)
(* node at a time, is a step of the queue or none (core/List.hpp).           *)
THEOREM IsAQueue == Spec => ImplementsFifo
<1>1. Init => F!Init
  <2> SUFFICES ASSUME Init PROVE F!Init
    OBVIOUS
  <2>1. PICK c \in Seq(Nodes) : Len(c) = 0
    BY EmptySeq
  <2>2. IsChain(c)
    BY <2>1 DEF Init, IsChain
  <2>3. contents = Listed(c)
    BY <2>2, ContentsNow
  <2>4. Listed(c) = << >>
    BY <2>1 DEF Listed
  <2> QED
    BY <2>3, <2>4 DEF Init, F!Init, shown
<1>2. ASSUME Inv, [Next]_vars
      PROVE  [F!Next]_(F!vars)
  <2>1. UNCHANGED << Queue, shown >> => UNCHANGED F!vars
    BY DEF F!vars, Queue
  <2>2. ASSUME NEW v \in Values, push(v)
        PROVE  F!Next
    BY <1>2, <2>2, PushRefines DEF F!Next
  <2>3. CASE pop /\ length # 0
    BY <1>2, <2>3, PopRefines DEF F!Next
  <2>4. CASE pop /\ length = 0
    <3>1. phase = "idle" /\ phase' = "idle" /\ UNCHANGED << list, out >>
      BY <2>4 DEF pop, Idle, walk
    <3> QED
      BY <1>2, <2>1, <3>1, SameQueue DEF shown
  <2>5. CASE print
    <3>1. phase = "idle" /\ phase' = "print" /\ UNCHANGED list
      BY <2>5 DEF print, Idle
    <3>2. F!Hush
      BY <1>2, <3>1, SameQueue DEF F!Hush, Queue, shown
    <3> QED
      BY <3>2 DEF F!Next
  <2>6. CASE printNode
    BY <1>2, <2>1, <2>6, PrintNodeRefines DEF F!Next
  <2>7. CASE destroy \/ destroyNode
    BY <1>2, <2>1, <2>7, DestroyRefines DEF F!Next
  <2>8. CASE UNCHANGED vars
    <3>1. phase' = phase /\ out' = out /\ UNCHANGED list
      BY <2>8 DEF vars, walk
    <3>2. Queue' = Queue
      BY <1>2, <3>1, SameQueue DEF Queue
    <3> QED
      BY <2>1, <3>1, <3>2 DEF shown
  <2> QED
    BY <1>2, <2>2, <2>3, <2>4, <2>5, <2>6, <2>7, <2>8 DEF Next
<1> QED
  BY <1>1, <1>2, InvHolds, PTL DEF Spec, ImplementsFifo, F!Spec
=============================================================================
