------------------------- MODULE StringObjectProofs -------------------------
(***************************************************************************)
(* For every base, every width and all texts: the union holds what the     *)
(* encoding says, the object reads as it was written, and strlen and       *)
(* getrange agree with what it reads as.                                   *)
(***************************************************************************)
EXTENDS StringObject, SequenceTheorems, WellFoundedInduction, TLAPS

(* A set of numbers has a least one, and so a set with 0 and with the number *)
(* after each of its own has them all.                                       *)
LEMMA LeastNumber ==
    ASSUME NEW S, S \subseteq Nat, S # {}
    PROVE  \E x \in S : \A y \in S : x <= y
<1> DEFINE Less == {p \in Nat \X Nat : p[1] < p[2]}
<1>1. IsWellFoundedOn(Less, Nat)
  BY NatLessThanWellFounded DEF OpToRel
<1>2. PICK x \in S : \A y \in S : ~ (<< y, x >> \in Less)
  <2> HIDE DEF Less
  <2> QED
    BY <1>1, WFMin
<1>3. ASSUME NEW y \in S
      PROVE  x <= y
  <2>1. << y, x >> \in Nat \X Nat /\ x \in Nat /\ y \in Nat
    OBVIOUS
  <2>2. ~ (y < x)
    BY <1>2, <2>1
  <2> QED
    BY <2>1, <2>2
<1> QED
  BY <1>3

LEMMA AllNumbers ==
    ASSUME NEW S, S \subseteq Nat, 0 \in S, \A n \in S : n + 1 \in S
    PROVE  S = Nat
<1>1. SUFFICES ASSUME Nat \ S # {} PROVE FALSE
  OBVIOUS
<1>2. PICK x \in Nat \ S : \A y \in Nat \ S : x <= y
  BY <1>1, LeastNumber
<1>3. x - 1 \in Nat /\ (x - 1) + 1 = x /\ ~ (x <= x - 1)
  OBVIOUS
<1>4. x - 1 \in S
  BY <1>2, <1>3
<1> QED
  BY <1>3, <1>4

(* A function may be defined from its own values at smaller arguments: G     *)
(* says how, and par at which.                                               *)
Recursive(f, n, z, par, G) ==
    f = [i \in 0 .. n |-> IF i = 0 THEN z ELSE G[i][f[par[i]]]]

LEMMA RecursionExists ==
    ASSUME NEW N \in Nat, NEW S, NEW z \in S, NEW par, NEW G,
           \A i \in 1 .. N : par[i] \in 0 .. i - 1,
           \A i \in 1 .. N, x \in S : G[i][x] \in S
    PROVE  \E f \in [0 .. N -> S] : Recursive(f, N, z, par, G)
<1> DEFINE Good == {n \in Nat : n <= N => \E f \in [0 .. n -> S] :
                                             Recursive(f, n, z, par, G)}
<1>1. 0 \in Good
  <2>1. [i \in 0 .. 0 |-> z] \in [0 .. 0 -> S]
    OBVIOUS
  <2>2. Recursive([i \in 0 .. 0 |-> z], 0, z, par, G)
    BY DEF Recursive
  <2> QED
    BY <2>1, <2>2
<1>2. ASSUME NEW n \in Good
      PROVE  n + 1 \in Good
  <2>1. SUFFICES ASSUME n + 1 <= N
                 PROVE  \E f \in [0 .. n + 1 -> S] : Recursive(f, n + 1, z, par, G)
    OBVIOUS
  <2>2. n \in Nat /\ n + 1 \in 1 .. N /\ n <= N /\ n + 1 \notin 0 .. n
        /\ 0 .. n + 1 = (0 .. n) \cup {n + 1} /\ n + 1 # 0
    BY <2>1
  <2>3. PICK f \in [0 .. n -> S] : Recursive(f, n, z, par, G)
    BY <2>2
  <2>4. \A i \in 0 .. n : f[i] = IF i = 0 THEN z ELSE G[i][f[par[i]]]
    BY <2>3 DEF Recursive
  <2>5. par[n + 1] \in 0 .. n /\ G[n + 1][f[par[n + 1]]] \in S
    BY <2>2
  <2>6. PICK g : g = [i \in 0 .. n + 1 |-> IF i = n + 1 THEN G[n + 1][f[par[n + 1]]]
                                           ELSE f[i]]
    OBVIOUS
  <2>7. g \in [0 .. n + 1 -> S]
    BY <2>2, <2>5, <2>6
  <2>8. \A i \in 0 .. n : g[i] = f[i]
    BY <2>2, <2>6
  <2>9. ASSUME NEW i \in 0 .. n + 1
        PROVE  g[i] = IF i = 0 THEN z ELSE G[i][g[par[i]]]
    <3>1. CASE i = n + 1
      BY <2>2, <2>5, <2>6, <2>8, <3>1
    <3>2. CASE i # n + 1
      <4>1. i \in 0 .. n /\ (i # 0 => i \in 1 .. N)
        BY <2>2, <3>2
      <4>2. i # 0 => par[i] \in 0 .. n
        BY <2>2, <4>1
      <4> QED
        BY <2>4, <2>8, <4>1, <4>2
    <3> QED
      BY <3>1, <3>2
  <2>10. Recursive(g, n + 1, z, par, G)
    BY <2>6, <2>9 DEF Recursive
  <2> QED
    BY <2>7, <2>10
<1>3. Good = Nat
  <2> HIDE DEF Good
  <2>1. Good \subseteq Nat
    BY DEF Good
  <2> QED
    BY <1>1, <1>2, <2>1, AllNumbers
<1> QED
  BY <1>3
-----------------------------------------------------------------------------
(* Powers.  The prover knows nothing of them but this. *)
Powers(p, b, n) ==
    /\ p \in [0 .. n -> Nat] /\ p[0] = 1
    /\ \A i \in 1 .. n : p[i] = b * p[i - 1]

LEMMA PowerIs ==
    ASSUME NEW b \in Nat, NEW n \in Nat
    PROVE  \E p : Powers(p, b, n) /\ Power(b, n) = p[n]
<1> DEFINE par == [i \in 1 .. n |-> i - 1]
           G == [i \in 1 .. n |-> [x \in Nat |-> b * x]]
           F(p) == [i \in 0 .. n |-> IF i = 0 THEN 1 ELSE b * p[i - 1]]
<1>1. PICK f \in [0 .. n -> Nat] : Recursive(f, n, 1, par, G)
  <2>1. \A i \in 1 .. n : par[i] \in 0 .. i - 1
    OBVIOUS
  <2>2. \A i \in 1 .. n, x \in Nat : G[i][x] \in Nat
    OBVIOUS
  <2> HIDE DEF par, G
  <2> QED
    BY <2>1, <2>2, RecursionExists
<1>2. f = F(f)
  <2>1. \A i \in 0 .. n : i # 0 => i \in 1 .. n /\ i - 1 \in 0 .. n /\ f[i - 1] \in Nat
    OBVIOUS
  <2>2. \A i \in 0 .. n : i # 0 => G[i][f[par[i]]] = b * f[i - 1]
    BY <2>1
  <2>3. \A i \in 0 .. n : f[i] = IF i = 0 THEN 1 ELSE G[i][f[par[i]]]
    BY <1>1 DEF Recursive
  <2>4. \A i \in 0 .. n : f[i] = IF i = 0 THEN 1 ELSE b * f[i - 1]
    BY <2>2, <2>3
  <2> QED
    BY <2>4
<1>3. PICK p : p = F(p) /\ Power(b, n) = p[n]
  <2> DEFINE p == CHOOSE g : g = F(g)
  <2>1. p = F(p)
    BY <1>2
  <2>2. Power(b, n) = p[n]
    BY DEF Power
  <2> QED
    BY <2>1, <2>2
<1>4. /\ DOMAIN p = 0 .. n /\ p[0] = 1
      /\ \A i \in 1 .. n : p[i] = b * p[i - 1]
  BY <1>3
<1>5. \A i \in 0 .. n : p[i] \in Nat
  <2> DEFINE S == {i \in Nat : i <= n => p[i] \in Nat}
  <2>1. 0 \in S
    BY <1>4
  <2>2. ASSUME NEW i \in S
        PROVE  i + 1 \in S
    <3>1. SUFFICES ASSUME i + 1 <= n PROVE p[i + 1] \in Nat
      OBVIOUS
    <3>2. i + 1 \in 1 .. n /\ (i + 1) - 1 = i /\ p[i] \in Nat
      BY <3>1
    <3>3. p[i + 1] = b * p[i]
      BY <1>4, <3>2
    <3> QED
      BY <3>2, <3>3
  <2>3. S = Nat
    <3>1. S \subseteq Nat
      OBVIOUS
    <3> HIDE DEF S
    <3> QED
      BY <2>1, <2>2, <3>1, AllNumbers
  <2> QED
    BY <2>3
<1>6. p \in [0 .. n -> Nat]
  BY <1>3, <1>4, <1>5
<1> QED
  BY <1>3, <1>4, <1>6 DEF Powers

LEMMA PowersAgree ==
    ASSUME NEW b \in Nat, NEW n \in Nat, NEW m \in Nat, NEW p, NEW q, n <= m,
           Powers(p, b, n), Powers(q, b, m)
    PROVE  p[n] = q[n]
<1> DEFINE S == {i \in Nat : i <= n => p[i] = q[i]}
<1>1. 0 \in S
  BY DEF Powers
<1>2. ASSUME NEW i \in S
      PROVE  i + 1 \in S
  <2>1. SUFFICES ASSUME i + 1 <= n PROVE p[i + 1] = q[i + 1]
    OBVIOUS
  <2>2. i + 1 \in 1 .. n /\ i + 1 \in 1 .. m /\ (i + 1) - 1 = i /\ p[i] = q[i]
    BY <2>1
  <2>3. p[i + 1] = b * p[i] /\ q[i + 1] = b * q[i]
    BY <2>2 DEF Powers
  <2> QED
    BY <2>2, <2>3
<1>3. S = Nat
  <2>1. S \subseteq Nat
    OBVIOUS
  <2> HIDE DEF S
  <2> QED
    BY <1>1, <1>2, <2>1, AllNumbers
<1> QED
  BY <1>3

LEMMA PowerStep ==
    ASSUME NEW b \in Nat, NEW n \in Nat
    PROVE  /\ Power(b, n) \in Nat /\ Power(b, 0) = 1
           /\ Power(b, n + 1) = b * Power(b, n)
<1>1. PICK p : Powers(p, b, n) /\ Power(b, n) = p[n]
  BY PowerIs
<1>2. PICK q : Powers(q, b, n + 1) /\ Power(b, n + 1) = q[n + 1]
  BY PowerIs
<1>3. PICK r : Powers(r, b, 0) /\ Power(b, 0) = r[0]
  BY PowerIs
<1>4. p[n] = q[n]
  BY <1>1, <1>2, PowersAgree
<1>5. n + 1 \in 1 .. n + 1 /\ (n + 1) - 1 = n
  OBVIOUS
<1>6. q[n + 1] = b * q[n]
  BY <1>2, <1>5 DEF Powers
<1>7. p[n] \in Nat
  BY <1>1 DEF Powers
<1> QED
  BY <1>1, <1>2, <1>3, <1>4, <1>6, <1>7 DEF Powers

(* They grow. *)
LEMMA PowerGrows ==
    ASSUME NEW b \in Nat \ {0, 1}, NEW n \in Nat, NEW m \in Nat, n <= m
    PROVE  Power(b, n) >= 1 /\ Power(b, n) <= Power(b, m)
<1> DEFINE S == {k \in Nat : Power(b, n) >= 1 /\ Power(b, n) <= Power(b, n + k)}
           P == {k \in Nat : Power(b, k) >= 1}
<1>1. P = Nat
  <2>1. 0 \in P
    BY PowerStep
  <2>2. ASSUME NEW k \in P
        PROVE  k + 1 \in P
    <3>1. PICK x \in Nat : x = Power(b, k)
      BY PowerStep
    <3>2. Power(b, k + 1) = b * x /\ x >= 1
      BY <3>1, PowerStep
    <3> QED
      BY <3>2
  <2>3. P \subseteq Nat
    OBVIOUS
  <2> HIDE DEF P
  <2> QED
    BY <2>1, <2>2, <2>3, AllNumbers
<1>2. Power(b, n) >= 1
  BY <1>1
<1>3. S = Nat
  <2>1. 0 \in S
    BY <1>2, PowerStep
  <2>2. ASSUME NEW k \in S
        PROVE  k + 1 \in S
    <3>1. PICK x \in Nat, y \in Nat : x = Power(b, n) /\ y = Power(b, n + k)
      <4>1. n + k \in Nat
        OBVIOUS
      <4>2. Power(b, n) \in Nat /\ Power(b, n + k) \in Nat
        BY <4>1, PowerStep
      <4> QED
        BY <4>2
    <3>2. Power(b, n + (k + 1)) = b * y
      <4>1. n + (k + 1) = (n + k) + 1
        OBVIOUS
      <4> QED
        BY <3>1, <4>1, PowerStep
    <3>3. x <= y /\ y <= b * y
      BY <3>1
    <3> QED
      BY <1>2, <3>1, <3>2, <3>3
  <2>3. S \subseteq Nat
    OBVIOUS
  <2> HIDE DEF S
  <2> QED
    BY <2>1, <2>2, <2>3, AllNumbers
<1>4. m - n \in Nat /\ n + (m - n) = m
  OBVIOUS
<1> QED
  BY <1>2, <1>3, <1>4
-----------------------------------------------------------------------------
(* The integers the object may hold. *)
Numbers == (1 - Power(Base, Short)) .. (Power(Base, Short) - 1)

LEMMA Largest ==
    /\ Base \in Nat \ {0, 1} /\ Short \in Nat \ {0}
    /\ Power(Base, Short) \in Nat /\ Power(Base, Short) >= 1
    /\ 0 \in Numbers /\ Numbers \subseteq Int
<1>1. Base \in Nat \ {0, 1} /\ Short \in Nat \ {0}
  BY BaseAssumption
<1>2. Power(Base, Short) \in Nat /\ Power(Base, Short) >= 1
  BY <1>1, PowerStep, PowerGrows
<1> QED
  BY <1>1, <1>2 DEF Numbers

LEMMA UnsignedTyped ==
    ASSUME NEW s \in Texts, s # << >>
    PROVE  /\ Unsigned(s) \in Texts /\ Len(Unsigned(s)) \in Nat
           /\ Len(Unsigned(s)) <= Len(s)
           /\ DOMAIN Unsigned(s) = 1 .. Len(Unsigned(s))
<1>1. Tail(s) \in Texts /\ Len(Tail(s)) = Len(s) - 1 /\ Len(s) \in Nat
  BY HeadTailProperties, LenProperties DEF Texts
<1>2. Unsigned(s) \in {s, Tail(s)}
  BY DEF Unsigned
<1>3. Unsigned(s) \in Texts
  BY <1>1, <1>2
<1> QED
  BY <1>1, <1>2, <1>3, LenProperties DEF Texts

(* Value sums up the digits from the left. *)
Sums(r, u) ==
    /\ r[0] = 0
    /\ \A i \in 1 .. Len(u) : r[i] = r[i - 1] * Base + u[i]

LEMMA ValueIs ==
    ASSUME NEW s \in Texts, s # << >>, IsNumber(s)
    PROVE  \E r : /\ Sums(r, Unsigned(s))
                  /\ Value(s) = IF IsNegative(s) THEN 0 - r[Len(Unsigned(s))]
                                ELSE r[Len(Unsigned(s))]
<1>1. PICK u : u = Unsigned(s)
  OBVIOUS
<1>2. PICK n \in Nat : n = Len(u)
  BY <1>1, UnsignedTyped
<1>3. \A i \in 1 .. n : u[i] \in Nat
  BY <1>1, <1>2, UnsignedTyped, Largest DEF IsNumber, Digits
<1> DEFINE par == [i \in 1 .. n |-> i - 1]
           G == [i \in 1 .. n |-> [x \in Nat |-> x * Base + u[i]]]
           F(r) == [i \in 0 .. Len(u) |-> IF i = 0 THEN 0 ELSE r[i - 1] * Base + u[i]]
<1>4. PICK f \in [0 .. n -> Nat] : Recursive(f, n, 0, par, G)
  <2>1. \A i \in 1 .. n : par[i] \in 0 .. i - 1
    OBVIOUS
  <2>2. \A i \in 1 .. n, x \in Nat : G[i][x] \in Nat
    BY <1>3, Largest
  <2> HIDE DEF par, G
  <2> QED
    BY <2>1, <2>2, RecursionExists
<1>5. f = F(f)
  <2>1. \A i \in 0 .. n : i # 0 => i \in 1 .. n /\ i - 1 \in 0 .. n /\ f[i - 1] \in Nat
    OBVIOUS
  <2>2. \A i \in 0 .. n : i # 0 => G[i][f[par[i]]] = f[i - 1] * Base + u[i]
    BY <2>1
  <2>3. \A i \in 0 .. n : f[i] = IF i = 0 THEN 0 ELSE G[i][f[par[i]]]
    BY <1>4 DEF Recursive
  <2>4. \A i \in 0 .. n : f[i] = IF i = 0 THEN 0 ELSE f[i - 1] * Base + u[i]
    BY <2>2, <2>3
  <2> QED
    BY <1>2, <2>4
<1>6. PICK r : /\ r = F(r)
               /\ Value(s) = IF IsNegative(s) THEN 0 - r[Len(u)] ELSE r[Len(u)]
  <2> DEFINE r == CHOOSE g : g = F(g)
  <2>1. r = F(r)
    BY <1>5
  <2>2. Value(s) = IF IsNegative(s) THEN 0 - r[Len(u)] ELSE r[Len(u)]
    BY <1>1 DEF Value
  <2> QED
    BY <2>1, <2>2
<1>7. Sums(r, u)
  <2>1. \A i \in 0 .. n : r[i] = IF i = 0 THEN 0 ELSE r[i - 1] * Base + u[i]
    BY <1>2, <1>6
  <2>2. 0 \in 0 .. n /\ \A i \in 1 .. n : i \in 0 .. n /\ i # 0
    OBVIOUS
  <2> HIDE DEF F
  <2> QED
    BY <1>2, <2>1, <2>2 DEF Sums
<1> QED
  BY <1>1, <1>6, <1>7

LEMMA ValueTyped ==
    ASSUME NEW s \in Texts, s # << >>, Len(s) <= Short, IsNumber(s)
    PROVE  Value(s) \in Numbers
<1>1. PICK r : /\ Sums(r, Unsigned(s))
               /\ Value(s) = IF IsNegative(s) THEN 0 - r[Len(Unsigned(s))]
                             ELSE r[Len(Unsigned(s))]
  BY ValueIs
<1>2. PICK u : u = Unsigned(s)
  OBVIOUS
<1>3. PICK n \in Nat : n = Len(u) /\ n <= Short
  BY <1>2, UnsignedTyped, LenProperties, Largest DEF Texts
<1>4. \A i \in 1 .. n : u[i] \in Nat /\ u[i] <= Base - 1
  BY <1>2, <1>3, UnsignedTyped, Largest DEF IsNumber, Digits
<1> DEFINE S == {i \in Nat : i <= n => r[i] \in Nat /\ r[i] <= Power(Base, i) - 1}
<1>5. S = Nat
  <2>1. 0 \in S
    <3>1. r[0] = 0
      BY <1>1 DEF Sums
    <3>2. Power(Base, 0) = 1
      BY PowerStep, Largest
    <3> QED
      BY <3>1, <3>2
  <2>2. ASSUME NEW i \in S
        PROVE  i + 1 \in S
    <3>1. SUFFICES ASSUME i + 1 <= n
                   PROVE  r[i + 1] \in Nat /\ r[i + 1] <= Power(Base, i + 1) - 1
      OBVIOUS
    <3>2. i + 1 \in 1 .. n /\ (i + 1) - 1 = i
      BY <3>1
    <3>3. PICK x \in Nat, d \in Nat, y \in Nat :
            x = r[i] /\ d = u[i + 1] /\ y = Power(Base, i) /\ x <= y - 1 /\ d <= Base - 1
      <4>1. r[i] \in Nat /\ r[i] <= Power(Base, i) - 1
        BY <3>1
      <4>2. u[i + 1] \in Nat /\ u[i + 1] <= Base - 1
        BY <1>4, <3>2
      <4>3. Power(Base, i) \in Nat
        BY PowerStep, Largest
      <4> QED
        BY <4>1, <4>2, <4>3
    <3>4. r[i + 1] = x * Base + d
      BY <1>1, <1>2, <1>3, <3>2, <3>3 DEF Sums
    <3>5. Power(Base, i + 1) = Base * y
      BY <3>3, PowerStep, Largest
    <3>6. x * Base \in Nat /\ x * Base <= (y - 1) * Base
      BY <3>3, Largest
    <3>7. (y - 1) * Base = Base * y - Base
      BY <3>3, Largest
    <3>8. PICK v \in Nat, w \in Nat : v = x * Base /\ w = Base * y
      BY <3>3, <3>6, Largest
    <3>9. v <= w - Base /\ r[i + 1] = v + d /\ Power(Base, i + 1) = w
      BY <3>4, <3>5, <3>6, <3>7, <3>8
    <3>10. v + d \in Nat /\ v + d <= w - 1
      <4>1. Base \in Nat /\ v <= w - Base /\ d <= Base - 1
        BY <3>3, <3>9, Largest
      <4> QED
        BY <4>1
    <3> QED
      BY <3>9, <3>10
  <2>3. S \subseteq Nat
    OBVIOUS
  <2> HIDE DEF S
  <2> QED
    BY <2>1, <2>2, <2>3, AllNumbers
<1>6. r[n] \in Nat /\ r[n] <= Power(Base, n) - 1
  BY <1>5
<1>7. Power(Base, n) <= Power(Base, Short) /\ Power(Base, n) \in Nat
  BY <1>3, PowerGrows, PowerStep, Largest
<1>8. Value(s) = r[n] \/ Value(s) = 0 - r[n]
  BY <1>1, <1>2, <1>3
<1> QED
  BY <1>6, <1>7, <1>8, Largest DEF Numbers
-----------------------------------------------------------------------------
(* Remainders by a power of two, and quotients by the base. *)
LEMMA Remainders ==
    ASSUME NEW m \in Nat \ {0}, NEW x \in Int
    PROVE  /\ x % m \in 0 .. m - 1
           /\ 0 <= x /\ x < m => x % m = x
           /\ 0 - m <= x /\ x < 0 => x % m = x + m
OBVIOUS

LEMMA Quotients ==
    ASSUME NEW m \in Nat \ {0}, NEW x \in Nat
    PROVE  /\ x \div m \in Nat
           /\ \A p \in Nat : m * p <= x => p <= x \div m
           /\ \A p \in Nat : x < m * p => x \div m < p
<1>1. x \div m \in Nat
  OBVIOUS
<1>2. ASSUME NEW p \in Nat, m * p <= x
      PROVE  p <= x \div m
  BY <1>2
<1>3. ASSUME NEW p \in Nat, x < m * p
      PROVE  x \div m < p
  BY <1>3
<1> QED
  BY <1>1, <1>2, <1>3

(* to_string writes the digits that the magnitude needs, and a sign. *)
Needs(x, k) ==
    /\ k \in 1 .. Short /\ x < Power(Base, k)
    /\ k > 1 => x >= Power(Base, k - 1)

LEMMA NumeralIs ==
    ASSUME NEW n \in Numbers
    PROVE  /\ Magnitude(n) \in Nat /\ Magnitude(n) < Power(Base, Short)
           /\ Numeral(n) \in Texts
           /\ \E k \in 1 .. Short : /\ Needs(Magnitude(n), k)
                                    /\ Len(Numeral(n)) = IF n < 0 THEN k + 1 ELSE k
<1>1. PICK x \in Nat : x = Magnitude(n) /\ x < Power(Base, Short)
  BY Largest DEF Numbers, Magnitude
<1>2. \E k \in 1 .. Short : x < Power(Base, k) /\ (k > 1 => x >= Power(Base, k - 1))
  <2> DEFINE S == {k \in Nat : k > 0 /\ x < Power(Base, k)}
  <2>1. Short \in S
    BY <1>1, Largest
  <2>2. PICK k \in S : \A j \in S : k <= j
    <3>1. S \subseteq Nat /\ S # {}
      BY <2>1
    <3> HIDE DEF S
    <3> QED
      BY <3>1, LeastNumber
  <2>3. k \in 1 .. Short /\ x < Power(Base, k)
    BY <2>1, <2>2, Largest
  <2>4. ASSUME k > 1
        PROVE  x >= Power(Base, k - 1)
    <3>1. k - 1 \in Nat /\ k - 1 > 0 /\ ~ (k <= k - 1)
      BY <2>4
    <3>2. k - 1 \notin S
      BY <2>2, <3>1
    <3>3. Power(Base, k - 1) \in Nat
      BY <3>1, PowerStep, Largest
    <3> QED
      BY <3>1, <3>2, <3>3
  <2> QED
    BY <2>3, <2>4
<1> DEFINE width == CHOOSE k \in 1 .. Short :
                       /\ Magnitude(n) < Power(Base, k)
                       /\ k > 1 => Magnitude(n) >= Power(Base, k - 1)
           digits == [i \in 1 .. width |->
                        (Magnitude(n) \div Power(Base, width - i)) % Base]
<1>3. Needs(x, width) /\ width \in 1 .. Short
  BY <1>1, <1>2 DEF Needs
<1>4. PICK k \in 1 .. Short : k = width
  BY <1>3
<1>5. digits \in [1 .. k -> Digits]
  <2>1. ASSUME NEW i \in 1 .. k
        PROVE  (x \div Power(Base, k - i)) % Base \in Digits
    <3>1. k - i \in Nat
      BY Largest
    <3>2. PICK m \in Nat \ {0} : m = Power(Base, k - i)
      BY <3>1, PowerStep, PowerGrows, Largest
    <3>3. x \div m \in Int
      BY <3>2, Quotients
    <3> QED
      BY <3>2, <3>3, Remainders, Largest DEF Digits
  <2> HIDE DEF width
  <2> QED
    BY <1>1, <1>4, <2>1
<1>6. k \in Nat
  BY Largest
<1> HIDE DEF width, digits
<1>7. digits \in Texts /\ Len(digits) = k
  BY <1>5, <1>6, SeqDef DEF Texts
<1>8. Numeral(n) = IF n < 0 THEN << Minus >> \o digits ELSE digits
  BY DEF Numeral, width, digits
<1>9. << Minus >> \in Texts /\ Len(<< Minus >>) = 1
  BY DEF Texts
<1>10. Numeral(n) \in Texts /\ Len(Numeral(n)) = IF n < 0 THEN k + 1 ELSE k
  <2>1. << Minus >> \o digits \in Texts /\ Len(<< Minus >> \o digits) = 1 + k
    BY <1>6, <1>7, <1>9, ConcatProperties DEF Texts
  <2> QED
    BY <1>6, <1>7, <1>8, <2>1
<1> QED
  BY <1>1, <1>3, <1>4, <1>10
-----------------------------------------------------------------------------
(* The widest of the widths holds twice the integers of either sign. *)
LEMMA Widest ==
    /\ LongWidth \in Widths /\ LongWidth \in Nat /\ LongWidth >= 1
    /\ \A v \in Widths : v \in Nat /\ v <= LongWidth
    /\ 2 * Power(Base, Short) <= Power(2, LongWidth)
    /\ Power(2, LongWidth - 1) \in Nat
    /\ Power(2, LongWidth) = 2 * Power(2, LongWidth - 1)
<1>1. PICK w \in Widths : /\ \A v \in Widths : v <= w
                          /\ 2 * Power(Base, Short) <= Power(2, w)
  BY WidthsAssumption
<1>2. Widths \subseteq Nat
  BY WidthsAssumption
<1>3. \E u \in Widths : \A v \in Widths : v <= u
  BY <1>1
<1>4. LongWidth \in Widths /\ \A v \in Widths : v <= LongWidth
  BY <1>3 DEF LongWidth
<1>5. LongWidth = w
  <2>1. LongWidth \in Nat /\ w \in Nat /\ LongWidth <= w /\ w <= LongWidth
    BY <1>1, <1>2, <1>4
  <2> QED
    BY <2>1
<1>6. w >= 1
  <2>1. 2 * Power(Base, Short) >= 2 /\ 2 * Power(Base, Short) \in Nat
    BY Largest
  <2>2. Power(2, 0) = 1
    BY PowerStep
  <2>3. w # 0
    BY <1>1, <2>1, <2>2
  <2> QED
    BY <1>2, <2>3
<1>7. w - 1 \in Nat /\ (w - 1) + 1 = w
  BY <1>2, <1>6
<1>8. Power(2, w - 1) \in Nat /\ Power(2, (w - 1) + 1) = 2 * Power(2, w - 1)
  BY <1>7, PowerStep
<1> QED
  BY <1>1, <1>2, <1>4, <1>5, <1>6, <1>7, <1>8

(* The encoding has room, and no narrower one has. *)
LEMMA EncodingIs ==
    ASSUME NEW x \in Nat, x < Power(2, LongWidth)
    PROVE  /\ getIntegerEncoding(x) \in Widths
           /\ x < Power(2, getIntegerEncoding(x))
           /\ \A v \in Widths : x < Power(2, v) => getIntegerEncoding(x) <= v
<1>1. \A v \in Widths : v \in Nat /\ Power(2, v) \in Nat
  BY Widest, PowerStep
<1>2. \A v \in Widths : x <= Power(2, v) - 1 <=> x < Power(2, v)
  BY <1>1
<1>3. PICK w \in Widths : /\ x <= Power(2, w) - 1
                          /\ \A v \in Widths : x <= Power(2, v) - 1 => w <= v
  <2> DEFINE S == {v \in Widths : x <= Power(2, v) - 1}
  <2>1. LongWidth \in S
    BY <1>2, Widest
  <2>2. PICK w \in S : \A v \in S : w <= v
    <3>1. S \subseteq Nat /\ S # {}
      BY <1>1, <2>1
    <3> HIDE DEF S
    <3> QED
      BY <3>1, LeastNumber
  <2> QED
    BY <2>2
<1>4. /\ getIntegerEncoding(x) \in Widths
      /\ x <= Power(2, getIntegerEncoding(x)) - 1
      /\ \A v \in Widths : x <= Power(2, v) - 1 => getIntegerEncoding(x) <= v
  BY <1>3 DEF getIntegerEncoding
<1> QED
  BY <1>2, <1>4

(* An integer comes back from a file as it went: a negative one needs the    *)
(* widest encoding, from which its sign is read.                             *)
LEMMA RoundTrip ==
    ASSUME NEW n \in Numbers
    PROVE  loadInteger(saveInteger(n)) = n
<1>1. PICK h \in Nat : h = Power(2, LongWidth - 1)
  BY Widest
<1>2. PICK m \in Nat \ {0} : m = Power(2, LongWidth) /\ m = 2 * h
  <2>1. Power(2, LongWidth) \in Nat /\ Power(2, LongWidth) >= 1
    BY Widest, PowerStep, PowerGrows
  <2> QED
    BY <1>1, <2>1, Widest
<1>3. n \in Int /\ 0 - h < n /\ n < h
  <2>1. PICK b \in Nat : b = Power(Base, Short)
    BY Largest
  <2>2. 2 * b <= m /\ n \in (1 - b) .. (b - 1)
    BY <1>2, <2>1, Widest DEF Numbers
  <2> QED
    BY <1>2, <2>2
<1>4. PICK x \in Nat : x = Wide(n) /\ x = (IF n < 0 THEN n + m ELSE n) /\ x < m
  <2>1. n % m = IF n < 0 THEN n + m ELSE n
    <3>1. n \in Int /\ m \in Nat \ {0} /\ 0 - m <= n /\ n < m
      BY <1>2, <1>3
    <3>2. CASE n < 0
      BY <3>1, <3>2, Remainders
    <3>3. CASE ~ (n < 0)
      <4>1. 0 <= n
        BY <3>1, <3>3
      <4> QED
        BY <3>1, <3>3, <4>1, Remainders
    <3> QED
      BY <3>2, <3>3
  <2>2. (IF n < 0 THEN n + m ELSE n) \in Nat /\ (IF n < 0 THEN n + m ELSE n) < m
    BY <1>2, <1>3
  <2> QED
    BY <1>2, <2>1, <2>2 DEF Wide
<1>5. PICK w \in Widths : /\ w = getIntegerEncoding(x) /\ x < Power(2, w)
                          /\ \A v \in Widths : x < Power(2, v) => w <= v
  BY <1>2, <1>4, EncodingIs
<1>6. w \in Nat /\ w <= LongWidth
  BY <1>5, Widest
<1>7. x % Power(2, w) = x
  <2>1. PICK p \in Nat \ {0} : p = Power(2, w)
    <3>1. 2 \in Nat \ {0, 1} /\ w <= w
      BY <1>6
    <3>2. Power(2, w) \in Nat /\ Power(2, w) >= 1
      BY <1>6, <3>1, PowerStep, PowerGrows
    <3> QED
      BY <3>2
  <2> QED
    BY <1>5, <2>1, Remainders
<1>8. n < 0 => w = LongWidth /\ x >= h
  <2> SUFFICES ASSUME n < 0 PROVE w = LongWidth /\ x >= h
    OBVIOUS
  <2>1. x >= h
    BY <1>2, <1>3, <1>4
  <2>2. ASSUME w # LongWidth PROVE FALSE
    <3>1. w <= LongWidth - 1 /\ LongWidth - 1 \in Nat
      BY <1>6, <2>2, Widest
    <3>2. Power(2, w) <= h /\ Power(2, w) \in Nat
      BY <1>1, <1>6, <3>1, PowerGrows, PowerStep
    <3> QED
      BY <1>5, <2>1, <3>2
  <2> QED
    BY <2>1, <2>2
<1>9. saveInteger(n) = [width |-> w, bits |-> x]
  BY <1>4, <1>5, <1>7 DEF saveInteger
<1>10. loadInteger(saveInteger(n)) = IF w = LongWidth /\ x >= h THEN x - m ELSE x
  BY <1>1, <1>2, <1>9 DEF loadInteger
<1> QED
  BY <1>3, <1>4, <1>8, <1>10
-----------------------------------------------------------------------------
(* What a raw text may be, and that there is nothing yet to read. *)
Bounded == enctype = "raw" => str # << >> /\ (Len(str) <= MaxLen \/ Len(str) <= Short)
Fresh == objtype = "null" => wrote = << >> /\ ~mangled

Inv == StringInv /\ ReadsAsWritten /\ Bounded /\ Fresh

LEMMA NothingTyped ==
    << >> \in Texts /\ 0 \in (1 - Power(Base, Short)) .. (Power(Base, Short) - 1)
BY Largest DEF Texts, Numbers

LEMMA InitInv == Init => Inv
<1> SUFFICES ASSUME Init PROVE Inv
  OBVIOUS
<1>1. StringTypeOK
  BY NothingTyped DEF Init, StringTypeOK
<1>2. OwnsItsText /\ ReadsAsWritten /\ Bounded /\ Fresh
  BY DEF Init, OwnsItsText, Owns, ReadsAsWritten, Bounded, Fresh
<1> QED
  BY <1>1, <1>2 DEF Inv, StringInv

(* The two things the union may hold. *)
LEMMA IntegerHeld ==
    ASSUME Inv, NEW n \in Numbers, HoldInteger(n)
    PROVE  /\ objtype' = "string" /\ enctype' = "int" /\ istr' = n /\ str' = << >>
           /\ heap' = 0 /\ text' = Numeral(n)
           /\ wrote' \in Texts /\ mangled' \in BOOLEAN => StringInv' /\ Bounded' /\ Fresh'
<1>1. /\ objtype' = "string" /\ enctype' = "int" /\ istr' = n /\ str' = << >>
      /\ heap' = heap - Owns
  BY DEF HoldInteger
<1>2. heap' = 0
  <2>1. heap \in Nat /\ heap = Owns
    BY DEF Inv, StringInv, StringTypeOK, OwnsItsText
  <2> QED
    BY <1>1, <2>1
<1>3. text' = Numeral(n)
  BY <1>1 DEF text
<1>4. << >> \in Texts
  BY DEF Texts
<1> QED
  BY <1>1, <1>2, <1>3, <1>4
  DEF StringInv, StringTypeOK, OwnsItsText, Owns, Bounded, Fresh, Numbers

LEMMA TextHeld ==
    ASSUME Inv, NEW s \in Texts, s # << >>, Len(s) <= MaxLen \/ Len(s) <= Short,
           HoldText(s)
    PROVE  /\ objtype' = "string" /\ enctype' = "raw" /\ istr' = 0 /\ str' = s
           /\ heap' = 1 /\ text' = s
           /\ wrote' \in Texts /\ mangled' \in BOOLEAN => StringInv' /\ Bounded' /\ Fresh'
<1>1. /\ objtype' = "string" /\ enctype' = "raw" /\ istr' = 0 /\ str' = s
      /\ heap' = heap - Owns + 1
  BY DEF HoldText
<1>2. heap' = 1
  <2>1. heap \in Nat /\ heap = Owns
    BY DEF Inv, StringInv, StringTypeOK, OwnsItsText
  <2> QED
    BY <1>1, <2>1
<1>3. text' = s
  BY <1>1 DEF text
<1> QED
  BY <1>1, <1>2, <1>3, Largest
  DEF StringInv, StringTypeOK, OwnsItsText, Owns, Bounded, Fresh, Numbers

(* After set the object reads as the text that was set, if set keeps it. *)
LEMMA SetHolds ==
    ASSUME Inv, NEW s \in Texts, s # << >>, set(s)
    PROVE  /\ objtype' = "string" /\ (Kept(s) => text' = s)
           /\ wrote' \in Texts /\ mangled' \in BOOLEAN => StringInv' /\ Bounded' /\ Fresh'
<1>0. Len(s) \in Nat
  BY LenProperties DEF Texts
<1>1. CASE Len(s) > Short
  <2>1. HoldInteger(0) /\ 0 \in Numbers
    BY <1>1, Largest DEF set
  <2>2. ~Kept(s)
    BY <1>0, <1>1, Largest DEF Kept
  <2> QED
    BY <2>1, <2>2, IntegerHeld
<1>2. CASE Len(s) <= Short /\ IsNumber(s)
  <2>1. HoldInteger(Value(s)) /\ Value(s) \in Numbers
    BY <1>0, <1>2, ValueTyped, Largest DEF set
  <2>2. Kept(s) => s = Numeral(Value(s))
    BY <1>2 DEF Kept
  <2> QED
    BY <2>1, <2>2, IntegerHeld
<1>3. CASE Len(s) <= Short /\ ~IsNumber(s)
  <2>1. HoldText(s)
    BY <1>0, <1>3, Largest DEF set
  <2> QED
    BY <1>3, <2>1, TextHeld
<1> QED
  BY <1>0, <1>1, <1>2, <1>3, Largest

LEMMA TextTyped ==
    ASSUME Inv
    PROVE  /\ text \in Texts /\ Before \in Texts /\ Len(text) \in Nat
           /\ objtype = "null" => Before = << >>
<1>1. text \in Texts
  <2>1. istr \in Numbers /\ str \in Texts /\ enctype \in {"int", "raw"}
    BY DEF Inv, StringInv, StringTypeOK, Numbers
  <2>2. Numeral(istr) \in Texts
    BY <2>1, NumeralIs
  <2> QED
    BY <2>1, <2>2 DEF text
<1>2. << >> \in Texts
  BY DEF Texts
<1> QED
  BY <1>1, <1>2, LenProperties DEF Before, Texts

LEMMA SsetInv ==
    ASSUME Inv, NEW s \in Inputs, doSset(s)
    PROVE  Inv'
<1>1. s \in Texts /\ s # << >>
  BY InputsAssumption DEF Texts, Digits
<1>2. << >> \in Texts
  BY DEF Texts
<1>3. set(s) /\ mangled' = ~Kept(s) /\ wrote' = IF Kept(s) THEN s ELSE << >>
  BY DEF doSset, Meant
<1>4. wrote' \in Texts /\ mangled' \in BOOLEAN
  BY <1>1, <1>2, <1>3
<1>5. objtype' = "string" /\ (Kept(s) => text' = s)
  BY <1>1, <1>3, SetHolds
<1>6. StringInv' /\ Bounded' /\ Fresh'
  BY <1>1, <1>3, <1>4, SetHolds
<1>7. ReadsAsWritten'
  BY <1>3, <1>5 DEF ReadsAsWritten
<1> QED
  BY <1>6, <1>7 DEF Inv

LEMMA AppendInv ==
    ASSUME Inv, NEW s \in Inputs, doAppend(s)
    PROVE  Inv'
<1>1. s \in Texts /\ s # << >> /\ Len(s) \in Nat
  BY InputsAssumption, LenProperties DEF Texts, Digits
<1>2. Before \in Texts /\ Len(Before) \in Nat
  BY TextTyped, LenProperties DEF Texts
<1>3. /\ Before \o s \in Texts /\ Len(Before \o s) = Len(Before) + Len(s)
      /\ Before \o s # << >>
  <2>1. Before \o s \in Texts /\ Len(Before \o s) = Len(Before) + Len(s)
    BY <1>1, <1>2, ConcatProperties DEF Texts
  <2>2. Len(s) # 0
    BY <1>1 DEF Texts
  <2>3. Len(Before \o s) # 0
    BY <1>1, <1>2, <2>1, <2>2
  <2> QED
    BY <2>1, <2>3
<1>4. /\ Len(Before \o s) <= MaxLen /\ HoldText(Before \o s)
      /\ wrote' = IF mangled THEN << >> ELSE wrote \o s
      /\ mangled' = mangled
  BY <1>3 DEF doAppend
<1>5. wrote \in Texts /\ mangled \in BOOLEAN /\ objtype \in {"null", "string"}
  BY DEF Inv, StringInv, StringTypeOK
<1>6. wrote' \in Texts /\ mangled' \in BOOLEAN
  <2>1. wrote \o s \in Texts /\ << >> \in Texts
    BY <1>1, <1>5, ConcatProperties DEF Texts
  <2> QED
    BY <1>4, <1>5, <2>1
<1>7. objtype' = "string" /\ text' = Before \o s
  BY <1>3, <1>4, TextHeld
<1>8. StringInv' /\ Bounded' /\ Fresh'
  BY <1>3, <1>4, <1>6, TextHeld
<1>9. ~mangled => Before = wrote
  BY <1>5 DEF Inv, ReadsAsWritten, Fresh, Before
<1>10. ReadsAsWritten'
  BY <1>4, <1>7, <1>9 DEF ReadsAsWritten
<1> QED
  BY <1>8, <1>10 DEF Inv

LEMMA DelInv ==
    ASSUME Inv, doDel
    PROVE  Inv'
<1>1. heap' = 0
  <2>1. heap \in Nat /\ heap = Owns
    BY DEF Inv, StringInv, StringTypeOK, OwnsItsText
  <2> QED
    BY <2>1 DEF doDel
<1>2. StringTypeOK'
  <2>1. /\ objtype' = "null" /\ enctype' = "int" /\ istr' = 0 /\ str' = << >>
        /\ wrote' = << >> /\ mangled' = FALSE
    BY DEF doDel
  <2>2. mangled' \in BOOLEAN
    BY <2>1
  <2> QED
    BY <1>1, <2>1, <2>2, NothingTyped DEF StringTypeOK
<1>3. OwnsItsText' /\ ReadsAsWritten' /\ Bounded' /\ Fresh'
  BY <1>1 DEF doDel, OwnsItsText, Owns, ReadsAsWritten, Bounded, Fresh
<1> QED
  BY <1>2, <1>3 DEF Inv, StringInv

LEMMA ReloadInv ==
    ASSUME Inv, reload
    PROVE  Inv'
<1>1. /\ wrote \in Texts /\ mangled \in BOOLEAN /\ istr \in Numbers /\ str \in Texts
      /\ enctype \in {"int", "raw"} /\ << >> \in Texts /\ objtype = "string"
  BY DEF Inv, StringInv, StringTypeOK, Numbers, Texts, reload
<1>2. CASE enctype = "int"
  <2>1. HoldInteger(istr) /\ wrote' = wrote /\ mangled' = mangled
    BY <1>1, <1>2, RoundTrip DEF reload
  <2>2. text' = text /\ objtype' = "string"
    BY <1>1, <1>2, <2>1, IntegerHeld DEF text
  <2>3. StringInv' /\ Bounded' /\ Fresh'
    BY <1>1, <2>1, IntegerHeld
  <2>4. ReadsAsWritten'
    BY <1>1, <2>1, <2>2 DEF Inv, ReadsAsWritten
  <2> QED
    BY <2>3, <2>4 DEF Inv
<1>3. CASE enctype = "raw"
  <2>1. /\ set(str) /\ mangled' = (mangled \/ ~Kept(str))
        /\ wrote' = IF mangled' THEN << >> ELSE wrote
    BY <1>3 DEF reload
  <2>2. str # << >> /\ text = str
    BY <1>3 DEF Inv, Bounded, text
  <2>3. wrote' \in Texts /\ mangled' \in BOOLEAN
    BY <1>1, <2>1
  <2>4. objtype' = "string" /\ (Kept(str) => text' = str)
    BY <1>1, <2>1, <2>2, SetHolds
  <2>5. StringInv' /\ Bounded' /\ Fresh'
    BY <1>1, <2>1, <2>2, <2>3, SetHolds
  <2>6. ReadsAsWritten'
    BY <1>1, <2>1, <2>2, <2>4 DEF Inv, ReadsAsWritten
  <2> QED
    BY <2>5, <2>6 DEF Inv
<1> QED
  BY <1>1, <1>2, <1>3

(* set, append, reload and the deletion of the key keep what the encoding    *)
(* says and what clients wrote together.                                     *)
THEOREM InvHolds == Spec => []Inv
<1>1. Inv /\ [Next]_vars => Inv'
  <2> SUFFICES ASSUME Inv, [Next]_vars PROVE Inv'
    OBVIOUS
  <2>1. CASE \E s \in Inputs : doSset(s) \/ doAppend(s)
    BY <2>1, SsetInv, AppendInv
  <2>2. CASE doDel
    BY <2>2, DelInv
  <2>3. CASE reload
    BY <2>3, ReloadInv
  <2>4. CASE UNCHANGED vars
    BY <2>4 DEF vars, object, Inv, StringInv, StringTypeOK, OwnsItsText, Owns,
                ReadsAsWritten, Bounded, Fresh, text
  <2> QED
    BY <2>1, <2>2, <2>3, <2>4 DEF Next
<1> QED
  BY <1>1, InitInv, PTL DEF Spec

(* Through set, append and files the object owns one text while it is raw,   *)
(* and none while it is an integer: HoldInteger deletes and HoldText         *)
(* replaces what was there.                                                  *)
THEOREM OwnsOneText == Spec => []StringInv
<1>1. Inv => StringInv
  BY DEF Inv
<1> QED
  BY <1>1, InvHolds, PTL

(* print shows what was written, after any sets, appends and files, until a  *)
(* text is set that set does not keep.                                       *)
THEOREM ReadsAsWrittenHolds == Spec => []ReadsAsWritten
<1>1. Inv => ReadsAsWritten
  BY DEF Inv
<1> QED
  BY <1>1, InvHolds, PTL
-----------------------------------------------------------------------------
(* getStrLen counts the divisions by the base until nothing is left.         *)
Counts(c) ==
    \A i \in 0 .. Power(Base, Short) : c[i] = IF i = 0 THEN 0 ELSE 1 + c[i \div Base]

LEMMA StrLenIs ==
    \E c : /\ Counts(c)
           /\ getStrLen = IF enctype = "raw" THEN Len(str)
                          ELSE c[Magnitude(istr)] + (IF istr < 0 THEN 1 ELSE 0)
<1>1. PICK n \in Nat : n = Power(Base, Short)
  BY Largest
<1> DEFINE par == [i \in 1 .. n |-> i \div Base]
           G == [i \in 1 .. n |-> [x \in Nat |-> 1 + x]]
           F(c) == [i \in 0 .. Power(Base, Short) |->
                      IF i = 0 THEN 0 ELSE 1 + c[i \div Base]]
<1>2. \A i \in 1 .. n : i \div Base \in 0 .. i - 1
  <2> SUFFICES ASSUME NEW i \in 1 .. n PROVE i \div Base \in 0 .. i - 1
    OBVIOUS
  <2>1. i \in Nat /\ i < Base * i
    BY Largest
  <2>2. i \div Base \in Nat /\ i \div Base < i
    BY <2>1, Quotients, Largest
  <2> QED
    BY <2>1, <2>2
<1>3. PICK f \in [0 .. n -> Nat] : Recursive(f, n, 0, par, G)
  <2>1. \A i \in 1 .. n : par[i] \in 0 .. i - 1
    BY <1>2
  <2>2. \A i \in 1 .. n, x \in Nat : G[i][x] \in Nat
    OBVIOUS
  <2> HIDE DEF par, G
  <2> QED
    BY <2>1, <2>2, RecursionExists
<1>4. f = F(f)
  <2>1. \A i \in 0 .. n : i # 0 => i \in 1 .. n /\ i \div Base \in 0 .. n
    BY <1>2
  <2>2. \A i \in 0 .. n : i # 0 => G[i][f[par[i]]] = 1 + f[i \div Base]
    BY <2>1
  <2>3. \A i \in 0 .. n : f[i] = IF i = 0 THEN 0 ELSE G[i][f[par[i]]]
    BY <1>3 DEF Recursive
  <2>4. \A i \in 0 .. n : f[i] = IF i = 0 THEN 0 ELSE 1 + f[i \div Base]
    BY <2>2, <2>3
  <2> QED
    BY <1>1, <2>4
<1>5. PICK c : /\ c = F(c)
               /\ getStrLen = IF enctype = "raw" THEN Len(str)
                              ELSE c[Magnitude(istr)] + (IF istr < 0 THEN 1 ELSE 0)
  <2> DEFINE c == CHOOSE g : g = F(g)
  <2>1. c = F(c)
    BY <1>4
  <2>2. getStrLen = IF enctype = "raw" THEN Len(str)
                    ELSE c[Magnitude(istr)] + (IF istr < 0 THEN 1 ELSE 0)
    BY DEF getStrLen
  <2> HIDE DEF c, F
  <2> QED
    BY <2>1, <2>2
<1>6. Counts(c)
  BY <1>5 DEF Counts
<1> QED
  BY <1>5, <1>6

(* As many as the digits that the number needs. *)
LEMMA CountedDigits ==
    ASSUME NEW c, Counts(c), NEW x \in Nat, x # 0, x < Power(Base, Short),
           NEW k, Needs(x, k)
    PROVE  c[x] = k
<1>1. PICK n \in Nat : n = Power(Base, Short)
  BY Largest
<1> DEFINE S == {j \in Nat : \A y \in 1 .. n :
                    Power(Base, j) <= y /\ y < Power(Base, j + 1) => c[y] = j + 1}
<1>2. 0 \in S
  <2> SUFFICES ASSUME NEW y \in 1 .. n, y < Power(Base, 0 + 1) PROVE c[y] = 1
    BY Largest
  <2>1. Power(Base, 0 + 1) = Base * Power(Base, 0) /\ Power(Base, 0) = 1
    BY PowerStep, Largest
  <2>2. y < Base * 1 /\ y \in Nat
    BY <2>1, Largest
  <2>3. y \div Base = 0
    <3>1. y \div Base \in Nat /\ y \div Base < 1
      BY <2>2, Quotients, Largest
    <3> QED
      BY <3>1
  <2>4. 0 \in 0 .. n /\ y \in 0 .. n /\ y # 0
    OBVIOUS
  <2>5. c[0] = 0 /\ c[y] = 1 + c[0]
    BY <1>1, <2>3, <2>4 DEF Counts
  <2> QED
    BY <2>5
<1>3. ASSUME NEW j \in S
      PROVE  j + 1 \in S
  <2> SUFFICES ASSUME NEW y \in 1 .. n, Power(Base, j + 1) <= y,
                      y < Power(Base, (j + 1) + 1)
               PROVE  c[y] = (j + 1) + 1
    OBVIOUS
  <2>1. PICK p \in Nat, q \in Nat : p = Power(Base, j) /\ q = Power(Base, j + 1)
    <3>1. j \in Nat /\ j + 1 \in Nat
      OBVIOUS
    <3>2. Power(Base, j) \in Nat /\ Power(Base, j + 1) \in Nat
      BY <3>1, PowerStep, Largest
    <3> QED
      BY <3>2
  <2>2. q = Base * p /\ Power(Base, (j + 1) + 1) = Base * q /\ p >= 1
    <3>1. j \in Nat /\ j + 1 \in Nat /\ j <= j
      OBVIOUS
    <3>2. /\ Power(Base, j + 1) = Base * Power(Base, j)
          /\ Power(Base, (j + 1) + 1) = Base * Power(Base, j + 1)
      BY <3>1, PowerStep, Largest
    <3>3. Power(Base, j) >= 1
      BY <3>1, PowerGrows, Largest
    <3> QED
      BY <2>1, <3>2, <3>3
  <2>3. y \in Nat /\ Base * p <= y /\ y < Base * q
    BY <2>1, <2>2
  <2>4. PICK z \in Nat : z = y \div Base /\ p <= z /\ z < q
    BY <2>3, Quotients, Largest
  <2>5. z \in 1 .. n
    <3>1. z <= y
      <4>1. y < Base * (y + 1)
        BY <2>3, Largest
      <4>2. y + 1 \in Nat
        BY <2>3
      <4>3. y \div Base < y + 1
        BY <2>3, <4>1, <4>2, Quotients, Largest
      <4> QED
        BY <2>3, <2>4, <4>3
    <3> QED
      BY <2>2, <2>4, <3>1
  <2>6. c[z] = j + 1
    BY <2>1, <2>4, <2>5
  <2>7. y \in 0 .. n /\ y # 0
    OBVIOUS
  <2>8. c[y] = 1 + c[z]
    BY <1>1, <2>4, <2>7 DEF Counts
  <2> QED
    BY <2>6, <2>8
<1>4. S = Nat
  <2>1. S \subseteq Nat
    OBVIOUS
  <2> HIDE DEF S
  <2> QED
    BY <1>2, <1>3, <2>1, AllNumbers
<1>5. k - 1 \in Nat /\ (k - 1) + 1 = k
  BY Largest DEF Needs
<1>6. Power(Base, k - 1) <= x /\ x < Power(Base, (k - 1) + 1)
  <2>1. CASE k > 1
    BY <1>5, <2>1, PowerStep, Largest DEF Needs
  <2>2. CASE k = 1
    BY <1>5, <2>2, PowerStep, Largest DEF Needs
  <2> QED
    BY <1>5, <2>1, <2>2
<1>7. x \in 1 .. n
  BY <1>1
<1> QED
  BY <1>4, <1>5, <1>6, <1>7

LEMMA InvLength == Inv => LengthAgrees
<1> SUFFICES ASSUME Inv, objtype = "string"
             PROVE  getStrLen = IF enctype = "int" /\ istr = 0 THEN 0 ELSE Len(text)
  BY DEF LengthAgrees
<1>1. istr \in Numbers /\ istr \in Int /\ enctype \in {"int", "raw"}
  BY Largest DEF Inv, StringInv, StringTypeOK, Numbers
<1>2. PICK c : /\ Counts(c)
               /\ getStrLen = IF enctype = "raw" THEN Len(str)
                              ELSE c[Magnitude(istr)] + (IF istr < 0 THEN 1 ELSE 0)
  BY StrLenIs
<1>3. CASE enctype = "raw"
  BY <1>2, <1>3 DEF text
<1>4. CASE enctype = "int" /\ istr = 0
  <2>1. Magnitude(istr) = 0 /\ 0 \in 0 .. Power(Base, Short)
    BY <1>4, Largest DEF Magnitude
  <2>2. c[0] = 0
    BY <1>2, <2>1 DEF Counts
  <2> QED
    BY <1>2, <1>4, <2>1, <2>2
<1>5. CASE enctype = "int" /\ istr # 0
  <2>1. Magnitude(istr) \in Nat /\ Magnitude(istr) < Power(Base, Short)
    BY <1>1, NumeralIs
  <2>2. PICK k \in 1 .. Short : /\ Needs(Magnitude(istr), k)
                                /\ Len(Numeral(istr)) = IF istr < 0 THEN k + 1 ELSE k
    BY <1>1, NumeralIs
  <2>3. Magnitude(istr) # 0
    BY <1>1, <1>5 DEF Magnitude
  <2>4. c[Magnitude(istr)] = k
    BY <1>2, <2>1, <2>2, <2>3, CountedDigits
  <2>5. k \in Int /\ text = Numeral(istr)
    BY <1>5, Largest DEF text
  <2> QED
    BY <1>1, <1>2, <1>5, <2>2, <2>4, <2>5
<1> QED
  BY <1>1, <1>3, <1>4, <1>5

(* getStrLen gives the length of what print shows, a sign included, but for  *)
(* the integer 0.                                                            *)
THEOREM LengthAgreesHolds == Spec => []LengthAgrees
BY InvLength, InvHolds, PTL
-----------------------------------------------------------------------------
(* A text is no longer than half of what a size_t can say. *)
LEMMA HalfSize ==
    /\ Power(2, SizeWidth - 1) \in Nat \ {0}
    /\ Power(2, SizeWidth) = 2 * Power(2, SizeWidth - 1)
    /\ MaxLen \in Nat /\ MaxLen <= Power(2, SizeWidth - 1)
    /\ Short < Power(2, SizeWidth - 1)
    /\ \A b \in Bounds : /\ b \in Int /\ 0 - Power(2, SizeWidth - 1) <= b
                         /\ b < Power(2, SizeWidth - 1)
<1>1. SizeWidth - 1 \in Nat /\ (SizeWidth - 1) + 1 = SizeWidth
  BY SizeAssumption
<1>2. /\ Power(2, SizeWidth - 1) \in Nat
      /\ Power(2, (SizeWidth - 1) + 1) = 2 * Power(2, SizeWidth - 1)
  BY <1>1, PowerStep
<1>3. Power(2, SizeWidth - 1) >= 1
  <2>1. 2 \in Nat \ {0, 1} /\ SizeWidth - 1 <= SizeWidth - 1
    BY <1>1
  <2> QED
    BY <1>1, <2>1, PowerGrows
<1>4. PICK h \in Nat \ {0} : h = Power(2, SizeWidth - 1)
  BY <1>2, <1>3
<1>5. \A b \in Bounds : b \in Int /\ 0 - h <= b /\ b < h
  <2>1. Bounds \subseteq -h .. (h - 1)
    BY <1>4, SizeAssumption
  <2> QED
    BY <2>1
<1> QED
  BY <1>1, <1>2, <1>4, <1>5, SizeAssumption

LEMMA TextFits ==
    ASSUME Inv
    PROVE  Len(text) <= Power(2, SizeWidth - 1)
<1>1. PICK h \in Nat : /\ h = Power(2, SizeWidth - 1)
                       /\ MaxLen <= h /\ Short < h
  BY HalfSize
<1>2. istr \in Numbers /\ enctype \in {"int", "raw"} /\ str \in Texts
  BY DEF Inv, StringInv, StringTypeOK, Numbers
<1>3. CASE enctype = "raw"
  <2>1. Len(str) \in Nat /\ (Len(str) <= MaxLen \/ Len(str) <= Short)
    BY <1>2, <1>3, LenProperties DEF Texts, Inv, Bounded
  <2> QED
    BY <1>1, <1>3, <2>1, HalfSize, Largest DEF text
<1>4. CASE enctype = "int"
  <2>1. PICK k \in 1 .. Short : Len(Numeral(istr)) = IF istr < 0 THEN k + 1 ELSE k
    BY <1>2, NumeralIs
  <2>2. k + 1 <= h /\ k <= h
    BY <1>1, Largest
  <2> QED
    BY <1>1, <1>4, <2>1, <2>2 DEF text
<1> QED
  BY <1>2, <1>3, <1>4

(* The part of t between start and end, as RangeAgrees says it. *)
Cut(t, start, end) ==
    LET last == IF end < start - 1 THEN Len(t) - 1 ELSE end IN
    IF start < 0 THEN << >>
    ELSE SubSeq(t, start + 1, IF last < Len(t) THEN last + 1 ELSE Len(t))

(* What substr is asked for is what lies between the bounds, or more than    *)
(* there is.                                                                 *)
LEMMA AskedFor ==
    ASSUME NEW h \in Nat \ {0}, NEW start \in Int, NEW end \in Int, NEW n \in Nat,
           0 <= start, start < n, n <= h, 0 - h <= end, end < h
    PROVE  LET k == ((end % (2 * h)) - start + 1) % (2 * h) IN
           /\ k \in Nat
           /\ IF end < start - 1 THEN k >= n - start ELSE k = end - start + 1
<1>1. PICK m \in Nat \ {0} : m = 2 * h
  OBVIOUS
<1>2. end \in Int /\ 0 - m <= end /\ end < m
  BY <1>1
<1>3. PICK e \in Int : e = end % m /\ e = IF end < 0 THEN end + m ELSE end
  <2>1. CASE end < 0
    BY <1>2, <2>1, Remainders
  <2>2. CASE 0 <= end
    BY <1>2, <2>2, Remainders
  <2> QED
    BY <2>1, <2>2
<1>4. PICK x \in Int : x = e - start + 1
  OBVIOUS
<1>5. x % m \in 0 .. m - 1
  BY <1>4, Remainders
<1>6. CASE end >= 0 /\ end >= start - 1
  <2>1. x = end - start + 1 /\ 0 <= x /\ x < m
    BY <1>1, <1>3, <1>4, <1>6
  <2>2. x % m = x
    BY <2>1, Remainders
  <2> QED
    BY <1>1, <1>3, <1>4, <1>5, <1>6, <2>1, <2>2
<1>7. CASE end >= 0 /\ end < start - 1
  <2>1. 0 - m <= x /\ x < 0 /\ x + m >= n - start
    BY <1>1, <1>3, <1>4, <1>7
  <2>2. x % m = x + m
    BY <2>1, Remainders
  <2> QED
    BY <1>1, <1>3, <1>4, <1>5, <1>7, <2>1, <2>2
<1>8. CASE end < 0 /\ end >= start - 1
  <2>1. start = 0 /\ end = -1 /\ x = m
    BY <1>1, <1>3, <1>4, <1>8
  <2>2. m % m = 0
    OBVIOUS
  <2> QED
    BY <1>1, <1>3, <1>4, <1>5, <1>8, <2>1, <2>2
<1>9. CASE end < 0 /\ end < start - 1
  <2>1. 0 <= x /\ x < m /\ x >= n - start
    BY <1>1, <1>3, <1>4, <1>9
  <2>2. x % m = x
    BY <2>1, Remainders
  <2> QED
    BY <1>1, <1>3, <1>4, <1>5, <1>9, <2>1, <2>2
<1> QED
  BY <1>6, <1>7, <1>8, <1>9

LEMMA InvRange == Inv => RangeAgrees
<1> SUFFICES ASSUME Inv, NEW start \in Bounds, NEW end \in Bounds
             PROVE  getRange(start, end) = Cut(text, start, end)
  BY DEF RangeAgrees, Cut
<1>1. PICK h \in Nat \ {0} : h = Power(2, SizeWidth - 1) /\ 2 * h = Power(2, SizeWidth)
  BY HalfSize
<1>2. /\ start \in Int /\ 0 - h <= start /\ start < h
      /\ end \in Int /\ 0 - h <= end /\ end < h
  BY <1>1, HalfSize
<1>3. PICK n \in Nat : n = Len(text) /\ n <= h
  BY <1>1, TextTyped, TextFits
<1>4. PICK m \in Nat \ {0} : m = 2 * h /\ m = Power(2, SizeWidth)
  BY <1>1
<1>5. 0 - m <= start /\ start < m
  BY <1>2, <1>4
<1>6. CASE start < 0
  <2>1. SizeT(start) = start + m
    BY <1>2, <1>4, <1>5, <1>6, Remainders DEF SizeT
  <2>2. SizeT(start) >= n
    BY <1>2, <1>3, <1>4, <2>1
  <2> QED
    BY <1>3, <1>6, <2>2 DEF getRange, Cut
<1>7. CASE 0 <= start
  <2>1. SizeT(start) = start
    BY <1>2, <1>4, <1>5, <1>7, Remainders DEF SizeT
  <2> DEFINE last == IF end < start - 1 THEN n - 1 ELSE end
             upper == IF last < n THEN last + 1 ELSE n
  <2>2. Cut(text, start, end) = SubSeq(text, start + 1, upper)
    BY <1>2, <1>3, <1>7 DEF Cut
  <2>3. upper \in Int /\ upper <= n
    BY <1>2, <1>3
  <2>4. CASE start >= n
    <3>1. getRange(start, end) = << >>
      BY <1>3, <2>1, <2>4 DEF getRange
    <3>2. upper < start + 1
      BY <1>2, <1>3, <2>3, <2>4
    <3>3. start + 1 \in Int
      BY <1>2
    <3> HIDE DEF upper
    <3>4. SubSeq(text, start + 1, upper) = << >>
      BY <2>3, <3>2, <3>3, SubSeqEmpty
    <3> QED
      BY <2>2, <3>1, <3>4
  <2>5. CASE start < n
    <3>1. PICK k \in Nat : /\ k = ((end % m) - start + 1) % m
                           /\ IF end < start - 1 THEN k >= n - start
                              ELSE k = end - start + 1
      BY <1>2, <1>3, <1>4, <1>7, <2>5, AskedFor
    <3>2. getRange(start, end) = substr(text, start, k)
      BY <1>2, <1>3, <1>4, <2>1, <2>5, <3>1 DEF getRange, SizeT
    <3>3. start + (IF k < n - start THEN k ELSE n - start) = upper
      BY <1>2, <1>3, <1>7, <2>5, <3>1
    <3>4. substr(text, start, k) = SubSeq(text, start + 1, upper)
      BY <1>3, <3>3 DEF substr
    <3> QED
      BY <2>2, <3>2, <3>4
  <2> QED
    BY <1>2, <1>3, <2>4, <2>5
<1> QED
  BY <1>2, <1>6, <1>7

(* getRange gives the part between its bounds, however the conversions to    *)
(* size_t wrap around.                                                       *)
THEOREM RangeAgreesHolds == Spec => []RangeAgrees
BY InvRange, InvHolds, PTL
=============================================================================
