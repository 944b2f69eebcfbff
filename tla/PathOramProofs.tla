--------------------------- MODULE PathOramProofs ---------------------------
(***************************************************************************)
(* The ORAM of c/path_oram is an array: proofs for every height of the two *)
(* trees, size of buckets and stashes, number of blocks and of entries in  *)
(* a block of the position map.  In order: numbers and powers of two, the  *)
(* tree and its paths, the scan for a block, eviction (buckets assigned,   *)
(* empty blocks placed, the stash sorted), the places of an ORAM and what  *)
(* reading and writing a path does to them, an access, the position map,   *)
(* the inductive invariant and the refinement.                             *)
(*                                                                         *)
(* Loops of the code are recursive functions; SetInduction, from the least *)
(* element of a set of numbers, takes the place of an induction rule.      *)
(***************************************************************************)
EXTENDS PathOram, FiniteSetTheorems, NaturalsInduction, WellFoundedInduction, TLAPS

(* Every nonempty set of naturals has a least element. *)
LEMMA LeastNumber ==
    ASSUME NEW T \in SUBSET Nat, T # {}
    PROVE  \E x \in T : \A y \in T : x <= y
<1> DEFINE R == OpToRel(<, Nat)
<1>1. IsWellFoundedOn(R, Nat)
  BY NatLessThanWellFounded
<1>2. PICK x \in T : \A y \in T : ~(<<y, x>> \in R)
  <2> HIDE DEF R
  <2> QED BY <1>1, WFMin
<1>3. R = {ss \in Nat \X Nat : ss[1] < ss[2]}
  BY DEF OpToRel
<1>4. \A y \in T : x <= y
  <2> HIDE DEF R
  <2> SUFFICES ASSUME NEW y \in T, ~(x <= y) PROVE FALSE
    OBVIOUS
  <2>1. x \in Nat /\ y \in Nat /\ y < x
    OBVIOUS
  <2>2. <<y, x>> \in R
    BY <2>1, <1>3
  <2> QED BY <2>2, <1>2
<1> QED BY <1>4

(* Induction on the naturals, for the members of a set. *)
LEMMA SetInduction ==
    ASSUME NEW S, 0 \in S, \A n \in Nat : n \in S => n + 1 \in S
    PROVE  \A n \in Nat : n \in S
<1> DEFINE T == Nat \ S
<1>1. SUFFICES ASSUME T # {} PROVE FALSE
  OBVIOUS
<1>2. PICK x \in T : \A y \in T : x <= y
  BY <1>1, LeastNumber
<1>3. x \in Nat /\ x # 0 /\ x \notin S
  OBVIOUS
<1>4. x - 1 \in Nat /\ x - 1 \in S
  BY <1>2, <1>3
<1> QED BY <1>3, <1>4

(* A nonempty set of numbers with a bound has a greatest and a least one. *)
LEMMA MaxOf ==
    ASSUME NEW S \in SUBSET Nat, S # {}, NEW n \in Nat, \A x \in S : x <= n
    PROVE  Max(S) \in S /\ \A y \in S : Max(S) >= y
<1> DEFINE T == {n - x : x \in S}
<1>1. T \in SUBSET Nat /\ T # {}
  <2>1. \A x \in S : n - x \in Nat
    OBVIOUS
  <2> QED BY <2>1
<1>2. PICK t \in T : \A u \in T : t <= u
  BY <1>1, LeastNumber
<1>3. PICK x \in S : t = n - x
  OBVIOUS
<1>4. \A y \in S : x >= y
  <2> SUFFICES ASSUME NEW y \in S PROVE x >= y
    OBVIOUS
  <2>1. n - x <= n - y
    BY <1>2, <1>3
  <2> QED BY <2>1
<1> QED BY <1>4 DEF Max

(* The least element of a nonempty set of numbers. *)
LEMMA MinOf ==
    ASSUME NEW S \in SUBSET Nat, S # {}
    PROVE  Min(S) \in S /\ \A y \in S : Min(S) <= y
  BY LeastNumber DEF Min

-----------------------------------------------------------------------------
(* Powers of two and division. *)
LEMMA Pow2Def == pow2 = [n \in Nat |-> IF n = 0 THEN 1 ELSE 2 * pow2[n - 1]]
<1> DEFINE Def(v, n) == 2 * v
           f[n \in Nat] == IF n = 0 THEN 1 ELSE Def(f[n-1], n)
<1>1. NatInductiveDefConclusion(f, 1, Def)
  <2>1. NatInductiveDefHypothesis(f, 1, Def)
    BY DEF NatInductiveDefHypothesis
  <2> QED BY <2>1, NatInductiveDef
<1> QED BY <1>1 DEF NatInductiveDefConclusion, pow2

(* The recursion of pow2, which the provers do not unfold by themselves. *)
LEMMA Pow2Step ==
    /\ pow2[0] = 1
    /\ \A n \in Nat : pow2[n + 1] = 2 * pow2[n]
<1>1. pow2[0] = 1
  BY Pow2Def
<1>2. ASSUME NEW n \in Nat PROVE pow2[n + 1] = 2 * pow2[n]
  <2>1. n + 1 \in Nat /\ n + 1 # 0 /\ (n + 1) - 1 = n
    OBVIOUS
  <2>2. \A m \in Nat : m # 0 => pow2[m] = 2 * pow2[m - 1]
    BY Pow2Def, Zenon
  <2> QED BY <2>1, <2>2
<1> QED BY <1>1, <1>2

(* Powers of two are positive. *)
LEMMA Pow2Type == \A n \in Nat : pow2[n] \in Nat \ {0}
<1> DEFINE S == {n \in Nat : pow2[n] \in Nat \ {0}}
<1>1. 0 \in S /\ \A n \in Nat : n \in S => n + 1 \in S
  BY Pow2Step
<1> HIDE DEF S
<1>2. \A n \in Nat : n \in S
  BY <1>1, SetInduction
<1> QED BY <1>2 DEF S

(* Division with remainder. *)
LEMMA DivMod ==
    ASSUME NEW x \in Nat, NEW d \in Nat \ {0}
    PROVE  \E q, r \in Nat : q = x \div d /\ r = x % d /\ r < d /\ x = d * q + r
<1>1. PICK q \in Nat : q = x \div d
  OBVIOUS
<1>2. PICK r \in Nat : r = x % d /\ r < d
  OBVIOUS
<1>3. r = x - d * q
  <2>1. x % d = x - d * (x \div d)
    OBVIOUS
  <2> QED BY <1>1, <1>2, <2>1
<1>4. x = d * q + r
  BY <1>3
<1> QED BY <1>1, <1>2, <1>4

(* Quotient and remainder are determined. *)
LEMMA DivUnique ==
    ASSUME NEW d \in Nat \ {0}, NEW q \in Int, NEW p \in Int, NEW r \in Nat, NEW s \in Nat,
           r < d, s < d, d * q + r = d * p + s
    PROVE  q = p /\ r = s
<1>1. ASSUME NEW a \in Int, NEW b \in Int, NEW t \in Nat, NEW u \in Nat, t < d, u < d,
             d * a + t = d * b + u, a < b
      PROVE  FALSE
  <2>1. b >= a + 1
    BY <1>1
  <2>2. d * b >= d * (a + 1)
    BY <2>1
  <2>3. d * (a + 1) = d * a + d
    OBVIOUS
  <2> QED BY <1>1, <2>2, <2>3
<1>2. ~(q < p) /\ ~(p < q)
  BY <1>1
<1> QED BY <1>2

(* Quotient and remainder are determined by what they add up to. *)
LEMMA DivModIs ==
    ASSUME NEW d \in Nat \ {0}, NEW q \in Nat, NEW r \in Nat, r < d
    PROVE  /\ (d * q + r) \div d = q
           /\ (d * q + r) % d = r
<1> DEFINE x == d * q + r
<1>1. x \in Nat
  OBVIOUS
<1>2. x = d * q + r
  OBVIOUS
<1> HIDE DEF x
<1>3. PICK p, s \in Nat : p = x \div d /\ s = x % d /\ s < d /\ x = d * p + s
  BY <1>1, DivMod
<1>4. x \div d = q /\ x % d = r
  BY <1>2, <1>3, DivUnique
<1> QED BY <1>4 DEF x

-----------------------------------------------------------------------------
(* The tree.  Every number is a node: its trailing ones give its level.     *)
IsNode(n, l, o) == n = pow2[l + 1] * o + (pow2[l] - 1)

(* node_val gives the number of the node at level l and offset o. *)
LEMMA NodeType ==
    ASSUME NEW l \in Nat, NEW o \in Nat
    PROVE  /\ node_val(l, o) \in Nat
           /\ IsNode(node_val(l, o), l, o)
           /\ pow2[l + 1] \in Nat \ {0} /\ pow2[l] \in Nat \ {0}
           /\ pow2[l] - 1 \in Nat /\ pow2[l] - 1 < pow2[l + 1]
           /\ pow2[l + 1] = 2 * pow2[l]
<1>1. pow2[l + 1] = 2 * pow2[l] /\ pow2[l] \in Nat \ {0}
  BY Pow2Step, Pow2Type
<1>2. pow2[l] - 1 \in Nat /\ pow2[l] - 1 < pow2[l + 1] /\ pow2[l + 1] \in Nat \ {0}
  BY <1>1
<1>3. pow2[l + 1] * o \in Nat
  BY <1>2
<1>4. \A a \in Nat, b \in Nat : a + b - 1 = a + (b - 1)
  OBVIOUS
<1>5. node_val(l, o) = pow2[l + 1] * o + (pow2[l] - 1)
  BY <1>1, <1>3, <1>4 DEF node_val
<1> QED BY <1>1, <1>2, <1>3, <1>5 DEF IsNode

(* Level and offset of a node can be read off its number. *)
LEMMA NodeMod ==
    ASSUME NEW n, NEW l \in Nat, NEW o \in Nat, IsNode(n, l, o)
    PROVE  n \in Nat /\ n % pow2[l + 1] = pow2[l] - 1 /\ n \div pow2[l + 1] = o
  BY NodeType, DivModIs DEF IsNode

(* A number with the low bits of level l is a node of that level. *)
LEMMA NodeOfMod ==
    ASSUME NEW n \in Nat, NEW l \in Nat, n % pow2[l + 1] = pow2[l] - 1
    PROVE  IsNode(n, l, n \div pow2[l + 1]) /\ n \div pow2[l + 1] \in Nat
<1>1. pow2[l + 1] \in Nat \ {0}
  BY Pow2Type
<1>2. PICK q, r \in Nat : /\ q = n \div pow2[l + 1] /\ r = n % pow2[l + 1]
                          /\ n = pow2[l + 1] * q + r
  BY <1>1, DivMod
<1> QED BY <1>2 DEF IsNode

(* The lowest bits of a node of a level are those of a higher level. *)
LEMMA LevelUnique ==
    ASSUME NEW n, NEW l \in Nat, NEW o \in Nat, IsNode(n, l, o),
           NEW m \in Nat, NEW p \in Nat, IsNode(n, m, p)
    PROVE  l = m /\ o = p
<1>1. \A k \in Nat : pow2[k] \in Nat \ {0} /\ pow2[k + 1] = 2 * pow2[k]
  BY Pow2Step, Pow2Type
(* A node of a level above a is one less than a multiple of 2 ** (a + 1). *)
<1>2. ASSUME NEW a \in Nat
      PROVE  \A d \in Nat : \E q \in Nat : pow2[a + 1 + d] = pow2[a + 1] * q /\ q > 0
  <2> DEFINE S == {d \in Nat : \E q \in Nat : pow2[a + 1 + d] = pow2[a + 1] * q /\ q > 0}
  <2>1. 0 \in S
    <3>1. a + 1 + 0 = a + 1 /\ pow2[a + 1] = pow2[a + 1] * 1
      BY <1>1
    <3> QED BY <3>1
  <2>2. ASSUME NEW d \in Nat, d \in S PROVE d + 1 \in S
    <3>1. PICK q \in Nat : pow2[a + 1 + d] = pow2[a + 1] * q /\ q > 0
      BY <2>2
    <3>2. a + 1 + d \in Nat /\ a + 1 + (d + 1) = (a + 1 + d) + 1
      OBVIOUS
    <3>3. pow2[a + 1 + (d + 1)] = 2 * (pow2[a + 1] * q)
      BY <1>1, <3>1, <3>2
    <3>4. \A x \in Nat : 2 * (x * q) = x * (2 * q)
      OBVIOUS
    <3>5. pow2[a + 1 + (d + 1)] = pow2[a + 1] * (2 * q)
      BY <1>1, <3>3, <3>4
    <3> QED BY <3>1, <3>5
  <2> HIDE DEF S
  <2>3. \A d \in Nat : d \in S
    BY <2>1, <2>2, SetInduction
  <2> QED BY <2>3 DEF S
<1>3. ASSUME NEW a \in Nat, NEW x \in Nat, IsNode(n, a, x),
             NEW b \in Nat, NEW y \in Nat, IsNode(n, b, y), a < b
      PROVE  FALSE
  <2> DEFINE D == pow2[a + 1]
  <2>1. PICK d \in Nat : b = a + 1 + d
    <3>1. b - a - 1 \in Nat /\ b = a + 1 + (b - a - 1)
      BY <1>3
    <3> QED BY <3>1
  <2>2. PICK q \in Nat : pow2[b] = D * q /\ q > 0
    BY <1>2, <2>1
  <2>3. D \in Nat \ {0} /\ pow2[a] - 1 \in Nat /\ pow2[a] \in Nat /\ D = 2 * pow2[a]
    BY <1>1
  <2>4. n = D * x + (pow2[a] - 1)
    BY <1>3 DEF IsNode
  <2>5. n = (2 * (D * q)) * y + (D * q - 1)
    BY <1>3, <2>2, <1>1 DEF IsNode
  <2> HIDE DEF D
  <2>6. (2 * (D * q)) * y + (D * q - 1) = D * (2 * q * y + q - 1) + (D - 1)
    BY <2>3
  <2>7. 2 * q * y \in Nat
    OBVIOUS
  <2>8. 2 * q * y + q - 1 \in Nat
    BY <2>2, <2>7
  <2>9. pow2[a] - 1 = D - 1
    <3> DEFINE z == 2 * q * y + q - 1
    <3>1. D * x + (pow2[a] - 1) = D * z + (D - 1)
      BY <2>4, <2>5, <2>6
    <3>2. pow2[a] - 1 < D /\ D - 1 < D /\ D - 1 \in Nat
      BY <2>3
    <3>3. z \in Nat
      BY <2>8
    <3>4. PICK r \in Nat : r = pow2[a] - 1
      BY <2>3
    <3>5. PICK s \in Nat : s = D - 1
      BY <3>2
    <3>6. D * x + r = D * z + s /\ r < D /\ s < D
      BY <3>1, <3>2, <3>4, <3>5
    <3> HIDE DEF z
    <3>7. (D * x + r) % D = r /\ (D * z + s) % D = s
      BY <2>3, <3>3, <3>6, DivModIs
    <3> QED BY <3>4, <3>5, <3>6, <3>7
  <2> QED BY <2>3, <2>9
<1>4. l = m
  BY <1>3
<1>5. o = p
  BY <1>4, NodeMod
<1> QED BY <1>4, <1>5

(* No node is as high as its number: the search for its level is bounded. *)
LEMMA LevelLess == \A n \in Nat : n < pow2[n]
<1> DEFINE S == {n \in Nat : n < pow2[n]}
<1>1. 0 \in S /\ \A n \in Nat : n \in S => n + 1 \in S
  BY Pow2Step, Pow2Type
<1> HIDE DEF S
<1>2. \A n \in Nat : n \in S
  BY <1>1, SetInduction
<1> QED BY <1>2 DEF S

(* Every number is a node of some level. *)
LEMMA NodeExists == \A n \in Nat : \E l, o \in Nat : IsNode(n, l, o)
<1> DEFINE S == {n \in Nat : \A m \in 0 .. n : \E l, o \in Nat : IsNode(m, l, o)}
<1>1. ASSUME NEW n \in Nat, \A m \in 0 .. n - 1 : \E l, o \in Nat : IsNode(m, l, o)
      PROVE  \E l, o \in Nat : IsNode(n, l, o)
  <2>1. pow2[0] = 1 /\ pow2[0 + 1] = 2
    BY Pow2Step
  <2>2. CASE n % 2 = 0
    <3>1. n \div 2 \in Nat /\ n = 2 * (n \div 2)
      BY <2>2
    <3>2. IsNode(n, 0, n \div 2)
      BY <2>1, <3>1 DEF IsNode
    <3> QED BY <3>1, <3>2
  <2>3. CASE n % 2 # 0
    <3> DEFINE m == n \div 2
    <3>1. m \in 0 .. n - 1 /\ n = 2 * m + 1
      BY <2>3
    <3>2. PICK l \in Nat, o \in Nat : IsNode(m, l, o)
      BY <1>1, <3>1
    <3>3. /\ pow2[l] \in Nat /\ pow2[l + 1] = 2 * pow2[l]
          /\ (l + 1) + 1 \in Nat /\ pow2[(l + 1) + 1] = 2 * pow2[l + 1]
      BY Pow2Step, Pow2Type
    <3>4. m = pow2[l + 1] * o + (pow2[l] - 1)
      BY <3>2 DEF IsNode
    <3> HIDE DEF m
    <3>5. 2 * m + 1 = (2 * pow2[l + 1]) * o + (2 * pow2[l] - 1)
      BY <3>3, <3>4
    <3>6. IsNode(n, l + 1, o)
      BY <3>1, <3>3, <3>5 DEF IsNode
    <3> QED BY <3>6
  <2> QED BY <2>2, <2>3
<1>2. 0 \in S
  BY <1>1
<1>3. ASSUME NEW n \in Nat, n \in S PROVE n + 1 \in S
  <2>1. \E l, o \in Nat : IsNode(n + 1, l, o)
    BY <1>1, <1>3
  <2> QED BY <1>3, <2>1
<1> HIDE DEF S
<1>4. \A n \in Nat : n \in S
  BY <1>2, <1>3, SetInduction
<1> QED BY <1>4 DEF S

(* tree_path.c's level finds the level of a node, the count of its low ones. *)
LEMMA LevelIs ==
    ASSUME NEW n, NEW l \in Nat, NEW o \in Nat, IsNode(n, l, o)
    PROVE  level(n) = l
<1>1. n \in Nat /\ n % pow2[l + 1] = pow2[l] - 1
  BY NodeMod
<1>2. l <= n
  <2>1. l < pow2[l] /\ pow2[l] \in Nat /\ pow2[l + 1] * o \in Nat
    <3>1. pow2[l] \in Nat /\ pow2[l + 1] \in Nat
      BY NodeType
    <3>2. \A x \in Nat : x * o \in Nat
      OBVIOUS
    <3> QED BY LevelLess, <3>1, <3>2
  <2> QED BY <2>1 DEF IsNode
<1>3. ASSUME NEW m \in 0 .. n, n % pow2[m + 1] = pow2[m] - 1
      PROVE  m = l
  <2>1. m \in Nat
    OBVIOUS
  <2> QED BY <1>1, <1>3, <2>1, NodeOfMod, LevelUnique
<1>4. l \in 0 .. n
  BY <1>1, <1>2
<1> QED BY <1>1, <1>3, <1>4 DEF level

(* The bounds of a node's subtree. *)
LEMMA NodeBounds ==
    ASSUME NEW n, NEW l \in Nat, NEW o \in Nat, IsNode(n, l, o)
    PROVE  /\ lower_bound(n) = pow2[l + 1] * o
           /\ upper_bound(n) = pow2[l + 1] * o + (pow2[l + 1] - 2)
<1>1. level(n) = l
  BY LevelIs
<1>2. pow2[l] \in Nat /\ pow2[l + 1] = 2 * pow2[l] /\ pow2[l + 1] * o \in Nat
  <2>1. pow2[l] \in Nat /\ pow2[l + 1] \in Nat /\ pow2[l + 1] = 2 * pow2[l]
    BY NodeType
  <2>2. \A x \in Nat : x * o \in Nat
    OBVIOUS
  <2> QED BY <2>1, <2>2
<1>3. \A x \in Nat, y \in Nat : /\ (x + (y - 1)) - (y - 1) = x
                                /\ (x + (y - 1)) + (y - 1) = x + (2 * y - 2)
  OBVIOUS
<1>4. n = pow2[l + 1] * o + (pow2[l] - 1)
  BY DEF IsNode
<1> QED BY <1>1, <1>2, <1>3, <1>4 DEF lower_bound, upper_bound

(* Position p is leaf 2 * p, whose offset is p. *)
LEMMA LeafIs == \A p \in Nat : coords_for_val(2 * p) = p
<1> SUFFICES ASSUME NEW p \in Nat PROVE coords_for_val(2 * p) = p
  OBVIOUS
<1>1. pow2[0] = 1 /\ pow2[0 + 1] = 2
  BY Pow2Step
<1>2. IsNode(2 * p, 0, p)
  BY <1>1 DEF IsNode
<1>3. level(2 * p) = 0
  BY <1>2, LevelIs
<1> QED BY <1>1, <1>3 DEF coords_for_val

(* Powers of two multiply by adding up their exponents. *)
LEMMA Pow2Sum == \A a, d \in Nat : pow2[a + d] = pow2[a] * pow2[d]
<1> SUFFICES ASSUME NEW a \in Nat PROVE \A d \in Nat : pow2[a + d] = pow2[a] * pow2[d]
  OBVIOUS
<1> DEFINE S == {d \in Nat : pow2[a + d] = pow2[a] * pow2[d]}
<1>1. 0 \in S
  <2>1. a + 0 = a /\ pow2[a] * 1 = pow2[a]
    BY Pow2Type
  <2> QED BY <2>1, Pow2Step
<1>2. ASSUME NEW d \in Nat, d \in S PROVE d + 1 \in S
  <2>1. a + d \in Nat /\ a + (d + 1) = (a + d) + 1
    OBVIOUS
  <2>2. pow2[a + (d + 1)] = 2 * (pow2[a] * pow2[d])
    BY <1>2, <2>1, Pow2Step
  <2>3. pow2[d + 1] = 2 * pow2[d]
    BY Pow2Step
  <2>4. \A x, y \in Nat : 2 * (x * y) = x * (2 * y)
    OBVIOUS
  <2> QED BY <2>2, <2>3, <2>4, Pow2Type
<1> HIDE DEF S
<1>3. \A d \in Nat : d \in S
  BY <1>1, <1>2, SetInduction
<1> QED BY <1>3 DEF S

(* Powers of two grow with their exponent. *)
LEMMA Pow2Grows ==
    ASSUME NEW a \in Nat, NEW b \in Nat, a <= b
    PROVE  pow2[a] <= pow2[b]
<1>1. b - a \in Nat /\ b = a + (b - a)
  OBVIOUS
<1>2. pow2[b] = pow2[a] * pow2[b - a]
  BY <1>1, Pow2Sum
<1>3. \A x, y \in Nat \ {0} : x <= x * y
  OBVIOUS
<1> QED BY <1>1, <1>2, <1>3, Pow2Type

(* A smaller power of two has a smaller exponent. *)
LEMMA Pow2Less ==
    ASSUME NEW a \in Nat, NEW b \in Nat, pow2[a] < pow2[b]
    PROVE  a < b
  BY Pow2Grows, Pow2Type

(* The tree of a path length. *)
LEMMA PositionsType ==
    ASSUME NEW L \in Nat \ {0}
    PROVE  /\ pow2[L] = 2 * pow2[L - 1] /\ pow2[L - 1] \in Nat \ {0}
           /\ \A p \in Positions(L) : p \in Nat /\ p < pow2[L - 1]
           /\ tree_path_num_nodes(L) \in Nat
<1>1. L - 1 \in Nat /\ (L - 1) + 1 = L
  OBVIOUS
<1>2. pow2[L] = 2 * pow2[L - 1] /\ pow2[L - 1] \in Nat \ {0}
  BY <1>1, Pow2Step, Pow2Type
<1> QED BY <1>2 DEF Positions, tree_path_num_nodes

(* The nodes of a path. *)
LEMMA PathNode ==
    ASSUME NEW L \in Nat \ {0}, NEW p \in Positions(L), NEW l \in 0 .. L - 1
    PROVE  LET path == tree_path_update(L, 2 * p)
           IN  /\ IsNode(path[l], l, p \div pow2[l])
               /\ p \div pow2[l] \in Nat
               /\ path[l] \in 0 .. tree_path_num_nodes(L) - 1
<1> DEFINE path == tree_path_update(L, 2 * p)
<1>1. p \in Nat /\ p < pow2[L - 1] /\ l \in Nat /\ L - 1 - l \in Nat
  BY PositionsType
<1>2. coords_for_val(2 * p) = p
  BY <1>1, LeafIs
<1>3. PICK q, r \in Nat : q = p \div pow2[l] /\ r < pow2[l] /\ p = pow2[l] * q + r
  <2>1. PICK d \in Nat \ {0} : d = pow2[l]
    BY <1>1, Pow2Type
  <2>2. \E q, r \in Nat : q = p \div d /\ r = p % d /\ r < d /\ p = d * q + r
    BY <1>1, DivMod
  <2> QED BY <2>1, <2>2
<1>4. path[l] = node_val(l, q)
  BY <1>2, <1>3 DEF tree_path_update
<1> HIDE DEF path
<1>5. IsNode(path[l], l, q) /\ path[l] \in Nat
  <2>1. node_val(l, q) \in Nat /\ IsNode(node_val(l, q), l, q)
    BY <1>1, NodeType
  <2> QED BY <1>4, <2>1
<1>6. path[l] < tree_path_num_nodes(L)
  <2> DEFINE A == pow2[l]
             C == pow2[L - 1 - l]
  <2>1. A \in Nat \ {0} /\ C \in Nat \ {0} /\ pow2[l + 1] = 2 * A
    BY <1>1, Pow2Type, Pow2Step
  <2>2. pow2[L - 1] = A * C
    <3>1. L - 1 = l + (L - 1 - l)
      OBVIOUS
    <3> QED BY <1>1, <3>1, Pow2Sum
  <2>3. pow2[L] = 2 * (A * C)
    BY <2>2, PositionsType
  <2>4. path[l] = (2 * A) * q + (A - 1)
    BY <1>5, <2>1 DEF IsNode
  <2>5. A * q < A * C
    <3>1. A * q \in Nat /\ A * q <= p
      BY <1>3, <2>1
    <3>2. pow2[L - 1] \in Nat
      BY PositionsType
    <3> QED BY <1>1, <2>2, <3>1, <3>2
  <2> HIDE DEF A, C
  <2>6. q < C
    <3> SUFFICES ASSUME q >= C PROVE FALSE
      BY <2>1
    <3>1. A * q >= A * C
      BY <2>1
    <3> QED BY <2>1, <2>5, <3>1
  <2>7. A * (q + 1) <= A * C
    BY <2>1, <2>6
  <2>8. A * (q + 1) = A * q + A
    BY <2>1
  <2>9. (2 * A) * q = 2 * (A * q)
    BY <2>1
  <2>10. A * q \in Nat /\ A * C \in Nat
    BY <2>1
  <2> QED BY <2>1, <2>3, <2>4, <2>7, <2>8, <2>9, <2>10 DEF tree_path_num_nodes
<1> QED BY <1>3, <1>5, <1>6, PositionsType DEF path

(* tree_path_update gives one bucket of the tree per level, all different. *)
LEMMA PathType ==
    ASSUME NEW L \in Nat \ {0}, NEW p \in Positions(L)
    PROVE  /\ tree_path_update(L, 2 * p) \in [0 .. L - 1 -> 0 .. tree_path_num_nodes(L) - 1]
           /\ DOMAIN tree_path_update(L, 2 * p) = 0 .. L - 1
           /\ \A l, m \in 0 .. L - 1 :
                 tree_path_update(L, 2 * p)[l] = tree_path_update(L, 2 * p)[m] => l = m
<1> DEFINE path == tree_path_update(L, 2 * p)
<1>1. \A l \in 0 .. L - 1 : /\ IsNode(path[l], l, p \div pow2[l]) /\ p \div pow2[l] \in Nat
                            /\ path[l] \in 0 .. tree_path_num_nodes(L) - 1
  BY PathNode
<1>2. path = [l \in 0 .. L - 1 |-> path[l]]
  BY DEF tree_path_update
<1> HIDE DEF path
<1>3. path \in [0 .. L - 1 -> 0 .. tree_path_num_nodes(L) - 1]
  BY <1>1, <1>2
<1>4. ASSUME NEW l \in 0 .. L - 1, NEW m \in 0 .. L - 1, path[l] = path[m] PROVE l = m
  BY <1>1, <1>4, LevelUnique
<1> QED BY <1>2, <1>3, <1>4 DEF path

(* A position is below the node of another one's path if they agree from    *)
(* the level of the node on.                                                *)
LEMMA ValidIs ==
    ASSUME NEW n, NEW l \in Nat, NEW o \in Nat, IsNode(n, l, o), NEW x \in Nat
    PROVE  is_valid(n, 2 * x) <=> x \div pow2[l] = o
<1> DEFINE A == pow2[l]
<1>1. A \in Nat \ {0} /\ pow2[l + 1] = 2 * A
  BY Pow2Type, Pow2Step
<1>2. lower_bound(n) = (2 * A) * o /\ upper_bound(n) = (2 * A) * o + (2 * A - 2)
  BY <1>1, NodeBounds
<1>3. (2 * A) * o = 2 * (A * o) /\ A * o \in Nat
  BY <1>1
<1>4. PICK q, r \in Nat : q = x \div A /\ r = x % A /\ r < A /\ x = A * q + r
  BY <1>1, DivMod
<1> HIDE DEF A
<1>5. is_valid(n, 2 * x) <=> A * o <= x /\ x <= A * o + (A - 1)
  BY <1>1, <1>2, <1>3 DEF is_valid
<1>6. ASSUME q = o PROVE A * o <= x /\ x <= A * o + (A - 1)
  <2>1. x = A * o + r
    BY <1>4, <1>6
  <2> QED BY <1>1, <1>3, <1>4, <2>1
<1>7. ASSUME A * o <= x, x <= A * o + (A - 1) PROVE q = o
  <2>1. PICK s \in Nat : s = x - A * o
    BY <1>3, <1>7
  <2>2. x = A * o + s /\ s < A
    BY <1>1, <1>3, <1>7, <2>1
  <2>3. (A * o + s) \div A = o
    BY <1>1, <2>2, DivModIs
  <2> QED BY <1>4, <2>2, <2>3
<1> QED BY <1>4, <1>5, <1>6, <1>7 DEF A

(* A leaf is below the bucket of the path at level l exactly when it agrees *)
(* with the path's leaf above its low l bits.                               *)
LEMMA ValidOnPath ==
    ASSUME NEW L \in Nat \ {0}, NEW p \in Positions(L), NEW l \in 0 .. L - 1, NEW x \in Nat
    PROVE  is_valid(tree_path_update(L, 2 * p)[l], 2 * x) <=> x \div pow2[l] = p \div pow2[l]
<1>1. l \in Nat
  OBVIOUS
<1> QED BY <1>1, PathNode, ValidIs

(* A path has every bucket in which a block of its position may be. *)
LEMMA PathComplete ==
    ASSUME NEW L \in Nat \ {0}, NEW p \in Positions(L),
           NEW b \in 0 .. tree_path_num_nodes(L) - 1, is_valid(b, 2 * p)
    PROVE  \E l \in 0 .. L - 1 : tree_path_update(L, 2 * p)[l] = b
<1>1. b \in Nat /\ p \in Nat
  BY PositionsType
<1>2. PICK l, o \in Nat : IsNode(b, l, o)
  BY <1>1, NodeExists
<1>3. p \div pow2[l] = o
  BY <1>1, <1>2, ValidIs
<1>4. l < L
  <2>1. pow2[l] \in Nat /\ pow2[l + 1] \in Nat /\ pow2[L] \in Nat
    BY Pow2Type
  <2>2. pow2[l + 1] * o \in Nat
    BY <2>1
  <2>3. pow2[l] - 1 <= b
    BY <1>2, <2>1, <2>2 DEF IsNode
  <2>4. pow2[l] < pow2[L]
    BY <2>1, <2>3 DEF tree_path_num_nodes
  <2> QED BY <2>4, Pow2Less
<1>5. l \in 0 .. L - 1
  BY <1>4
<1>6. IsNode(tree_path_update(L, 2 * p)[l], l, o)
  BY <1>3, <1>5, PathNode
<1> QED BY <1>2, <1>5, <1>6 DEF IsNode

(* A block that may be in a bucket of a path may be in those above it. *)
LEMMA ValidAbove ==
    ASSUME NEW L \in Nat \ {0}, NEW p \in Positions(L), NEW x \in Nat,
           NEW l \in 0 .. L - 1, NEW m \in 0 .. L - 1, l <= m,
           is_valid(tree_path_update(L, 2 * p)[l], 2 * x)
    PROVE  is_valid(tree_path_update(L, 2 * p)[m], 2 * x)
<1>0. p \in Nat /\ l \in Nat
  BY PositionsType
<1>1. ASSUME NEW y \in Nat, NEW k \in Nat
      PROVE  y \div pow2[k + 1] = (y \div pow2[k]) \div 2
  <2> DEFINE A == pow2[k]
  <2>1. A \in Nat \ {0} /\ pow2[k + 1] = 2 * A
    BY Pow2Type, Pow2Step
  <2> HIDE DEF A
  <2>2. PICK q, r \in Nat : q = y \div A /\ r = y % A /\ r < A /\ y = A * q + r
    BY <2>1, DivMod
  <2>3. PICK q2, r2 \in Nat : q2 = q \div 2 /\ r2 < 2 /\ q = 2 * q2 + r2
    BY DivMod
  <2>4. y = (2 * A) * q2 + (A * r2 + r)
    <3>1. A * (2 * q2 + r2) = (2 * A) * q2 + A * r2
      BY <2>1
    <3>2. A * q = (2 * A) * q2 + A * r2
      BY <2>3, <3>1
    <3>3. (2 * A) * q2 \in Nat /\ A * r2 \in Nat
      BY <2>1
    <3> QED BY <2>2, <3>2, <3>3
  <2>5. A * r2 + r \in Nat /\ A * r2 + r < 2 * A
    <3>1. r2 = 0 \/ r2 = 1
      BY <2>3
    <3> QED BY <2>1, <2>2, <3>1
  <2>6. y \div (2 * A) = q2
    <3>1. PICK s \in Nat : s = A * r2 + r
      BY <2>5
    <3>2. PICK d \in Nat \ {0} : d = 2 * A
      BY <2>1
    <3>3. (d * q2 + s) \div d = q2
      BY <2>5, <3>1, <3>2, DivModIs
    <3> QED BY <2>4, <3>1, <3>2, <3>3
  <2> QED BY <2>1, <2>2, <2>3, <2>6 DEF A
<1> DEFINE S == {d \in Nat : x \div pow2[l + d] = p \div pow2[l + d]}
<1>2. 0 \in S
  <2>1. l + 0 = l
    BY <1>0
  <2> QED BY <2>1, ValidOnPath
<1>3. ASSUME NEW d \in Nat, d \in S PROVE d + 1 \in S
  <2>1. l + (d + 1) = (l + d) + 1 /\ l + d \in Nat
    BY <1>0
  <2> QED BY <1>0, <1>1, <1>3, <2>1
<1> HIDE DEF S
<1>4. \A d \in Nat : d \in S
  BY <1>2, <1>3, SetInduction
<1>5. m - l \in Nat /\ l + (m - l) = m
  OBVIOUS
<1>6. x \div pow2[m] = p \div pow2[m]
  BY <1>4, <1>5 DEF S
<1> QED BY <1>6, ValidOnPath

-----------------------------------------------------------------------------
(* Taking a block out of the stash.  A recursive function has the value     *)
(* that its definition gives it.                                            *)
ScanStep(s, i, id) == IF s.blocks[i].id = id THEN swap(s, i) ELSE s

(* extract as a sequence of states, one per slot of the stash. *)
LEMMA Scanned ==
    ASSUME NEW blocks, NEW id, Len(blocks) \in Nat
    PROVE  \E f : /\ extract(blocks, id) = f[Len(blocks)]
                  /\ f[0] = [target |-> Empty, blocks |-> blocks]
                  /\ \A i \in 1 .. Len(blocks) : f[i] = ScanStep(f[i - 1], i, id)
<1> DEFINE N == Len(blocks)
           c == [target |-> Empty, blocks |-> blocks]
           Def(s, i) == IF s.blocks[i].id = id THEN swap(s, i) ELSE s
           scanned[i \in 0 .. Len(blocks)] ==
            IF i = 0 THEN [target |-> Empty, blocks |-> blocks]
            ELSE LET s == scanned[i - 1]
                 IN  IF s.blocks[i].id = id THEN swap(s, i) ELSE s
<1>1. FiniteNatInductiveDefConclusion(scanned, c, Def, 0, N)
  <2>1. FiniteNatInductiveDefHypothesis(scanned, c, Def, 0, N)
    BY DEF FiniteNatInductiveDefHypothesis
  <2>2. N \in Nat /\ 0 \in Nat
    OBVIOUS
  <2> HIDE DEF scanned, c, Def, N
  <2> QED BY <2>1, <2>2, FiniteNatInductiveDef
<1>2. scanned = [i \in 0 .. N |-> IF i = 0 THEN c ELSE Def(scanned[i - 1], i)]
  BY <1>1 DEF FiniteNatInductiveDefConclusion
<1>3. extract(blocks, id) = scanned[N]
  BY DEF extract
<1> HIDE DEF scanned
<1>4. \A i \in 1 .. N : scanned[i] = ScanStep(scanned[i - 1], i, id)
  BY <1>2 DEF ScanStep
<1>5. scanned[0] = c
  BY <1>2
<1> QED BY <1>3, <1>4, <1>5

(* The places of an id. *)
Found(blocks, id) == {i \in DOMAIN blocks : blocks[i].id = id}

(* The target is a block with the id, if there is one; each place that had  *)
(* one has what was at an earlier such place, or nothing.                   *)
ScanInv(s, i, T, X, blocks, id) ==
    /\ s.blocks \in [1 .. T -> X]
    /\ \A k \in 1 .. T : k > i \/ blocks[k].id # id => s.blocks[k] = blocks[k]
    /\ \A k \in 1 .. T : k <= i /\ blocks[k].id = id =>
          \/ s.blocks[k] = Empty
          \/ \E j \in 1 .. T : j < k /\ blocks[j].id = id /\ s.blocks[k] = blocks[j]
    /\ \/ s.target = Empty /\ \A k \in 1 .. T : k <= i => blocks[k].id # id
       \/ \E j \in 1 .. T : j <= i /\ blocks[j].id = id /\ s.target = blocks[j]

(* One slot more keeps what extract knows. *)
LEMMA ScanKeeps ==
    ASSUME NEW T \in Nat, NEW X, Empty \in X, NEW blocks \in [1 .. T -> X], NEW id,
           NEW i \in 0 .. T - 1, NEW s, ScanInv(s, i, T, X, blocks, id)
    PROVE  ScanInv(ScanStep(s, i + 1, id), i + 1, T, X, blocks, id)
<1> DEFINE k == i + 1
<1>1. k \in 1 .. T /\ s.blocks[k] = blocks[k] /\ s.blocks \in [1 .. T -> X] /\ s.target \in X
  BY DEF ScanInv
<1>2. CASE blocks[k].id # id
  <2>1. ScanStep(s, k, id) = s
    BY <1>1, <1>2 DEF ScanStep
  <2>2. ScanInv(s, k, T, X, blocks, id)
    BY <1>1, <1>2 DEF ScanInv
  <2> QED BY <2>1, <2>2
<1>3. CASE blocks[k].id = id
  <2> DEFINE t == [target |-> blocks[k], blocks |-> [s.blocks EXCEPT ![k] = s.target]]
  <2>1. ScanStep(s, k, id) = t
    BY <1>1, <1>3 DEF ScanStep, swap
  <2>2. t.blocks \in [1 .. T -> X] /\ t.blocks[k] = s.target
        /\ \A j \in 1 .. T : j # k => t.blocks[j] = s.blocks[j]
    BY <1>1
  <2>3. t.target = blocks[k]
    OBVIOUS
  <2> HIDE DEF t
  <2>4. ASSUME NEW m \in 1 .. T, m > k \/ blocks[m].id # id PROVE t.blocks[m] = blocks[m]
    BY <1>1, <1>3, <2>2, <2>4 DEF ScanInv
  <2>5. ASSUME NEW m \in 1 .. T, m <= k, blocks[m].id = id
        PROVE  \/ t.blocks[m] = Empty
               \/ \E j \in 1 .. T : j < m /\ blocks[j].id = id /\ t.blocks[m] = blocks[j]
    <3>1. CASE m = k
      BY <1>1, <2>2, <3>1 DEF ScanInv
    <3>2. CASE m # k
      BY <1>1, <2>2, <2>5, <3>2 DEF ScanInv
    <3> QED BY <3>1, <3>2
  <2>6. \E j \in 1 .. T : j <= k /\ blocks[j].id = id /\ t.target = blocks[j]
    BY <1>1, <1>3, <2>3
  <2>7. ScanInv(t, k, T, X, blocks, id)
    BY <2>2, <2>4, <2>5, <2>6 DEF ScanInv
  <2> QED BY <2>1, <2>7
<1> QED BY <1>2, <1>3

(* What the scan for a block leaves in the stash and gives to the caller,   *)
(* for every length of the stash.                                           *)
LEMMA ExtractIs ==
    ASSUME NEW T \in Nat, NEW X, Empty \in X, NEW blocks \in [1 .. T -> X], NEW id
    PROVE  ScanInv(extract(blocks, id), T, T, X, blocks, id)
<1>1. Len(blocks) = T
  OBVIOUS
<1>2. PICK f : /\ extract(blocks, id) = f[T]
               /\ f[0] = [target |-> Empty, blocks |-> blocks]
               /\ \A i \in 1 .. T : f[i] = ScanStep(f[i - 1], i, id)
  BY <1>1, Scanned
<1> DEFINE S == {i \in Nat : i <= T => ScanInv(f[i], i, T, X, blocks, id)}
<1>3. 0 \in S
  BY <1>2 DEF ScanInv
<1>4. ASSUME NEW i \in Nat, i \in S PROVE i + 1 \in S
  <2> SUFFICES ASSUME i + 1 <= T PROVE ScanInv(f[i + 1], i + 1, T, X, blocks, id)
    OBVIOUS
  <2>1. i \in 0 .. T - 1 /\ i + 1 \in 1 .. T /\ (i + 1) - 1 = i
    OBVIOUS
  <2>2. f[i + 1] = ScanStep(f[i], i + 1, id)
    BY <1>2, <2>1
  <2>3. ScanInv(f[i], i, T, X, blocks, id)
    BY <1>4, <2>1
  <2> QED BY <2>1, <2>2, <2>3, ScanKeeps
<1> HIDE DEF S
<1>5. \A i \in Nat : i \in S
  BY <1>3, <1>4, SetInduction
<1> QED BY <1>2, <1>5 DEF S

-----------------------------------------------------------------------------
(* Counting the entries that are assigned to a level. *)
At(a, l) == {i \in DOMAIN a : a[i] = l}
Below(a, l) == {i \in DOMAIN a : a[i] < l}

(* Sets of assigned slots are finite. *)
LEMMA CountType ==
    ASSUME NEW T \in Nat, NEW L \in Nat, NEW a \in [1 .. T -> 0 .. L], NEW l
    PROVE  /\ At(a, l) \in SUBSET (1 .. T) /\ IsFiniteSet(At(a, l))
           /\ Cardinality(At(a, l)) \in Nat
           /\ Below(a, l) \in SUBSET (1 .. T) /\ IsFiniteSet(Below(a, l))
           /\ Cardinality(Below(a, l)) \in Nat
<1>1. At(a, l) \in SUBSET (1 .. T) /\ Below(a, l) \in SUBSET (1 .. T)
  BY DEF At, Below
<1>2. IsFiniteSet(1 .. T)
  BY FS_Interval
<1> QED BY <1>1, <1>2, FS_Subset, FS_CardinalityType

(* The slots below a level are counted level by level. *)
LEMMA BelowStep ==
    ASSUME NEW T \in Nat, NEW L \in Nat, NEW a \in [1 .. T -> 0 .. L]
    PROVE  /\ Cardinality(Below(a, 0)) = 0
           /\ \A l \in Nat :
                Cardinality(Below(a, l + 1)) = Cardinality(Below(a, l)) + Cardinality(At(a, l))
<1>1. Below(a, 0) = {}
  BY DEF Below
<1>2. ASSUME NEW l \in Nat
      PROVE  Cardinality(Below(a, l + 1)) = Cardinality(Below(a, l)) + Cardinality(At(a, l))
  <2>1. Below(a, l + 1) = Below(a, l) \cup At(a, l) /\ Below(a, l) \cap At(a, l) = {}
    BY DEF Below, At
  <2>2. Cardinality(Below(a, l) \cup At(a, l)) =
           Cardinality(Below(a, l)) + Cardinality(At(a, l)) - Cardinality(Below(a, l) \cap At(a, l))
    BY CountType, FS_Union
  <2>3. /\ Cardinality(Below(a, l)) \in Nat /\ Cardinality(At(a, l)) \in Nat
        /\ Cardinality(Below(a, l) \cap At(a, l)) = 0
    BY <2>1, CountType, FS_EmptySet
  <2>4. PICK x \in Nat, y \in Nat : x = Cardinality(Below(a, l)) /\ y = Cardinality(At(a, l))
    BY <2>3
  <2>5. Cardinality(Below(a, l + 1)) = x + y - 0
    BY <2>1, <2>2, <2>3, <2>4
  <2>6. x + y - 0 = x + y
    OBVIOUS
  <2> QED BY <2>4, <2>5, <2>6
<1> QED BY <1>1, <1>2, FS_EmptySet

(* If B entries at most have each level, there are at most B * l below l;   *)
(* where that is reached, all these levels have B entries.                  *)
LEMMA BelowBound ==
    ASSUME NEW T \in Nat, NEW L \in Nat, NEW a \in [1 .. T -> 0 .. L], NEW B \in Nat,
           \A l \in 0 .. L - 1 : Cardinality(At(a, l)) <= B
    PROVE  /\ Cardinality(Below(a, L)) <= B * L
           /\ Cardinality(Below(a, L)) = B * L =>
                 \A l \in 0 .. L - 1 : Cardinality(At(a, l)) = B
<1> DEFINE P(m) == /\ Cardinality(Below(a, m)) <= B * m
                   /\ Cardinality(Below(a, m)) = B * m =>
                         \A l \in 0 .. m - 1 : Cardinality(At(a, l)) = B
           S == {m \in Nat : m <= L => P(m)}
<1>1. 0 \in S
  BY BelowStep
<1>2. ASSUME NEW m \in Nat, m \in S PROVE m + 1 \in S
  <2> SUFFICES ASSUME m + 1 <= L PROVE P(m + 1)
    OBVIOUS
  <2>1. P(m) /\ m \in 0 .. L - 1
    BY <1>2
  <2>2. Cardinality(Below(a, m + 1)) = Cardinality(Below(a, m)) + Cardinality(At(a, m))
    BY BelowStep
  <2>3. Cardinality(At(a, m)) <= B
    BY <2>1
  <2>4. B * (m + 1) = B * m + B /\ B * m \in Nat
    OBVIOUS
  <2>5. /\ Cardinality(Below(a, m)) \in Nat /\ Cardinality(At(a, m)) \in Nat
    BY CountType
  <2>6. Cardinality(Below(a, m + 1)) <= B * (m + 1)
    BY <2>1, <2>2, <2>3, <2>4, <2>5
  <2>7. ASSUME Cardinality(Below(a, m + 1)) = B * (m + 1), NEW l \in 0 .. (m + 1) - 1
        PROVE  Cardinality(At(a, l)) = B
    <3>1. Cardinality(Below(a, m)) = B * m /\ Cardinality(At(a, m)) = B
      BY <2>1, <2>2, <2>3, <2>4, <2>5, <2>7, SMTT(30)
    <3>2. l = m \/ l \in 0 .. m - 1
      OBVIOUS
    <3> QED BY <2>1, <3>1, <3>2
  <2> QED BY <2>6, <2>7
<1> HIDE DEF S
<1>3. \A m \in Nat : m \in S
  BY <1>1, <1>2, SetInduction
<1> QED BY <1>3 DEF S

(* All levels have B entries; then there are B * m below level m. *)
LevelsFull(a, L, B) == \A l \in 0 .. L - 1 : Cardinality(At(a, l)) = B
FullBelow(a, L, B) == \A m \in 0 .. L : Cardinality(Below(a, m)) = B * m

(* If every level is full, so is everything below the overflow. *)
LEMMA BelowFull ==
    ASSUME NEW T \in Nat, NEW L \in Nat, NEW a \in [1 .. T -> 0 .. L], NEW B \in Nat,
           LevelsFull(a, L, B)
    PROVE  FullBelow(a, L, B)
<1> DEFINE S == {m \in Nat : m <= L => Cardinality(Below(a, m)) = B * m}
<1>1. 0 \in S
  BY BelowStep
<1>2. ASSUME NEW m \in Nat, m \in S PROVE m + 1 \in S
  <2> SUFFICES ASSUME m + 1 <= L PROVE Cardinality(Below(a, m + 1)) = B * (m + 1)
    OBVIOUS
  <2>1. Cardinality(Below(a, m)) = B * m /\ Cardinality(At(a, m)) = B
    BY <1>2 DEF LevelsFull
  <2>2. B * (m + 1) = B * m + B
    OBVIOUS
  <2>3. Cardinality(Below(a, m + 1)) = Cardinality(Below(a, m)) + Cardinality(At(a, m))
    BY BelowStep
  <2> QED BY <2>1, <2>2, <2>3
<1> HIDE DEF S
<1>3. \A m \in Nat : m \in S
  BY <1>1, <1>2, SetInduction
<1> QED BY <1>3 DEF S, FullBelow

(* The level that is chosen: one of those offered, or none. *)
LEMMA DeepestIs ==
    ASSUME NEW L \in Nat, NEW levels \in SUBSET (0 .. L - 1)
    PROVE  /\ deepest(levels, L) \in 0 .. L
           /\ deepest(levels, L) < L => deepest(levels, L) \in levels
           /\ levels # {} => deepest(levels, L) < L
<1>1. levels \cup {L} \in SUBSET Nat /\ levels \cup {L} # {}
  OBVIOUS
<1>2. /\ Min(levels \cup {L}) \in levels \cup {L}
      /\ \A y \in levels \cup {L} : Min(levels \cup {L}) <= y
  BY <1>1, MinOf
<1>3. PICK d : d = deepest(levels, L)
  OBVIOUS
<1>4. d \in levels \cup {L} /\ \A y \in levels \cup {L} : d <= y
  BY <1>2, <1>3 DEF deepest
<1>5. d \in 0 .. L
  BY <1>4
<1>6. d < L => d \in levels
  BY <1>4
<1>7. ASSUME levels # {} PROVE d < L
  <2>1. PICK y : y \in levels
    BY <1>7
  <2>2. d <= y /\ y \in Int /\ y < L
    BY <1>4, <2>1
  <2> QED BY <1>5, <2>2
<1> QED BY <1>3, <1>5, <1>6, <1>7

(* One more entry in a level. *)
LEMMA CountAppend ==
    ASSUME NEW T \in Nat, NEW L \in Nat, NEW a \in [1 .. T -> 0 .. L], NEW v \in 0 .. L
    PROVE  /\ Append(a, v) \in [1 .. T + 1 -> 0 .. L]
           /\ \A k \in 1 .. T : Append(a, v)[k] = a[k]
           /\ Append(a, v)[T + 1] = v
           /\ \A l : At(Append(a, v), l) = At(a, l) \cup (IF v = l THEN {T + 1} ELSE {})
           /\ \A l \in 0 .. L :
                 Cardinality(At(Append(a, v), l)) = Cardinality(At(a, l)) + IF v = l THEN 1 ELSE 0
<1>1. Len(a) = T /\ a \in Seq(0 .. L)
  OBVIOUS
<1> DEFINE b == Append(a, v)
<1>2. b \in [1 .. T + 1 -> 0 .. L] /\ (\A k \in 1 .. T : b[k] = a[k]) /\ b[T + 1] = v
  <2>1. b \in Seq(0 .. L) /\ Len(b) = T + 1
    BY <1>1
  <2>2. \A k \in 1 .. T + 1 : b[k] = IF k = T + 1 THEN v ELSE a[k]
    BY <1>1
  <2> HIDE DEF b
  <2>3. DOMAIN b = 1 .. T + 1 /\ b \in [1 .. T + 1 -> 0 .. L]
    BY <2>1
  <2> QED BY <2>2, <2>3
<1> HIDE DEF b
<1>3. ASSUME NEW l PROVE At(b, l) = At(a, l) \cup (IF v = l THEN {T + 1} ELSE {})
  BY <1>2 DEF At
<1>4. ASSUME NEW l \in 0 .. L
      PROVE  Cardinality(At(b, l)) = Cardinality(At(a, l)) + IF v = l THEN 1 ELSE 0
  <2>1. IsFiniteSet(At(a, l)) /\ Cardinality(At(a, l)) \in Nat /\ T + 1 \notin At(a, l)
    BY CountType, SMTT(30)
  <2>2. CASE v = l
    BY <1>3, <2>1, <2>2, FS_AddElement
  <2>3. CASE v # l
    <3>1. At(b, l) = At(a, l)
      BY <1>3, <2>3
    <3> QED BY <2>1, <2>3, <3>1
  <2> QED BY <2>2, <2>3
<1> QED BY <1>2, <1>3, <1>4 DEF b

-----------------------------------------------------------------------------
(* Assigning the blocks of the stash to the buckets of the path. *)
AssignStep(a, i, blocks, path, L) ==
    Append(a, deepest(assignable(blocks[i], i, path, L, a), L))
PlaceStep(a, i, blocks, L) ==
    IF blocks[i].id # NoBlock THEN a
    ELSE [a EXCEPT ![i] = deepest({l \in 0 .. L - 1 : has_room(a, l)}, L)]

(* assign_buckets as a sequence of states, one per block. *)
LEMMA Assigned ==
    ASSUME NEW blocks, NEW path, NEW L, Len(blocks) \in Nat
    PROVE  \E f : /\ assign_buckets(blocks, path, L) = place_empty_blocks(blocks, f[Len(blocks)], L)
                  /\ f[0] = << >>
                  /\ \A i \in 1 .. Len(blocks) : f[i] = AssignStep(f[i - 1], i, blocks, path, L)
<1> DEFINE N == Len(blocks)
           c == << >>
           Def(a, i) == Append(a, deepest(assignable(blocks[i], i, path, L, a), L))
           assigned[i \in 0 .. Len(blocks)] ==
            IF i = 0 THEN << >>
            ELSE LET a == assigned[i - 1]
                 IN  Append(a, deepest(assignable(blocks[i], i, path, L, a), L))
<1>1. FiniteNatInductiveDefConclusion(assigned, c, Def, 0, N)
  <2>1. FiniteNatInductiveDefHypothesis(assigned, c, Def, 0, N)
    BY DEF FiniteNatInductiveDefHypothesis
  <2>2. N \in Nat /\ 0 \in Nat
    OBVIOUS
  <2> HIDE DEF assigned, c, Def, N
  <2> QED BY <2>1, <2>2, FiniteNatInductiveDef
<1>2. assigned = [i \in 0 .. N |-> IF i = 0 THEN c ELSE Def(assigned[i - 1], i)]
  BY <1>1 DEF FiniteNatInductiveDefConclusion
<1>3. assign_buckets(blocks, path, L) = place_empty_blocks(blocks, assigned[N], L)
  BY DEF assign_buckets
<1> HIDE DEF assigned
<1>4. ASSUME NEW i \in 1 .. N PROVE assigned[i] = AssignStep(assigned[i - 1], i, blocks, path, L)
  <2>1. i \in 0 .. N /\ i # 0
    OBVIOUS
  <2>2. assigned[i] = Def(assigned[i - 1], i)
    <3> HIDE DEF Def, N
    <3> QED BY <1>2, <2>1
  <2> QED BY <2>2 DEF AssignStep
<1>5. assigned[0] = c
  BY <1>2
<1> QED BY <1>3, <1>4, <1>5

(* place_empty_blocks as a sequence of states, one per block. *)
LEMMA PlacedEmpty ==
    ASSUME NEW blocks, NEW a0, NEW L, Len(blocks) \in Nat
    PROVE  \E f : /\ place_empty_blocks(blocks, a0, L) = f[Len(blocks)]
                  /\ f[0] = a0
                  /\ \A i \in 1 .. Len(blocks) : f[i] = PlaceStep(f[i - 1], i, blocks, L)
<1> DEFINE N == Len(blocks)
           open(a) == {l \in 0 .. L - 1 : has_room(a, l)}
           Def(a, i) == IF blocks[i].id # NoBlock THEN a
                        ELSE [a EXCEPT ![i] = deepest(open(a), L)]
           placed[i \in 0 .. Len(blocks)] ==
            IF i = 0 THEN a0
            ELSE LET a == placed[i - 1]
                 IN  IF blocks[i].id # NoBlock THEN a
                     ELSE [a EXCEPT ![i] = deepest(open(a), L)]
<1>1. FiniteNatInductiveDefConclusion(placed, a0, Def, 0, N)
  <2>1. FiniteNatInductiveDefHypothesis(placed, a0, Def, 0, N)
    BY DEF FiniteNatInductiveDefHypothesis
  <2>2. N \in Nat /\ 0 \in Nat
    OBVIOUS
  <2> HIDE DEF placed, Def, N
  <2> QED BY <2>1, <2>2, FiniteNatInductiveDef
<1>2. placed = [i \in 0 .. N |-> IF i = 0 THEN a0 ELSE Def(placed[i - 1], i)]
  BY <1>1 DEF FiniteNatInductiveDefConclusion
<1>3. place_empty_blocks(blocks, a0, L) = placed[N]
  BY DEF place_empty_blocks
<1> HIDE DEF placed
<1>4. ASSUME NEW i \in 1 .. N PROVE placed[i] = PlaceStep(placed[i - 1], i, blocks, L)
  <2>1. i \in 0 .. N /\ i # 0
    OBVIOUS
  <2>2. placed[i] = Def(placed[i - 1], i)
    <3> HIDE DEF Def, N
    <3> QED BY <1>2, <2>1
  <2> QED BY <2>2 DEF PlaceStep
<1>5. placed[0] = a0
  BY <1>2
<1> QED BY <1>3, <1>4, <1>5

(* A path block may be assigned to its own level and those below it. *)
LEMMA MaxLevel ==
    ASSUME NEW L \in Nat \ {0}, NEW k \in Nat \ {0}
    PROVE  /\ BLOCKS_PER_BUCKET * L \in Nat
           /\ max_level(k, L) \in 1 .. L
           /\ k <= BLOCKS_PER_BUCKET * L =>
                 /\ (k - 1) \div BLOCKS_PER_BUCKET \in 0 .. L - 1
                 /\ max_level(k, L) = (k - 1) \div BLOCKS_PER_BUCKET + 1
                 /\ BLOCKS_PER_BUCKET * ((k - 1) \div BLOCKS_PER_BUCKET) < k
                 /\ k <= BLOCKS_PER_BUCKET * ((k - 1) \div BLOCKS_PER_BUCKET) + BLOCKS_PER_BUCKET
<1>1. PICK B \in Nat \ {0} : B = BLOCKS_PER_BUCKET
  BY StashAssumption
<1>2. PICK q, r \in Nat : q = (k - 1) \div B /\ r < B /\ k - 1 = B * q + r
  BY DivMod
<1>3. B * L \in Nat /\ B * q \in Nat
  OBVIOUS
<1>4. ASSUME k <= B * L PROVE q < L
  <2>1. SUFFICES ASSUME L <= q PROVE FALSE
    OBVIOUS
  <2>2. B * L <= B * q
    BY <2>1
  <2> QED BY <1>2, <1>3, <1>4, <2>2
<1>5. max_level(k, L) = IF k > B * L THEN L ELSE q + 1
  BY <1>1, <1>2 DEF max_level
<1>6. B * q < k /\ k <= B * q + B
  BY <1>2, <1>3
<1>7. max_level(k, L) \in 1 .. L
  BY <1>3, <1>4, <1>5
<1>8. k <= B * L => q \in 0 .. L - 1 /\ max_level(k, L) = q + 1
  BY <1>3, <1>4, <1>5
<1> QED BY <1>1, <1>2, <1>3, <1>6, <1>7, <1>8

(* The blocks of a path that has been read may stay where they are. *)
FromPath(blocks, path, L) ==
    \A i \in 1 .. BLOCKS_PER_BUCKET * L :
        blocks[i].id # NoBlock => is_valid(path[(i - 1) \div BLOCKS_PER_BUCKET], blocks[i].position)

(* What holds once the first i blocks have been assigned: no bucket is      *)
(* overfull, every assigned block may be where it is put, and no path block *)
(* is left over, since those at its level came from there or from above.    *)
AssignInv(a, i, blocks, path, L) ==
    /\ a \in [1 .. i -> 0 .. L]
    /\ \A l \in 0 .. L - 1 : Cardinality(At(a, l)) <= BLOCKS_PER_BUCKET
    /\ \A k \in 1 .. i : a[k] < L => /\ blocks[k].id # NoBlock
                                     /\ is_valid(path[a[k]], blocks[k].position)
                                     /\ a[k] < max_level(k, L)
    /\ \A k \in 1 .. i : k <= BLOCKS_PER_BUCKET * L /\ blocks[k].id # NoBlock => a[k] < L

(* A block read from a bucket of the path finds room at that level at       *)
(* least: fewer blocks than the bucket holds have been assigned from it     *)
(* before.                                                                  *)
LEMMA OwnLevelHasRoom ==
    ASSUME NEW L \in Nat \ {0}, NEW i \in Nat, NEW a, NEW blocks, NEW path,
           AssignInv(a, i, blocks, path, L), i + 1 <= BLOCKS_PER_BUCKET * L
    PROVE  has_room(a, i \div BLOCKS_PER_BUCKET)
<1>1. PICK B \in Nat \ {0} : B = BLOCKS_PER_BUCKET
  BY StashAssumption
<1>2. PICK q, r \in Nat : q = i \div B /\ r < B /\ i = B * q + r
  BY DivMod
<1>3. a \in [1 .. i -> 0 .. L] /\ B * q \in Nat
  BY DEF AssignInv
<1>3a. q < L
  <2>1. SUFFICES ASSUME L <= q PROVE FALSE
    OBVIOUS
  <2>2. B * L <= B * q /\ B * L \in Nat
    BY <2>1
  <2> QED BY <1>1, <1>2, <1>3, <2>2
<1>4. ASSUME NEW k \in At(a, q) PROVE k \in B * q + 1 .. i
  <2>1. k \in 1 .. i /\ a[k] = q
    BY <1>3 DEF At
  <2>2. k <= B * L /\ k \in Nat \ {0} /\ B * L \in Nat
    BY <1>1, <2>1
  <2>3. q < max_level(k, L)
    BY <1>3a, <2>1 DEF AssignInv
  <2>4. PICK u \in Nat : u = (k - 1) \div B /\ max_level(k, L) = u + 1 /\ B * u < k
    BY <1>1, <2>2, MaxLevel
  <2>5. q <= u
    BY <2>3, <2>4
  <2>6. B * q <= B * u /\ B * u \in Nat
    BY <2>5
  <2> QED BY <1>3, <2>1, <2>4, <2>6
<1>5. At(a, q) \in SUBSET (B * q + 1 .. i)
  BY <1>4
<1>6. IsFiniteSet(B * q + 1 .. i) /\ Cardinality(B * q + 1 .. i) < B
  <2>1. B * q + 1 \in Int /\ i \in Int
    BY <1>3
  <2>2. /\ IsFiniteSet(B * q + 1 .. i)
        /\ Cardinality(B * q + 1 .. i) = IF B * q + 1 > i THEN 0 ELSE i - (B * q + 1) + 1
    BY <2>1, FS_Interval
  <2> QED BY <1>2, <1>3, <2>2
<1>7. Cardinality(At(a, q)) <= Cardinality(B * q + 1 .. i)
  BY <1>5, <1>6, FS_Subset
<1>8. Cardinality(At(a, q)) \in Nat /\ Cardinality(B * q + 1 .. i) \in Nat
  BY <1>3, <1>6, CountType, FS_CardinalityType
<1>9. Cardinality(At(a, q)) < B
  BY <1>6, <1>7, <1>8
<1> QED BY <1>1, <1>2, <1>9 DEF has_room, At

(* One block more keeps the invariant of assign_buckets. *)
LEMMA AssignKeeps ==
    ASSUME NEW L \in Nat \ {0}, NEW i \in Nat, NEW a, NEW blocks, NEW path,
           AssignInv(a, i, blocks, path, L), FromPath(blocks, path, L)
    PROVE  AssignInv(AssignStep(a, i + 1, blocks, path, L), i + 1, blocks, path, L)
<1> DEFINE levels == assignable(blocks[i + 1], i + 1, path, L, a)
           v == deepest(levels, L)
           b == Append(a, v)
<1>1. a \in [1 .. i -> 0 .. L] /\ i + 1 \in Nat \ {0} /\ L \in Nat
  BY DEF AssignInv
<1>2. max_level(i + 1, L) \in 1 .. L
  BY <1>1, MaxLevel
<1>3. levels \in SUBSET (0 .. L - 1)
  BY <1>2 DEF assignable
<1>4. ASSUME NEW l \in levels
      PROVE  /\ blocks[i + 1].id # NoBlock /\ is_valid(path[l], blocks[i + 1].position)
             /\ has_room(a, l) /\ l < max_level(i + 1, L)
  BY <1>2 DEF assignable
<1>5. ASSUME i + 1 <= BLOCKS_PER_BUCKET * L, blocks[i + 1].id # NoBlock
      PROVE  levels # {}
  <2>1. (i + 1) - 1 = i
    OBVIOUS
  <2>2. PICK q \in 0 .. L - 1 : q = i \div BLOCKS_PER_BUCKET /\ max_level(i + 1, L) = q + 1
    BY <1>1, <1>5, <2>1, MaxLevel
  <2>3. has_room(a, q)
    BY <1>5, <2>2, OwnLevelHasRoom
  <2>4. i + 1 \in 1 .. BLOCKS_PER_BUCKET * L
    BY <1>1, <1>5, MaxLevel
  <2>5. is_valid(path[q], blocks[i + 1].position)
    BY <1>5, <2>1, <2>2, <2>4 DEF FromPath
  <2>6. q \in 0 .. max_level(i + 1, L) - 1
    BY <2>2
  <2>7. q \in levels
    BY <1>5, <2>3, <2>5, <2>6 DEF assignable
  <2> QED BY <2>7
<1> HIDE DEF levels
<1>6. v \in 0 .. L /\ (v < L => v \in levels) /\ (levels # {} => v < L)
  BY <1>1, <1>3, DeepestIs
<1> HIDE DEF v
<1>7. /\ b \in [1 .. i + 1 -> 0 .. L]
      /\ \A k \in 1 .. i : b[k] = a[k]
      /\ b[i + 1] = v
      /\ \A l \in 0 .. L :
            Cardinality(At(b, l)) = Cardinality(At(a, l)) + IF v = l THEN 1 ELSE 0
  BY <1>1, <1>6, CountAppend, SMTT(30)
<1>8. AssignStep(a, i + 1, blocks, path, L) = b
  BY DEF AssignStep, v, levels
<1> HIDE DEF b
<1>9. ASSUME NEW l \in 0 .. L - 1 PROVE Cardinality(At(b, l)) <= BLOCKS_PER_BUCKET
  <2>1. Cardinality(At(a, l)) <= BLOCKS_PER_BUCKET /\ Cardinality(At(a, l)) \in Nat
    BY <1>1, CountType DEF AssignInv
  <2>2. CASE v = l
    <3>1. has_room(a, l)
      BY <1>4, <1>6, <2>2
    <3>2. Cardinality(At(a, l)) < BLOCKS_PER_BUCKET
      BY <3>1 DEF has_room, At
    <3>3. l \in 0 .. L /\ Cardinality(At(b, l)) = Cardinality(At(a, l)) + 1
      BY <1>7, <2>2
    <3> QED BY <2>1, <3>2, <3>3, StashAssumption
  <2>3. CASE v # l
    <3>1. l \in 0 .. L /\ Cardinality(At(b, l)) = Cardinality(At(a, l)) + 0
      BY <1>7, <2>3
    <3> QED BY <2>1, <3>1, StashAssumption
  <2> QED BY <2>2, <2>3
<1>10. ASSUME NEW k \in 1 .. i + 1, b[k] < L
       PROVE  /\ blocks[k].id # NoBlock
              /\ is_valid(path[b[k]], blocks[k].position)
              /\ b[k] < max_level(k, L)
  <2>1. CASE k = i + 1
    BY <1>4, <1>6, <1>7, <1>10, <2>1
  <2>2. CASE k # i + 1
    <3>1. k \in 1 .. i
      BY <2>2
    <3> QED BY <1>7, <1>10, <3>1 DEF AssignInv
  <2> QED BY <2>1, <2>2
<1>11. ASSUME NEW k \in 1 .. i + 1, k <= BLOCKS_PER_BUCKET * L, blocks[k].id # NoBlock
       PROVE  b[k] < L
  <2>1. CASE k = i + 1
    BY <1>5, <1>6, <1>7, <1>11, <2>1
  <2>2. CASE k # i + 1
    <3>1. k \in 1 .. i
      BY <2>2
    <3> QED BY <1>7, <1>11, <3>1 DEF AssignInv
  <2> QED BY <2>1, <2>2
<1>12. AssignInv(b, i + 1, blocks, path, L)
  BY <1>7, <1>9, <1>10, <1>11 DEF AssignInv
<1> QED BY <1>8, <1>12

(* What holds once the empty ones of the first i blocks have been placed:   *)
(* the others are where they were, and no empty block is left over while a  *)
(* bucket has room, so none of the overflow is needed.                      *)
PlaceInv(a, i, a0, blocks, T, L) ==
    /\ a \in [1 .. T -> 0 .. L]
    /\ \A l \in 0 .. L - 1 : Cardinality(At(a, l)) <= BLOCKS_PER_BUCKET
    /\ \A k \in 1 .. T : blocks[k].id # NoBlock \/ k > i => a[k] = a0[k]
    /\ \/ \A k \in 1 .. i : blocks[k].id = NoBlock => a[k] < L
       \/ \A l \in 0 .. L - 1 : Cardinality(At(a, l)) = BLOCKS_PER_BUCKET
    /\ \A k \in 1 .. T : k > BLOCKS_PER_BUCKET * L /\ blocks[k].id = NoBlock => a[k] = L

(* Once the path blocks have been placed, every bucket has exactly          *)
(* BLOCKS_PER_BUCKET assignments.                                           *)
LEMMA AllBucketsFull ==
    ASSUME NEW L \in Nat \ {0}, NEW T \in Nat, NEW i \in 0 .. T, NEW a, NEW a0, NEW blocks, NEW path,
           AssignInv(a0, T, blocks, path, L), PlaceInv(a, i, a0, blocks, T, L),
           BLOCKS_PER_BUCKET * L <= i
    PROVE  \A l \in 0 .. L - 1 : Cardinality(At(a, l)) = BLOCKS_PER_BUCKET
<1>1. PICK B \in Nat \ {0} : B = BLOCKS_PER_BUCKET
  BY StashAssumption
<1>2. B * L \in Nat /\ a \in [1 .. T -> 0 .. L] /\ L \in 0 .. L
  BY DEF PlaceInv
<1>3. SUFFICES ASSUME \A k \in 1 .. i : blocks[k].id = NoBlock => a[k] < L
               PROVE  \A l \in 0 .. L - 1 : Cardinality(At(a, l)) = BLOCKS_PER_BUCKET
  BY DEF PlaceInv
<1>4. ASSUME NEW k \in 1 .. B * L PROVE k \in Below(a, L)
  <2>1. k \in 1 .. i /\ k \in 1 .. T /\ k <= B * L
    BY <1>1, <1>2
  <2>2. CASE blocks[k].id = NoBlock
    BY <1>2, <1>3, <2>1, <2>2 DEF Below
  <2>3. CASE blocks[k].id # NoBlock
    <3>1. a[k] = a0[k] /\ a0[k] < L
      BY <1>1, <2>1, <2>3 DEF PlaceInv, AssignInv
    <3> QED BY <1>2, <2>1, <3>1 DEF Below
  <2> QED BY <2>2, <2>3
<1>5. 1 .. B * L \in SUBSET Below(a, L) /\ IsFiniteSet(Below(a, L))
  BY <1>2, <1>4, CountType
<1>6. Cardinality(1 .. B * L) <= Cardinality(Below(a, L))
  BY <1>5, FS_Subset
<1>7. Cardinality(1 .. B * L) = B * L
  <2>1. PICK N \in Nat : N = B * L
    BY <1>2
  <2>2. 1 \in Int /\ N \in Int
    OBVIOUS
  <2>3. Cardinality(1 .. N) = IF 1 > N THEN 0 ELSE N - 1 + 1
    BY <2>2, FS_Interval
  <2> QED BY <2>1, <2>3
<1>8. \A l \in 0 .. L - 1 : Cardinality(At(a, l)) <= B
  BY <1>1 DEF PlaceInv
<1>9. /\ Cardinality(Below(a, L)) <= B * L
      /\ Cardinality(Below(a, L)) = B * L => \A l \in 0 .. L - 1 : Cardinality(At(a, l)) = B
  <2>1. L \in Nat /\ B \in Nat
    OBVIOUS
  <2> QED BY <1>2, <1>8, <2>1, BelowBound
<1>10. Cardinality(Below(a, L)) \in Nat
  BY <1>2, CountType
<1>11. Cardinality(Below(a, L)) = B * L
  BY <1>2, <1>6, <1>7, <1>9, <1>10
<1> QED BY <1>1, <1>9, <1>11

(* One empty block more keeps the invariant of place_empty_blocks. *)
LEMMA PlaceKeeps ==
    ASSUME NEW L \in Nat \ {0}, NEW T \in Nat, NEW i \in 0 .. T - 1, NEW a, NEW a0, NEW blocks,
           NEW path, AssignInv(a0, T, blocks, path, L), PlaceInv(a, i, a0, blocks, T, L)
    PROVE  PlaceInv(PlaceStep(a, i + 1, blocks, L), i + 1, a0, blocks, T, L)
<1>1. /\ a \in [1 .. T -> 0 .. L] /\ i + 1 \in 1 .. T /\ L \in Nat
      /\ a0 \in [1 .. T -> 0 .. L] /\ L \in 0 .. L
  BY DEF AssignInv, PlaceInv
<1>2. CASE blocks[i + 1].id # NoBlock
  <2>1. PlaceStep(a, i + 1, blocks, L) = a
    BY <1>2 DEF PlaceStep
  <2>2. \A k \in 1 .. T : blocks[k].id # NoBlock \/ k > i + 1 => a[k] = a0[k]
    BY DEF PlaceInv
  <2>3. ASSUME \A k \in 1 .. i : blocks[k].id = NoBlock => a[k] < L
        PROVE  \A k \in 1 .. i + 1 : blocks[k].id = NoBlock => a[k] < L
    <3> SUFFICES ASSUME NEW k \in 1 .. i + 1, blocks[k].id = NoBlock PROVE a[k] < L
      OBVIOUS
    <3>1. k # i + 1
      BY <1>2
    <3> QED BY <2>3, <3>1
  <2>4. PlaceInv(a, i + 1, a0, blocks, T, L)
    BY <2>2, <2>3 DEF PlaceInv
  <2> QED BY <2>1, <2>4
<1>3. CASE blocks[i + 1].id = NoBlock
  <2> DEFINE open == {l \in 0 .. L - 1 : has_room(a, l)}
             v == deepest(open, L)
             b == [a EXCEPT ![i + 1] = v]
  <2>1. PlaceStep(a, i + 1, blocks, L) = b
    BY <1>3 DEF PlaceStep
  <2>2. v \in 0 .. L /\ (v < L => v \in open) /\ (open # {} => v < L)
    <3>1. open \in SUBSET (0 .. L - 1)
      OBVIOUS
    <3> HIDE DEF open
    <3> QED BY <1>1, <3>1, DeepestIs
  <2>3. a[i + 1] = L
    <3>1. a[i + 1] = a0[i + 1] /\ i + 1 > i
      BY <1>1 DEF PlaceInv
    <3>2. ~(a0[i + 1] < L)
      BY <1>1, <1>3 DEF AssignInv
    <3> QED BY <1>1, <3>1, <3>2
  <2>4. \A l \in open : Cardinality(At(a, l)) < BLOCKS_PER_BUCKET
    BY DEF has_room, At
  <2>5. ASSUME NEW l \in 0 .. L - 1, l \notin open
        PROVE  Cardinality(At(a, l)) = BLOCKS_PER_BUCKET
    <3>1. ~(Cardinality(At(a, l)) < BLOCKS_PER_BUCKET)
      BY <2>5 DEF has_room, At
    <3>2. Cardinality(At(a, l)) <= BLOCKS_PER_BUCKET /\ Cardinality(At(a, l)) \in Nat
      BY <1>1, CountType DEF PlaceInv
    <3> QED BY <3>1, <3>2, StashAssumption
  <2>6. open \in SUBSET (0 .. L - 1)
    OBVIOUS
  <2> HIDE DEF open, v
  <2>8. /\ b \in [1 .. T -> 0 .. L] /\ b[i + 1] = v
        /\ \A k \in 1 .. T : k # i + 1 => b[k] = a[k]
    BY <1>1, <2>2
  <2> HIDE DEF b
  <2>7. ASSUME NEW l \in 0 .. L - 1
        PROVE  /\ v = l => Cardinality(At(b, l)) = Cardinality(At(a, l)) + 1
               /\ v # l => Cardinality(At(b, l)) = Cardinality(At(a, l))
    <3>1. IsFiniteSet(At(a, l)) /\ Cardinality(At(a, l)) \in Nat
      BY <1>1, CountType
    <3>2. i + 1 \notin At(a, l)
      BY <2>3 DEF At
    <3>3. ASSUME v = l PROVE Cardinality(At(b, l)) = Cardinality(At(a, l)) + 1
      <4>1. At(b, l) = At(a, l) \cup {i + 1}
        BY <1>1, <2>8, <3>3 DEF At
      <4> QED BY <3>1, <3>2, <4>1, FS_AddElement
    <3>4. ASSUME v # l PROVE Cardinality(At(b, l)) = Cardinality(At(a, l))
      <4>1. At(b, l) = At(a, l)
        BY <1>1, <2>3, <2>8, <3>4, SMTT(30) DEF At
      <4> QED BY <4>1
    <3> QED BY <3>3, <3>4
  <2>9. ASSUME NEW l \in 0 .. L - 1 PROVE Cardinality(At(b, l)) <= BLOCKS_PER_BUCKET
    <3>1. Cardinality(At(a, l)) <= BLOCKS_PER_BUCKET /\ Cardinality(At(a, l)) \in Nat
      BY <1>1, CountType DEF PlaceInv
    <3>2. CASE v = l
      <4>1. Cardinality(At(a, l)) < BLOCKS_PER_BUCKET
        BY <2>2, <2>4, <3>2
      <4>2. Cardinality(At(b, l)) = Cardinality(At(a, l)) + 1
        BY <2>7, <3>2
      <4> QED BY <3>1, <4>1, <4>2, StashAssumption
    <3>3. CASE v # l
      <4>1. Cardinality(At(b, l)) = Cardinality(At(a, l))
        BY <2>7, <3>3
      <4> QED BY <3>1, <4>1, StashAssumption
    <3> QED BY <3>2, <3>3
  <2>10. ASSUME NEW k \in 1 .. T, blocks[k].id # NoBlock \/ k > i + 1 PROVE b[k] = a0[k]
    <3>1. k # i + 1 /\ (blocks[k].id # NoBlock \/ k > i)
      BY <1>3, <2>10
    <3> QED BY <2>8, <3>1 DEF PlaceInv
  <2>11. ASSUME open = {} PROVE \A l \in 0 .. L - 1 : Cardinality(At(b, l)) = BLOCKS_PER_BUCKET
    <3> SUFFICES ASSUME NEW l \in 0 .. L - 1 PROVE Cardinality(At(b, l)) = BLOCKS_PER_BUCKET
      OBVIOUS
    <3>1. v # l
      BY <2>2, <2>11
    <3>2. Cardinality(At(a, l)) = BLOCKS_PER_BUCKET
      BY <2>5, <2>11
    <3>3. Cardinality(At(b, l)) = Cardinality(At(a, l))
      BY <2>7, <3>1
    <3> QED BY <3>2, <3>3, StashAssumption
  <2>12. ASSUME open # {} PROVE \A k \in 1 .. i + 1 : blocks[k].id = NoBlock => b[k] < L
    <3>1. PICK l \in open : Cardinality(At(a, l)) < BLOCKS_PER_BUCKET /\ l \in 0 .. L - 1
      BY <2>4, <2>6, <2>12
    <3>2. Cardinality(At(a, l)) # BLOCKS_PER_BUCKET
      BY <1>1, <3>1, CountType, StashAssumption
    <3>3. \A k \in 1 .. i : blocks[k].id = NoBlock => a[k] < L
      BY <3>1, <3>2 DEF PlaceInv
    <3> SUFFICES ASSUME NEW k \in 1 .. i + 1, blocks[k].id = NoBlock PROVE b[k] < L
      OBVIOUS
    <3>4. CASE k = i + 1
      BY <2>2, <2>8, <2>12, <3>4
    <3>5. CASE k # i + 1
      <4>1. k \in 1 .. i /\ k \in 1 .. T
        BY <3>5
      <4> QED BY <2>8, <3>3, <3>5, <4>1
    <3> QED BY <3>4, <3>5
  <2>13. ASSUME NEW k \in 1 .. T, k > BLOCKS_PER_BUCKET * L, blocks[k].id = NoBlock
         PROVE  b[k] = L
    <3>1. CASE k # i + 1
      BY <2>8, <2>13, <3>1 DEF PlaceInv
    <3>2. CASE k = i + 1
      <4>1. BLOCKS_PER_BUCKET * L \in Nat
        BY MaxLevel
      <4>2. BLOCKS_PER_BUCKET * L <= i /\ i \in 0 .. T
        BY <2>13, <3>2, <4>1
      <4>3. \A l \in 0 .. L - 1 : Cardinality(At(a, l)) = BLOCKS_PER_BUCKET
        BY <4>2, AllBucketsFull
      <4>4. open = {}
        <5>1. ASSUME NEW l \in open PROVE FALSE
          <6>1. /\ Cardinality(At(a, l)) < BLOCKS_PER_BUCKET
                /\ Cardinality(At(a, l)) = BLOCKS_PER_BUCKET
            BY <2>4, <2>6, <4>3
          <6> QED BY <6>1, StashAssumption
        <5> QED BY <5>1
      <4> QED BY <2>2, <2>8, <3>2, <4>4
    <3> QED BY <3>1, <3>2
  <2>14. PlaceInv(b, i + 1, a0, blocks, T, L)
    BY <2>8, <2>9, <2>10, <2>11, <2>12, <2>13 DEF PlaceInv
  <2> QED BY <2>1, <2>14
<1> QED BY <1>2, <1>3

(* What the assignment is good for: the buckets of the path are full, with  *)
(* blocks that may be there, and every empty overflow slot stays overflow.  *)
Assignment(a, blocks, path, T, L) ==
    /\ a \in [1 .. T -> 0 .. L]
    /\ \A l \in 0 .. L - 1 : Cardinality(At(a, l)) = BLOCKS_PER_BUCKET
    /\ \A k \in 1 .. T : a[k] < L /\ blocks[k].id # NoBlock =>
          is_valid(path[a[k]], blocks[k].position)
    /\ \A k \in 1 .. T : k > BLOCKS_PER_BUCKET * L /\ blocks[k].id = NoBlock => a[k] = L

(* What assign_buckets promises: each bucket gets as many blocks as it has  *)
(* slots, and every block is assigned to a bucket above its position or to  *)
(* the overflow.                                                            *)
LEMMA AssignIs ==
    ASSUME NEW L \in Nat \ {0}, NEW T \in Nat, BLOCKS_PER_BUCKET * L <= T,
           NEW X, NEW blocks \in [1 .. T -> X], NEW path, FromPath(blocks, path, L)
    PROVE  Assignment(assign_buckets(blocks, path, L), blocks, path, T, L)
<1>1. Len(blocks) = T
  OBVIOUS
<1>2. PICK f : /\ assign_buckets(blocks, path, L) = place_empty_blocks(blocks, f[T], L)
               /\ f[0] = << >>
               /\ \A i \in 1 .. T : f[i] = AssignStep(f[i - 1], i, blocks, path, L)
  BY <1>1, Assigned
<1> DEFINE S == {i \in Nat : i <= T => AssignInv(f[i], i, blocks, path, L)}
<1>3. 0 \in S
  <2>1. << >> \in [1 .. 0 -> 0 .. L]
    OBVIOUS
  <2>2. ASSUME NEW l PROVE Cardinality(At(<< >>, l)) = 0
    <3>1. At(<< >>, l) = {}
      BY DEF At
    <3> QED BY <3>1, FS_EmptySet
  <2>3. AssignInv(<< >>, 0, blocks, path, L)
    BY <2>1, <2>2, StashAssumption DEF AssignInv
  <2> QED BY <1>2, <2>3
<1>4. ASSUME NEW i \in Nat, i \in S PROVE i + 1 \in S
  <2> SUFFICES ASSUME i + 1 <= T PROVE AssignInv(f[i + 1], i + 1, blocks, path, L)
    OBVIOUS
  <2>1. i + 1 \in 1 .. T /\ (i + 1) - 1 = i /\ AssignInv(f[i], i, blocks, path, L)
    BY <1>4
  <2>2. f[i + 1] = AssignStep(f[i], i + 1, blocks, path, L)
    BY <1>2, <2>1
  <2> QED BY <2>1, <2>2, AssignKeeps
<1> HIDE DEF S
<1>5. \A i \in Nat : i \in S
  BY <1>3, <1>4, SetInduction
<1>6. AssignInv(f[T], T, blocks, path, L)
  BY <1>5 DEF S
<1>7. PICK a0 : a0 = f[T]
  OBVIOUS
<1>8. PICK g : /\ assign_buckets(blocks, path, L) = g[T]
               /\ g[0] = a0
               /\ \A i \in 1 .. T : g[i] = PlaceStep(g[i - 1], i, blocks, L)
  BY <1>1, <1>2, <1>7, PlacedEmpty
<1> DEFINE R == {i \in Nat : i <= T => PlaceInv(g[i], i, a0, blocks, T, L)}
<1>9. 0 \in R
  <2>1. /\ a0 \in [1 .. T -> 0 .. L]
        /\ \A l \in 0 .. L - 1 : Cardinality(At(a0, l)) <= BLOCKS_PER_BUCKET
        /\ \A k \in 1 .. T : blocks[k].id = NoBlock => ~(a0[k] < L)
    BY <1>6, <1>7 DEF AssignInv
  <2>2. \A k \in 1 .. T : blocks[k].id = NoBlock => a0[k] = L
    BY <2>1
  <2>3. PlaceInv(a0, 0, a0, blocks, T, L)
    BY <2>1, <2>2 DEF PlaceInv
  <2> QED BY <1>8, <2>3
<1>10. ASSUME NEW i \in Nat, i \in R PROVE i + 1 \in R
  <2> SUFFICES ASSUME i + 1 <= T PROVE PlaceInv(g[i + 1], i + 1, a0, blocks, T, L)
    OBVIOUS
  <2>1. /\ i + 1 \in 1 .. T /\ (i + 1) - 1 = i /\ PlaceInv(g[i], i, a0, blocks, T, L)
        /\ i \in 0 .. T - 1
    BY <1>10
  <2>2. g[i + 1] = PlaceStep(g[i], i + 1, blocks, L)
    BY <1>8, <2>1
  <2>3. AssignInv(a0, T, blocks, path, L)
    BY <1>6, <1>7
  <2> QED BY <2>1, <2>2, <2>3, PlaceKeeps
<1> HIDE DEF R
<1>11. \A i \in Nat : i \in R
  BY <1>9, <1>10, SetInduction
<1>12. PICK a : a = g[T]
  OBVIOUS
<1>13. PlaceInv(a, T, a0, blocks, T, L) /\ AssignInv(a0, T, blocks, path, L)
  BY <1>6, <1>7, <1>11, <1>12 DEF R
<1>14. \A l \in 0 .. L - 1 : Cardinality(At(a, l)) = BLOCKS_PER_BUCKET
  <2>1. T \in 0 .. T
    OBVIOUS
  <2> QED BY <1>13, <2>1, AllBucketsFull
<1>15. ASSUME NEW k \in 1 .. T, a[k] < L, blocks[k].id # NoBlock
       PROVE  is_valid(path[a[k]], blocks[k].position)
  BY <1>13, <1>15 DEF PlaceInv, AssignInv
<1>16. /\ a \in [1 .. T -> 0 .. L]
       /\ \A k \in 1 .. T : k > BLOCKS_PER_BUCKET * L /\ blocks[k].id = NoBlock => a[k] = L
  BY <1>13 DEF PlaceInv
<1> QED BY <1>8, <1>12, <1>14, <1>15, <1>16 DEF Assignment

-----------------------------------------------------------------------------
(* Sorting by level and position. *)
UpTo(e, i) == {j \in DOMAIN e : \/ sorts_before(e[j], e[i])
                                \/ j <= i /\ ~sorts_before(e[i], e[j])}
Sortable(e, m) ==
    DOMAIN e = 1 .. m /\ \A i \in 1 .. m : e[i].lvl \in Nat /\ e[i].block.position \in Nat

(* The rank of an entry is a slot. *)
LEMMA UpToType ==
    ASSUME NEW m \in Nat, NEW e, Sortable(e, m), NEW i \in 1 .. m
    PROVE  /\ UpTo(e, i) \in SUBSET (1 .. m) /\ i \in UpTo(e, i)
           /\ IsFiniteSet(UpTo(e, i)) /\ Cardinality(UpTo(e, i)) \in 1 .. m
<1>1. UpTo(e, i) \in SUBSET (1 .. m)
  BY DEF UpTo, Sortable
<1>2. i \in UpTo(e, i)
  BY DEF UpTo, Sortable, sorts_before
<1>3. IsFiniteSet(1 .. m) /\ Cardinality(1 .. m) = m
  <2>1. 1 \in Int /\ m \in Int
    OBVIOUS
  <2>2. IsFiniteSet(1 .. m) /\ Cardinality(1 .. m) = IF 1 > m THEN 0 ELSE m - 1 + 1
    BY <2>1, FS_Interval
  <2> QED BY <2>2
<1>4. IsFiniteSet(UpTo(e, i)) /\ Cardinality(UpTo(e, i)) <= m
  BY <1>1, <1>3, FS_Subset
<1>5. Cardinality(UpTo(e, i)) \in Nat /\ Cardinality(UpTo(e, i)) # 0
  BY <1>2, <1>4, FS_CardinalityType, FS_EmptySet
<1>6. Cardinality(UpTo(e, i)) \in 1 .. m
  BY <1>4, <1>5
<1> QED BY <1>1, <1>2, <1>4, <1>6

(* Of two entries one comes first, and so do all that come before it. *)
LEMMA UpToGrows ==
    ASSUME NEW m \in Nat, NEW e, Sortable(e, m), NEW i \in 1 .. m, NEW k \in 1 .. m, i # k
    PROVE  \/ UpTo(e, i) \in SUBSET UpTo(e, k) /\ k \notin UpTo(e, i)
           \/ UpTo(e, k) \in SUBSET UpTo(e, i) /\ i \notin UpTo(e, k)
<1> DEFINE lvl(j) == e[j].lvl
           pos(j) == e[j].block.position
           Bef(j, n) == \/ lvl(j) < lvl(n)
                        \/ lvl(j) = lvl(n) /\ pos(j) < pos(n)
                        \/ lvl(j) = lvl(n) /\ pos(j) = pos(n) /\ j <= n
<1>1. \A j \in 1 .. m : lvl(j) \in Nat /\ pos(j) \in Nat
  BY DEF Sortable
<1>2. ASSUME NEW n \in 1 .. m PROVE UpTo(e, n) = {j \in 1 .. m : Bef(j, n)}
  <2>1. ASSUME NEW j \in 1 .. m
        PROVE  Bef(j, n) <=> \/ sorts_before(e[j], e[n])
                             \/ j <= n /\ ~sorts_before(e[n], e[j])
    BY <1>1 DEF sorts_before
  <2>2. DOMAIN e = 1 .. m
    BY DEF Sortable
  <2> HIDE DEF Bef
  <2> QED BY <2>1, <2>2 DEF UpTo
<1>3. ASSUME NEW x \in 1 .. m, NEW y \in 1 .. m, NEW z \in 1 .. m, Bef(x, y), Bef(y, z)
      PROVE  Bef(x, z)
  <2>1. /\ lvl(x) \in Nat /\ lvl(y) \in Nat /\ lvl(z) \in Nat
        /\ pos(x) \in Nat /\ pos(y) \in Nat /\ pos(z) \in Nat
    BY <1>1
  <2> HIDE DEF lvl, pos
  <2> QED BY <1>3, <2>1
<1>4. (Bef(i, k) /\ ~Bef(k, i)) \/ (Bef(k, i) /\ ~Bef(i, k))
  <2>1. PICK u, v, w, x \in Nat : u = lvl(i) /\ v = lvl(k) /\ w = pos(i) /\ x = pos(k)
    BY <1>1
  <2>2. /\ Bef(i, k) <=> u < v \/ (u = v /\ w < x) \/ (u = v /\ w = x /\ i <= k)
        /\ Bef(k, i) <=> v < u \/ (v = u /\ x < w) \/ (v = u /\ x = w /\ k <= i)
    BY <2>1
  <2> HIDE DEF Bef
  <2>3. CASE u # v
    BY <2>2, <2>3
  <2>4. CASE u = v /\ w # x
    BY <2>2, <2>4
  <2>5. CASE u = v /\ w = x
    BY <2>2, <2>5
  <2> QED BY <2>3, <2>4, <2>5
<1> HIDE DEF Bef
<1> QED BY <1>2, <1>3, <1>4

(* Two entries have different ranks: the bucket and the slot order them all. *)
LEMMA RankLess ==
    ASSUME NEW m \in Nat, NEW e, Sortable(e, m), NEW i \in 1 .. m, NEW k \in 1 .. m, i # k
    PROVE  Cardinality(UpTo(e, i)) # Cardinality(UpTo(e, k))
<1>1. ASSUME NEW x \in 1 .. m, NEW y \in 1 .. m,
             UpTo(e, x) \in SUBSET UpTo(e, y), y \notin UpTo(e, x)
      PROVE  Cardinality(UpTo(e, x)) # Cardinality(UpTo(e, y))
  <2>1. IsFiniteSet(UpTo(e, y)) /\ UpTo(e, x) # UpTo(e, y)
    BY <1>1, UpToType
  <2> QED BY <1>1, <2>1, FS_Subset
<1>2. CASE UpTo(e, i) \in SUBSET UpTo(e, k) /\ k \notin UpTo(e, i)
  BY <1>1, <1>2
<1>3. CASE UpTo(e, k) \in SUBSET UpTo(e, i) /\ i \notin UpTo(e, k)
  BY <1>1, <1>3
<1> QED BY <1>2, <1>3, UpToGrows

(* A permutation of 1 .. m. *)
IsPermutation(p, m) ==
    /\ p \in [1 .. m -> 1 .. m]
    /\ \A i, j \in 1 .. m : p[i] = p[j] => i = j
    /\ \A j \in 1 .. m : \E i \in 1 .. m : p[i] = j

(* Sorting permutes the entries: the one at place r is the one of rank r. *)
LEMMA SortIs ==
    ASSUME NEW m \in Nat, NEW e, Sortable(e, m)
    PROVE  \E p : /\ IsPermutation(p, m)
                  /\ sort(e) = [r \in 1 .. m |-> e[p[r]]]
                  /\ \A r \in 1 .. m : Cardinality(UpTo(e, p[r])) = r
<1> DEFINE rank == [i \in 1 .. m |-> Cardinality(UpTo(e, i))]
           p == [r \in 1 .. m |-> CHOOSE i \in 1 .. m : Cardinality(UpTo(e, i)) = r]
<1>1. rank \in [1 .. m -> 1 .. m] /\ \A i \in 1 .. m : rank[i] = Cardinality(UpTo(e, i))
  BY UpToType
<1>2. \A i, k \in 1 .. m : rank[i] = rank[k] => i = k
  BY <1>1, RankLess
<1>3. rank \in Injection(1 .. m, 1 .. m)
  <2> HIDE DEF rank
  <2> QED BY <1>1, <1>2 DEF Injection, IsInjective
<1>4. IsFiniteSet(1 .. m)
  <2>1. 1 \in Int /\ m \in Int
    OBVIOUS
  <2> QED BY <2>1, FS_Interval
<1>5. rank \in Surjection(1 .. m, 1 .. m)
  <2> HIDE DEF rank
  <2> QED BY <1>3, <1>4, FS_Injection
<1>6. \A r \in 1 .. m : \E i \in 1 .. m : rank[i] = r
  <2> HIDE DEF rank
  <2> QED BY <1>5 DEF Surjection
<1> HIDE DEF rank
<1>7. ASSUME NEW r \in 1 .. m PROVE p[r] \in 1 .. m /\ Cardinality(UpTo(e, p[r])) = r
  <2>1. \E i \in 1 .. m : Cardinality(UpTo(e, i)) = r
    BY <1>1, <1>6
  <2> QED BY <2>1
<1>8. sort(e) = [r \in 1 .. m |-> e[p[r]]]
  <2>1. DOMAIN e = 1 .. m
    BY DEF Sortable
  <2>2. sort(e) = [r \in 1 .. m |-> e[CHOOSE i \in 1 .. m : Cardinality(UpTo(e, i)) = r]]
    BY <2>1 DEF sort, UpTo
  <2> QED BY <2>2
<1>9. p \in [1 .. m -> 1 .. m]
  BY <1>7
<1> HIDE DEF p
<1>10. \A i, j \in 1 .. m : p[i] = p[j] => i = j
  BY <1>7
<1>11. ASSUME NEW j \in 1 .. m PROVE \E i \in 1 .. m : p[i] = j
  <2>1. rank[j] \in 1 .. m /\ rank[j] = Cardinality(UpTo(e, j))
    BY <1>1
  <2>2. Cardinality(UpTo(e, p[rank[j]])) = Cardinality(UpTo(e, j)) /\ p[rank[j]] \in 1 .. m
    BY <1>7, <2>1
  <2>3. p[rank[j]] = j
    BY <2>2, RankLess
  <2> QED BY <2>1, <2>3
<1>12. IsPermutation(p, m)
  BY <1>9, <1>10, <1>11 DEF IsPermutation
<1> QED BY <1>7, <1>8, <1>12

(* All entries of lower levels come before one, and none of a higher level. *)
LEMMA RankBounds ==
    ASSUME NEW m \in Nat, NEW L \in Nat, NEW a \in [1 .. m -> 0 .. L], NEW e, Sortable(e, m),
           \A i \in 1 .. m : e[i].lvl = a[i], NEW i \in 1 .. m
    PROVE  /\ Cardinality(Below(a, a[i])) < Cardinality(UpTo(e, i))
           /\ Cardinality(UpTo(e, i)) <= Cardinality(Below(a, a[i] + 1))
<1>1. DOMAIN e = 1 .. m /\ DOMAIN a = 1 .. m
  BY DEF Sortable
<1>2. Below(a, a[i]) \in SUBSET UpTo(e, i) /\ i \notin Below(a, a[i])
  BY <1>1 DEF Below, UpTo, sorts_before
<1>3. UpTo(e, i) \in SUBSET Below(a, a[i] + 1)
  <2> SUFFICES ASSUME NEW j \in UpTo(e, i) PROVE j \in Below(a, a[i] + 1)
    OBVIOUS
  <2>1. j \in 1 .. m /\ ~sorts_before(e[i], e[j])
    <3>1. j \in 1 .. m /\ (sorts_before(e[j], e[i]) \/ ~sorts_before(e[i], e[j]))
      BY <1>1 DEF UpTo
    <3>2. e[i].lvl \in Nat /\ e[j].lvl \in Nat
          /\ e[i].block.position \in Nat /\ e[j].block.position \in Nat
      BY <3>1 DEF Sortable
    <3> QED BY <3>1, <3>2 DEF sorts_before
  <2>2. ~(a[i] < a[j]) /\ a[i] \in Nat /\ a[j] \in Nat
    BY <2>1 DEF sorts_before
  <2> QED BY <1>1, <2>1, <2>2 DEF Below
<1>4. /\ IsFiniteSet(UpTo(e, i)) /\ i \in UpTo(e, i)
      /\ IsFiniteSet(Below(a, a[i])) /\ IsFiniteSet(Below(a, a[i] + 1))
  BY UpToType, CountType
<1>5. Cardinality(UpTo(e, i)) <= Cardinality(Below(a, a[i] + 1))
  BY <1>3, <1>4, FS_Subset
<1>6. /\ Cardinality(Below(a, a[i])) <= Cardinality(UpTo(e, i))
      /\ Cardinality(UpTo(e, i)) # Cardinality(Below(a, a[i]))
  BY <1>2, <1>4, FS_Subset
<1>7. Cardinality(UpTo(e, i)) \in Nat /\ Cardinality(Below(a, a[i])) \in Nat
  BY <1>4, FS_CardinalityType
<1> QED BY <1>5, <1>6, <1>7

-----------------------------------------------------------------------------
(* The block at a place of a sorted, full assignment has the place's level. *)
LEMMA PlaceOfLevel ==
    ASSUME NEW L \in Nat \ {0}, NEW l \in 0 .. L, NEW r \in 1 .. BLOCKS_PER_BUCKET * L,
           BLOCKS_PER_BUCKET * l < r, l < L => r <= BLOCKS_PER_BUCKET * (l + 1)
    PROVE  l < L /\ (r - 1) \div BLOCKS_PER_BUCKET = l
<1>1. PICK B \in Nat \ {0} : B = BLOCKS_PER_BUCKET
  BY StashAssumption
<1>2. l # L
  <2>1. B * L \in Nat /\ r <= B * L
    BY <1>1
  <2> QED BY <1>1, <2>1
<1>3. l < L /\ r <= B * (l + 1) /\ B * (l + 1) = B * l + B /\ B * l \in Nat
  BY <1>1, <1>2
<1>4. PICK s \in Nat : s = r - 1 - B * l /\ s < B
  <2>1. B * l < r /\ r \in Nat
    BY <1>1
  <2> QED BY <1>3, <2>1
<1>5. r - 1 = B * l + s
  BY <1>3, <1>4
<1>6. (B * l + s) \div B = l
  BY <1>4, DivModIs, SMTT(30)
<1> QED BY <1>1, <1>3, <1>5, <1>6

(* The path is written back with the blocks that were in the stash, each    *)
(* where it may be.                                                         *)
Rebuilt(blocks, path, L, T) ==
    \E p : /\ IsPermutation(p, T)
           /\ build_path(blocks, path, L) = [i \in 1 .. T |-> blocks[p[i]]]
           /\ FromPath([i \in 1 .. T |-> blocks[p[i]]], path, L)

(* Eviction loses nothing: when the blocks that were read from the buckets  *)
(* of a path belong there, build_path gives a rearrangement of the stash,   *)
(* with every block in the slots of the buckets again on the path of its    *)
(* position, whatever the overflow holds and however full it is.            *)
THEOREM BuildPathIs ==
    ASSUME NEW L \in Nat \ {0}, NEW T \in Nat, BLOCKS_PER_BUCKET * L <= T,
           NEW X, \A x \in X : x.position \in Nat,
           NEW blocks \in [1 .. T -> X], NEW path, FromPath(blocks, path, L)
    PROVE  Rebuilt(blocks, path, L, T)
<1>1. PICK B \in Nat \ {0} : B = BLOCKS_PER_BUCKET
  BY StashAssumption
<1>2. PICK a : a = assign_buckets(blocks, path, L)
  OBVIOUS
<1>3. Assignment(a, blocks, path, T, L)
  BY <1>2, AssignIs
<1>4. B * L \in Nat /\ B * L <= T
  BY <1>1
<1> DEFINE S == {BLOCKS_PER_BUCKET * L} \cup {i \in DOMAIN blocks : blocks[i].id # NoBlock}
<1>5. PICK ub : ub = overflow_ub(blocks, BLOCKS_PER_BUCKET * L)
  OBVIOUS
<1>6. ub \in S /\ \A y \in S : ub >= y
  <2>1. S \in SUBSET Nat /\ S # {} /\ \A x \in S : x <= T
    BY <1>1, <1>4
  <2>2. ub = Max(S)
    BY <1>5 DEF overflow_ub
  <2> HIDE DEF S
  <2> QED BY <2>1, <2>2, MaxOf
<1>7. /\ ub \in Nat /\ B * L <= ub /\ ub <= T
      /\ \A k \in 1 .. T : k > ub => blocks[k].id = NoBlock
  <2>1. ub \in Nat /\ ub <= T
    BY <1>1, <1>4, <1>6
  <2>2. B * L <= ub
    <3>1. B * L \in S
      BY <1>1
    <3>2. ub >= B * L
      BY <1>6, <3>1
    <3> QED BY <1>4, <2>1, <3>2
  <2>3. ASSUME NEW k \in 1 .. T, k > ub, blocks[k].id # NoBlock PROVE FALSE
    <3>1. k \in S
      BY <2>3
    <3>2. ub >= k
      BY <1>6, <3>1
    <3> QED BY <2>1, <2>3, <3>2
  <2> QED BY <2>1, <2>2, <2>3
<1> HIDE DEF S
<1> DEFINE e == [i \in 1 .. ub |-> [block |-> blocks[i], lvl |-> a[i]]]
           a1 == [i \in 1 .. ub |-> a[i]]
<1>8. /\ a1 \in [1 .. ub -> 0 .. L]
      /\ \A i \in 1 .. ub : a1[i] = a[i] /\ i \in 1 .. T /\ i \in DOMAIN e
                            /\ e[i].lvl = a1[i] /\ e[i].block = blocks[i]
  <2>1. a \in [1 .. T -> 0 .. L]
    BY <1>3 DEF Assignment
  <2> QED BY <1>7, <2>1
<1>9. Sortable(e, ub)
  <2>1. \A i \in 1 .. ub : a1[i] \in Nat /\ blocks[i].position \in Nat
    BY <1>7, <1>8
  <2> QED BY <1>8, <2>1 DEF Sortable
<1>10. build_path(blocks, path, L) =
          [i \in 1 .. T |-> IF i <= ub THEN sort(e)[i].block ELSE blocks[i]]
  BY <1>2, <1>5 DEF build_path
<1>11. ASSUME NEW l \in 0 .. L - 1 PROVE Cardinality(At(a1, l)) = B
  <2>1. a \in [1 .. T -> 0 .. L] /\ Cardinality(At(a, l)) = B
    BY <1>1, <1>3 DEF Assignment
  <2>2. \A k \in 1 .. T : k > ub => a[k] = L
    BY <1>1, <1>3, <1>4, <1>7 DEF Assignment
  <2>3. \A k \in 1 .. T : a[k] = l => k \in 1 .. ub
    BY <1>7, <2>2
  <2>4. At(a1, l) = At(a, l)
    <3>1. DOMAIN a1 = 1 .. ub /\ DOMAIN a = 1 .. T
      BY <2>1
    <3> HIDE DEF a1
    <3> QED BY <1>8, <2>3, <3>1 DEF At
  <2> QED BY <2>1, <2>4
<1> HIDE DEF e, a1
<1>12. PICK p1 : /\ IsPermutation(p1, ub)
                 /\ sort(e) = [r \in 1 .. ub |-> e[p1[r]]]
                 /\ \A r \in 1 .. ub : Cardinality(UpTo(e, p1[r])) = r
  BY <1>7, <1>9, SortIs
<1>13. p1 \in [1 .. ub -> 1 .. ub]
  BY <1>12 DEF IsPermutation
<1> DEFINE p == [i \in 1 .. T |-> IF i <= ub THEN p1[i] ELSE i]
<1>14. /\ p \in [1 .. T -> 1 .. T]
       /\ \A i \in 1 .. T : i <= ub => i \in 1 .. ub /\ p[i] = p1[i] /\ p[i] \in 1 .. ub
       /\ \A i \in 1 .. T : ~(i <= ub) => p[i] = i
  BY <1>7, <1>13
<1> HIDE DEF p
<1>15. IsPermutation(p, T)
  <2>1. ASSUME NEW i \in 1 .. T, NEW j \in 1 .. T, p[i] = p[j] PROVE i = j
    <3>1. CASE i <= ub /\ j <= ub
      <4>1. i \in 1 .. ub /\ j \in 1 .. ub /\ p1[i] = p1[j]
        BY <1>14, <2>1, <3>1
      <4> QED BY <1>12, <4>1 DEF IsPermutation
    <3>2. CASE ~(i <= ub) /\ j <= ub
      BY <1>7, <1>14, <2>1, <3>2
    <3>3. CASE i <= ub /\ ~(j <= ub)
      BY <1>7, <1>14, <2>1, <3>3
    <3>4. CASE ~(i <= ub) /\ ~(j <= ub)
      BY <1>14, <2>1, <3>4
    <3> QED BY <3>1, <3>2, <3>3, <3>4
  <2>2. ASSUME NEW j \in 1 .. T PROVE \E i \in 1 .. T : p[i] = j
    <3>1. CASE j <= ub
      <4>1. j \in 1 .. ub
        BY <1>14, <3>1
      <4>2. PICK i \in 1 .. ub : p1[i] = j
        BY <1>12, <4>1 DEF IsPermutation
      <4>3. i \in 1 .. T /\ i <= ub
        BY <1>7
      <4> QED BY <1>14, <4>2, <4>3
    <3>2. CASE ~(j <= ub)
      BY <1>14, <3>2
    <3> QED BY <3>1, <3>2
  <2> QED BY <1>14, <2>1, <2>2 DEF IsPermutation
<1>16. ASSUME NEW i \in 1 .. T
       PROVE  (IF i <= ub THEN sort(e)[i].block ELSE blocks[i]) = blocks[p[i]]
  <2>1. CASE i <= ub
    <3>1. i \in 1 .. ub /\ p[i] = p1[i] /\ p1[i] \in 1 .. ub
      BY <1>14, <2>1
    <3>2. sort(e)[i] = e[p1[i]]
      BY <1>12, <3>1
    <3>3. e[p1[i]].block = blocks[p1[i]]
      BY <1>8, <3>1
    <3> QED BY <2>1, <3>1, <3>2, <3>3
  <2>2. CASE ~(i <= ub)
    BY <1>14, <2>2
  <2> QED BY <2>1, <2>2
<1>17. build_path(blocks, path, L) = [i \in 1 .. T |-> blocks[p[i]]]
  BY <1>10, <1>16
<1>18. \A m \in 0 .. L : Cardinality(Below(a1, m)) = B * m
  <2>1. PICK N \in Nat, M \in Nat, C \in Nat : N = ub /\ M = L /\ C = B
    BY <1>7
  <2>2. PICK c \in [1 .. N -> 0 .. M] : c = a1
    BY <1>8, <2>1
  <2>3. LevelsFull(c, M, C)
    BY <1>11, <2>1, <2>2 DEF LevelsFull
  <2>4. FullBelow(c, M, C)
    BY <2>3, BelowFull
  <2> QED BY <2>1, <2>2, <2>4 DEF FullBelow
<1>19. ASSUME NEW r \in 1 .. BLOCKS_PER_BUCKET * L, blocks[p[r]].id # NoBlock
       PROVE  is_valid(path[(r - 1) \div BLOCKS_PER_BUCKET], blocks[p[r]].position)
  <2>1. r \in 1 .. ub /\ r \in 1 .. T
    BY <1>1, <1>4, <1>7
  <2>2. p[r] \in 1 .. ub /\ p[r] = p1[r] /\ p[r] \in 1 .. T
    BY <1>7, <1>14, <2>1
  <2>3. PICK i \in 1 .. ub : i = p[r]
    BY <2>2
  <2>4. PICK l \in 0 .. L : l = a1[i]
    BY <1>8
  <2>5. Cardinality(UpTo(e, i)) = r
    BY <1>12, <2>1, <2>2, <2>3
  <2>6. /\ Cardinality(Below(a1, a1[i])) < Cardinality(UpTo(e, i))
        /\ Cardinality(UpTo(e, i)) <= Cardinality(Below(a1, a1[i] + 1))
    <3>1. \A k \in 1 .. ub : e[k].lvl = a1[k]
      BY <1>8
    <3>2. L \in Nat /\ a1 \in [1 .. ub -> 0 .. L]
      BY <1>8
    <3> QED BY <1>7, <1>9, <3>1, <3>2, RankBounds
  <2>7. B * l < r
    BY <1>18, <2>4, <2>5, <2>6
  <2>8. l < L => r <= B * (l + 1)
    <3>1. l < L => l + 1 \in 0 .. L
      OBVIOUS
    <3> QED BY <1>18, <2>4, <2>5, <2>6, <3>1
  <2>9. l < L /\ (r - 1) \div BLOCKS_PER_BUCKET = l
    BY <1>1, <2>7, <2>8, PlaceOfLevel
  <2>10. a[i] = l /\ i \in 1 .. T
    BY <1>8, <2>4
  <2>11. is_valid(path[l], blocks[i].position)
    BY <1>3, <1>19, <2>3, <2>9, <2>10 DEF Assignment
  <2> QED BY <2>3, <2>9, <2>11
<1>20. FromPath([i \in 1 .. T |-> blocks[p[i]]], path, L)
  <2>1. \A r \in 1 .. BLOCKS_PER_BUCKET * L :
           r \in 1 .. T /\ [i \in 1 .. T |-> blocks[p[i]]][r] = blocks[p[r]]
    BY <1>1, <1>4
  <2> QED BY <1>19, <2>1 DEF FromPath
<1> QED BY <1>15, <1>17, <1>20 DEF Rebuilt

-----------------------------------------------------------------------------
(* The places of an ORAM: the slots of its buckets and those of its         *)
(* overflow, which count as bucket -1.                                      *)
Places(L, V) ==
    ((0 .. tree_path_num_nodes(L) - 1) \X (1 .. BLOCKS_PER_BUCKET)) \cup ({-1} \X (1 .. V))
Val(o, x) == IF x[1] = -1 THEN o.overflow[x[2]] ELSE o.buckets[x[1]][x[2]]

(* The place from which slot i of the stash comes, and to which it goes. *)
PlaceOf(path, L, i) ==
    IF i <= BLOCKS_PER_BUCKET * L
    THEN <<path[(i - 1) \div BLOCKS_PER_BUCKET], ((i - 1) % BLOCKS_PER_BUCKET) + 1>>
    ELSE <<-1, i - BLOCKS_PER_BUCKET * L>>

(* A block that is not empty has an id and a position in the tree. *)
LEMMA BlockIs ==
    ASSUME NEW I \in SUBSET Nat, NEW D, NEW L \in Nat \ {0}, NEW x \in Block(I, D, L)
    PROVE  /\ x.position \in Nat /\ Empty \in Block(I, D, L)
           /\ x.id = NoBlock <=> x = Empty
           /\ x.id # NoBlock => /\ x.id \in I /\ x.data \in D
                                /\ \E p \in Positions(L) : x.position = 2 * p
           /\ Empty.id = NoBlock
<1>0. ALL_ONES \in Nat
  BY SMT DEF ALL_ONES
<1>1. NoBlock \notin I /\ Empty.id = NoBlock /\ Empty.position \in Nat
  BY <1>0, StashAssumption DEF Empty
<1>2. Empty \in Block(I, D, L)
  BY DEF Block
<1>3. CASE x = Empty
  BY <1>1, <1>2, <1>3
<1>4. CASE x # Empty
  <2>1. /\ x.id \in I /\ x.data \in D
        /\ \E p \in Positions(L) : x.position = 2 * p
    BY <1>4 DEF Block
  <2>2. x.position \in Nat
    BY <2>1, PositionsType
  <2>3. x.id # NoBlock
    BY <1>1, <2>1
  <2> QED BY <1>1, <1>2, <1>4, <2>1, <2>2, <2>3
<1> QED BY <1>3, <1>4

(* The block that an access puts is a block. *)
LEMMA BlockMade ==
    ASSUME NEW I, NEW D, NEW L \in Nat \ {0}, NEW id \in I, NEW p \in Positions(L), NEW d \in D
    PROVE  [id |-> id, position |-> 2 * p, data |-> d] \in Block(I, D, L)
  BY DEF Block

(* Slot j of level l is at l * BLOCKS_PER_BUCKET + j. *)
LEMMA SlotIs ==
    ASSUME NEW L \in Nat \ {0}, NEW l \in 0 .. L - 1, NEW j \in 1 .. BLOCKS_PER_BUCKET
    PROVE  /\ l * BLOCKS_PER_BUCKET + j \in 1 .. BLOCKS_PER_BUCKET * L
           /\ ((l * BLOCKS_PER_BUCKET + j) - 1) \div BLOCKS_PER_BUCKET = l
           /\ (((l * BLOCKS_PER_BUCKET + j) - 1) % BLOCKS_PER_BUCKET) + 1 = j
<1>1. PICK B \in Nat \ {0} : B = BLOCKS_PER_BUCKET
  BY StashAssumption
<1>2. l * B = B * l /\ B * l \in Nat /\ l \in Nat /\ j \in 1 .. B /\ j - 1 \in Nat
  BY <1>1
<1>3. (B * l + (j - 1)) \div B = l /\ (B * l + (j - 1)) % B = j - 1
  <2>1. PICK k \in Nat : k = j - 1 /\ k < B
    BY <1>2
  <2>2. (B * l + k) \div B = l /\ (B * l + k) % B = k
    BY <1>2, <2>1, DivModIs
  <2> QED BY <2>1, <2>2
<1>4. (l * B + j) - 1 = B * l + (j - 1)
  BY <1>2
<1>5. l * B + j \in 1 .. B * L
  <2>1. B * (l + 1) <= B * L
    <3>1. l + 1 <= L /\ l + 1 \in Nat
      OBVIOUS
    <3> QED BY <3>1
  <2>2. B * (l + 1) = B * l + B /\ B * L \in Nat
    OBVIOUS
  <2> QED BY <1>2, <2>1, <2>2
<1>6. ((l * B + j) - 1) \div B = l /\ (((l * B + j) - 1) % B) + 1 = j
  BY <1>2, <1>3, <1>4
<1> QED BY <1>1, <1>5, <1>6

(* The level and the place in the bucket of a slot of the stash. *)
LEMMA SlotOf ==
    ASSUME NEW L \in Nat \ {0}, NEW i \in 1 .. BLOCKS_PER_BUCKET * L
    PROVE  /\ (i - 1) \div BLOCKS_PER_BUCKET \in 0 .. L - 1
           /\ ((i - 1) % BLOCKS_PER_BUCKET) + 1 \in 1 .. BLOCKS_PER_BUCKET
           /\ i = ((i - 1) \div BLOCKS_PER_BUCKET) * BLOCKS_PER_BUCKET
                    + (((i - 1) % BLOCKS_PER_BUCKET) + 1)
<1>1. PICK B \in Nat \ {0} : B = BLOCKS_PER_BUCKET
  BY StashAssumption
<1>2. i \in Nat \ {0} /\ i <= B * L /\ i - 1 \in Nat
  BY <1>1
<1>3. PICK q, r \in Nat : q = (i - 1) \div B /\ r = (i - 1) % B /\ r < B /\ i - 1 = B * q + r
  BY <1>2, DivMod
<1>4. q \in 0 .. L - 1
  BY <1>1, <1>2, <1>3, MaxLevel
<1>5. r + 1 \in 1 .. B
  BY <1>3
<1>6. i = q * B + (r + 1)
  <2>1. q * B = B * q /\ B * q \in Nat
    OBVIOUS
  <2> QED BY <1>2, <1>3, <2>1
<1> QED BY <1>1, <1>3, <1>4, <1>5, <1>6

(* Every slot of the stash comes from a place of the ORAM. *)
LEMMA PlaceOfType ==
    ASSUME NEW L \in Nat \ {0}, NEW p \in Positions(L), NEW V \in Nat,
           NEW i \in 1 .. BLOCKS_PER_BUCKET * L + V
    PROVE  PlaceOf(tree_path_update(L, 2 * p), L, i) \in Places(L, V)
<1> DEFINE path == tree_path_update(L, 2 * p)
<1>1. PICK N \in Nat : N = BLOCKS_PER_BUCKET * L
  BY MaxLevel
<1>2. \A l \in 0 .. L - 1 : path[l] \in 0 .. tree_path_num_nodes(L) - 1
  BY PathType
<1> HIDE DEF path
<1>3. CASE i <= N
  <2>1. i \in 1 .. BLOCKS_PER_BUCKET * L
    BY <1>1, <1>3
  <2>2. /\ (i - 1) \div BLOCKS_PER_BUCKET \in 0 .. L - 1
        /\ ((i - 1) % BLOCKS_PER_BUCKET) + 1 \in 1 .. BLOCKS_PER_BUCKET
    BY <2>1, SlotOf
  <2>3. PICK u \in 0 .. L - 1, v \in 1 .. BLOCKS_PER_BUCKET :
          u = (i - 1) \div BLOCKS_PER_BUCKET /\ v = ((i - 1) % BLOCKS_PER_BUCKET) + 1
    BY <2>2
  <2>4. PlaceOf(path, L, i) = <<path[u], v>>
    BY <1>1, <1>3, <2>3 DEF PlaceOf
  <2>5. <<path[u], v>> \in Places(L, V)
    BY <1>2 DEF Places
  <2> QED BY <2>4, <2>5 DEF path
<1>4. CASE ~(i <= N)
  <2>1. i - N \in 1 .. V
    BY <1>1, <1>4
  <2> QED BY <1>1, <1>4, <2>1 DEF PlaceOf, Places
<1> QED BY <1>3, <1>4 DEF path

(* Different slots of the stash are different places. *)
LEMMA PlaceOfInjective ==
    ASSUME NEW L \in Nat \ {0}, NEW p \in Positions(L), NEW V \in Nat,
           NEW i \in 1 .. BLOCKS_PER_BUCKET * L + V, NEW k \in 1 .. BLOCKS_PER_BUCKET * L + V,
           PlaceOf(tree_path_update(L, 2 * p), L, i) = PlaceOf(tree_path_update(L, 2 * p), L, k)
    PROVE  i = k
<1> DEFINE path == tree_path_update(L, 2 * p)
<1>1. PICK N \in Nat : N = BLOCKS_PER_BUCKET * L
  BY MaxLevel
<1>2. /\ \A l \in 0 .. L - 1 : path[l] \in 0 .. tree_path_num_nodes(L) - 1
      /\ \A l, m \in 0 .. L - 1 : path[l] = path[m] => l = m
  BY PathType
<1>3. PlaceOf(path, L, i) = PlaceOf(path, L, k)
  OBVIOUS
<1> HIDE DEF path
<1>4. ASSUME NEW x \in 1 .. BLOCKS_PER_BUCKET * L + V, x <= N
      PROVE  /\ (x - 1) \div BLOCKS_PER_BUCKET \in 0 .. L - 1
             /\ x = ((x - 1) \div BLOCKS_PER_BUCKET) * BLOCKS_PER_BUCKET
                    + (((x - 1) % BLOCKS_PER_BUCKET) + 1)
             /\ PlaceOf(path, L, x) =
                  <<path[(x - 1) \div BLOCKS_PER_BUCKET], ((x - 1) % BLOCKS_PER_BUCKET) + 1>>
             /\ path[(x - 1) \div BLOCKS_PER_BUCKET] # -1
  <2>1. x \in 1 .. BLOCKS_PER_BUCKET * L
    BY <1>1, <1>4
  <2>2. /\ (x - 1) \div BLOCKS_PER_BUCKET \in 0 .. L - 1
        /\ x = ((x - 1) \div BLOCKS_PER_BUCKET) * BLOCKS_PER_BUCKET
                    + (((x - 1) % BLOCKS_PER_BUCKET) + 1)
    BY <2>1, SlotOf
  <2>3. path[(x - 1) \div BLOCKS_PER_BUCKET] # -1
    BY <1>2, <2>2
  <2> QED BY <1>1, <1>4, <2>2, <2>3 DEF PlaceOf
<1>5. ASSUME NEW x \in 1 .. BLOCKS_PER_BUCKET * L + V, ~(x <= N)
      PROVE  PlaceOf(path, L, x) = <<-1, x - N>>
  BY <1>1, <1>5 DEF PlaceOf
<1>6. CASE i <= N /\ k <= N
  <2>1. (i - 1) \div BLOCKS_PER_BUCKET = (k - 1) \div BLOCKS_PER_BUCKET
    BY <1>2, <1>3, <1>4, <1>6
  <2>2. ((i - 1) % BLOCKS_PER_BUCKET) + 1 = ((k - 1) % BLOCKS_PER_BUCKET) + 1
    BY <1>3, <1>4, <1>6
  <2> QED BY <1>4, <1>6, <2>1, <2>2
<1>7. CASE ~(i <= N) /\ ~(k <= N)
  <2>1. i - N = k - N
    BY <1>3, <1>5, <1>7
  <2>2. i \in Int /\ k \in Int
    OBVIOUS
  <2> QED BY <2>1, <2>2
<1>8. CASE i <= N /\ ~(k <= N)
  BY <1>3, <1>4, <1>5, <1>8
<1>9. CASE ~(i <= N) /\ k <= N
  BY <1>3, <1>4, <1>5, <1>9
<1> QED BY <1>6, <1>7, <1>8, <1>9

(* A place that an access does not touch. *)
OffPath(x, path, L) == x[1] # -1 /\ \A l \in 0 .. L - 1 : path[l] # x[1]

(* A place is a slot of the overflow or of a bucket. *)
LEMMA PlaceIs ==
    ASSUME NEW L, NEW V, NEW x \in Places(L, V)
    PROVE  /\ x = <<x[1], x[2]>>
           /\ \/ x[1] = -1 /\ x[2] \in 1 .. V
              \/ /\ x[1] \in 0 .. tree_path_num_nodes(L) - 1 /\ x[1] # -1
                 /\ x[2] \in 1 .. BLOCKS_PER_BUCKET
  BY DEF Places

(* The types of what is stored at the places. *)
LEMMA OramIs ==
    ASSUME NEW I, NEW D, NEW L, NEW V, NEW o \in Oram(I, D, L, V)
    PROVE  /\ o.buckets \in [0 .. tree_path_num_nodes(L) - 1 ->
                                [1 .. BLOCKS_PER_BUCKET -> Block(I, D, L)]]
           /\ o.overflow \in [1 .. V -> Block(I, D, L)]
           /\ \A x \in Places(L, V) : Val(o, x) \in Block(I, D, L)
<1>1. /\ o.buckets \in [0 .. tree_path_num_nodes(L) - 1 ->
                                [1 .. BLOCKS_PER_BUCKET -> Block(I, D, L)]]
      /\ o.overflow \in [1 .. V -> Block(I, D, L)]
  BY DEF Oram
<1>2. ASSUME NEW x \in Places(L, V) PROVE Val(o, x) \in Block(I, D, L)
  <2>1. \/ x[1] = -1 /\ x[2] \in 1 .. V
        \/ /\ x[1] \in 0 .. tree_path_num_nodes(L) - 1 /\ x[1] # -1
           /\ x[2] \in 1 .. BLOCKS_PER_BUCKET
    BY PlaceIs
  <2>2. CASE x[1] = -1 /\ x[2] \in 1 .. V
    BY <1>1, <2>2 DEF Val
  <2>3. CASE /\ x[1] \in 0 .. tree_path_num_nodes(L) - 1 /\ x[1] # -1
             /\ x[2] \in 1 .. BLOCKS_PER_BUCKET
    BY <1>1, <2>3 DEF Val
  <2> QED BY <2>1, <2>2, <2>3
<1> QED BY <1>1, <1>2

(* The stash has all other places. *)
LEMMA PlaceOfAll ==
    ASSUME NEW L \in Nat \ {0}, NEW p \in Positions(L), NEW V \in Nat, NEW x \in Places(L, V),
           ~OffPath(x, tree_path_update(L, 2 * p), L)
    PROVE  \E i \in 1 .. BLOCKS_PER_BUCKET * L + V :
              /\ PlaceOf(tree_path_update(L, 2 * p), L, i) = x
              /\ x[1] = -1 <=> ~(i <= BLOCKS_PER_BUCKET * L)
              /\ x[1] # -1 => tree_path_update(L, 2 * p)[(i - 1) \div BLOCKS_PER_BUCKET] = x[1]
<1> DEFINE path == tree_path_update(L, 2 * p)
<1>1. PICK N \in Nat : N = BLOCKS_PER_BUCKET * L
  BY MaxLevel
<1>2. x = <<x[1], x[2]>>
  BY PlaceIs
<1> HIDE DEF path
<1>3. CASE x[1] = -1
  <2>1. x[2] \in 1 .. V
    BY <1>3, PlaceIs
  <2>2. PICK i \in 1 .. N + V : i = N + x[2] /\ ~(i <= N) /\ i - N = x[2]
    BY <2>1
  <2>3. PlaceOf(path, L, i) = x
    BY <1>1, <1>2, <1>3, <2>2 DEF PlaceOf
  <2> QED BY <1>1, <1>3, <2>2, <2>3 DEF path
<1>4. CASE x[1] # -1
  <2>1. PICK l \in 0 .. L - 1 : path[l] = x[1]
    BY <1>4 DEF OffPath, path
  <2>2. x[2] \in 1 .. BLOCKS_PER_BUCKET
    BY <1>4, PlaceIs
  <2>3. PICK j \in 1 .. BLOCKS_PER_BUCKET : j = x[2]
    BY <2>2
  <2>4. \E i : /\ i \in 1 .. BLOCKS_PER_BUCKET * L
               /\ (i - 1) \div BLOCKS_PER_BUCKET = l
               /\ ((i - 1) % BLOCKS_PER_BUCKET) + 1 = j
    <3>0. /\ l * BLOCKS_PER_BUCKET + j \in 1 .. BLOCKS_PER_BUCKET * L
          /\ ((l * BLOCKS_PER_BUCKET + j) - 1) \div BLOCKS_PER_BUCKET = l
          /\ (((l * BLOCKS_PER_BUCKET + j) - 1) % BLOCKS_PER_BUCKET) + 1 = j
      BY SlotIs
    <3> DEFINE k == l * BLOCKS_PER_BUCKET + j
    <3>1. /\ k \in 1 .. BLOCKS_PER_BUCKET * L
          /\ (k - 1) \div BLOCKS_PER_BUCKET = l
          /\ ((k - 1) % BLOCKS_PER_BUCKET) + 1 = j
      BY <3>0
    <3> HIDE DEF k
    <3> QED BY <3>1
  <2>4a. PICK i \in 1 .. N : /\ (i - 1) \div BLOCKS_PER_BUCKET = l
                              /\ ((i - 1) % BLOCKS_PER_BUCKET) + 1 = x[2]
    BY <1>1, <2>3, <2>4
  <2>5. i <= N /\ i \in 1 .. N + V
    OBVIOUS
  <2>6. PlaceOf(path, L, i) = x
    BY <1>1, <1>2, <2>1, <2>4a, <2>5 DEF PlaceOf
  <2> QED BY <1>1, <1>4, <2>1, <2>4a, <2>5, <2>6 DEF path
<1> QED BY <1>3, <1>4

(* What is read into the stash. *)
ReadFrom(s, o, path, L, V) ==
    \A i \in 1 .. BLOCKS_PER_BUCKET * L + V : s[i] = Val(o, PlaceOf(path, L, i))

(* Reading a path fills the stash with the blocks of its places. *)
LEMMA StashIs ==
    ASSUME NEW L \in Nat \ {0}, NEW p \in Positions(L), NEW V \in Nat, NEW I, NEW D,
           NEW o \in Oram(I, D, L, V)
    PROVE  LET path == tree_path_update(L, 2 * p)
               s == path_blocks(o, path, L) \o o.overflow
           IN  /\ s \in [1 .. BLOCKS_PER_BUCKET * L + V -> Block(I, D, L)]
               /\ ReadFrom(s, o, path, L, V)
<1> DEFINE path == tree_path_update(L, 2 * p)
           X == Block(I, D, L)
           pb == path_blocks(o, path, L)
           s == pb \o o.overflow
<1>1. PICK N \in Nat : N = BLOCKS_PER_BUCKET * L
  BY MaxLevel
<1>2. \A l \in 0 .. L - 1 : path[l] \in 0 .. tree_path_num_nodes(L) - 1
  BY PathType
<1>3. /\ o.buckets \in [0 .. tree_path_num_nodes(L) - 1 -> [1 .. BLOCKS_PER_BUCKET -> X]]
      /\ o.overflow \in [1 .. V -> X]
  BY OramIs
<1>4. ASSUME NEW i \in 1 .. N
      PROVE  /\ pb[i] = o.buckets[path[(i - 1) \div BLOCKS_PER_BUCKET]]
                                 [((i - 1) % BLOCKS_PER_BUCKET) + 1]
             /\ pb[i] \in X /\ pb[i] = Val(o, PlaceOf(path, L, i))
  <2>1. /\ (i - 1) \div BLOCKS_PER_BUCKET \in 0 .. L - 1
        /\ ((i - 1) % BLOCKS_PER_BUCKET) + 1 \in 1 .. BLOCKS_PER_BUCKET
    BY <1>1, SlotOf
  <2>2. pb[i] = o.buckets[path[(i - 1) \div BLOCKS_PER_BUCKET]]
                         [((i - 1) % BLOCKS_PER_BUCKET) + 1]
    BY <1>1 DEF path_blocks
  <2> HIDE DEF pb, path, X
  <2>3. path[(i - 1) \div BLOCKS_PER_BUCKET] \in 0 .. tree_path_num_nodes(L) - 1
        /\ path[(i - 1) \div BLOCKS_PER_BUCKET] # -1
    BY <1>2, <2>1
  <2>4. pb[i] \in X
    BY <1>3, <2>1, <2>2, <2>3
  <2>5. i <= N
    OBVIOUS
  <2>6. PlaceOf(path, L, i) = <<path[(i - 1) \div BLOCKS_PER_BUCKET],
                                ((i - 1) % BLOCKS_PER_BUCKET) + 1>>
    BY <1>1, <2>5 DEF PlaceOf
  <2> QED BY <2>2, <2>3, <2>4, <2>6 DEF Val
<1>5. pb = [i \in 1 .. N |-> pb[i]]
  BY <1>1 DEF path_blocks
<1> HIDE DEF pb, path, X
<1>6. pb \in Seq(X) /\ Len(pb) = N
  BY <1>4, <1>5
<1>7. o.overflow \in Seq(X) /\ Len(o.overflow) = V
  BY <1>3
<1>8. s \in Seq(X) /\ Len(s) = N + V
  BY <1>6, <1>7
<1>9. ASSUME NEW i \in 1 .. N + V PROVE s[i] = IF i <= N THEN pb[i] ELSE o.overflow[i - N]
  BY <1>6, <1>7
<1> HIDE DEF s
<1>10. s \in [1 .. N + V -> X]
  BY <1>8
<1>11. ASSUME NEW i \in 1 .. N + V PROVE s[i] = Val(o, PlaceOf(path, L, i))
  <2>1. CASE i <= N
    BY <1>4, <1>9, <2>1
  <2>2. CASE ~(i <= N)
    <3>1. PlaceOf(path, L, i) = <<-1, i - N>>
      BY <1>1, <2>2 DEF PlaceOf
    <3> QED BY <1>9, <2>2, <3>1 DEF Val
  <2> QED BY <2>1, <2>2
<1>12. ReadFrom(s, o, path, L, V)
  BY <1>1, <1>11 DEF ReadFrom
<1> QED BY <1>1, <1>10, <1>12 DEF s, pb, path, X

(* What is written back. *)
OffPathSame(o2, o, path, L, V) ==
    \A x \in Places(L, V) : OffPath(x, path, L) => Val(o2, x) = Val(o, x)

(* Writing a path puts the stash back to its places and changes no other    *)
(* bucket.                                                                  *)
LEMMA WrittenIs ==
    ASSUME NEW L \in Nat \ {0}, NEW p \in Positions(L), NEW V \in Nat, NEW I, NEW D,
           NEW o \in Oram(I, D, L, V),
           NEW s \in [1 .. BLOCKS_PER_BUCKET * L + V -> Block(I, D, L)]
    PROVE  LET path == tree_path_update(L, 2 * p)
               o2 == write_path(o, path, L, s)
           IN  /\ o2 \in Oram(I, D, L, V)
               /\ ReadFrom(s, o2, path, L, V)
               /\ OffPathSame(o2, o, path, L, V)
<1> DEFINE path == tree_path_update(L, 2 * p)
           X == Block(I, D, L)
           o2 == write_path(o, path, L, s)
           NN == 0 .. tree_path_num_nodes(L) - 1
<1>1. PICK N \in Nat : N = BLOCKS_PER_BUCKET * L
  BY MaxLevel
<1>2. /\ \A l \in 0 .. L - 1 : path[l] \in NN
      /\ \A l, m \in 0 .. L - 1 : path[l] = path[m] => l = m
      /\ DOMAIN path = 0 .. L - 1
  BY PathType
<1>3. /\ o.buckets \in [NN -> [1 .. BLOCKS_PER_BUCKET -> X]]
      /\ o.overflow \in [1 .. V -> X]
  BY OramIs
<1> DEFINE level_of(b) == {l \in DOMAIN path : path[l] = b}
           bk == [b \in NN |-> IF level_of(b) = {} THEN o.buckets[b]
                               ELSE [j \in 1 .. BLOCKS_PER_BUCKET |->
                                       s[Max(level_of(b)) * BLOCKS_PER_BUCKET + j]]]
           ov == [i \in 1 .. V |-> s[N + i]]
<1>4. o2 = [buckets |-> bk, overflow |-> ov]
  BY <1>1, <1>3 DEF write_path
<1> HIDE DEF path, X, o2, NN
<1>5. ASSUME NEW l \in 0 .. L - 1 PROVE level_of(path[l]) # {} /\ Max(level_of(path[l])) = l
  <2>1. level_of(path[l]) = {l}
    BY <1>2
  <2>2. Max({l}) = l
    <3>1. {l} \in SUBSET Nat /\ {l} # {} /\ l \in Nat /\ \A x \in {l} : x <= l
      OBVIOUS
    <3>2. Max({l}) \in {l}
      BY <3>1, MaxOf
    <3> QED BY <3>2
  <2> QED BY <2>1, <2>2
<1>6. ASSUME NEW b \in NN, level_of(b) # {} PROVE \E l \in 0 .. L - 1 : path[l] = b
  BY <1>2, <1>6
<1> HIDE DEF level_of
<1>7. ASSUME NEW b \in NN PROVE bk[b] = IF level_of(b) = {} THEN o.buckets[b]
                               ELSE [j \in 1 .. BLOCKS_PER_BUCKET |->
                                       s[Max(level_of(b)) * BLOCKS_PER_BUCKET + j]]
  OBVIOUS
<1>8. ASSUME NEW l \in 0 .. L - 1
      PROVE  /\ bk[path[l]] = [j \in 1 .. BLOCKS_PER_BUCKET |-> s[l * BLOCKS_PER_BUCKET + j]]
             /\ bk[path[l]] \in [1 .. BLOCKS_PER_BUCKET -> X]
  <2>1. bk[path[l]] = [j \in 1 .. BLOCKS_PER_BUCKET |-> s[l * BLOCKS_PER_BUCKET + j]]
    <3>1. path[l] \in NN /\ level_of(path[l]) # {} /\ Max(level_of(path[l])) = l
      BY <1>2, <1>5
    <3> HIDE DEF bk
    <3> QED BY <1>7, <3>1
  <2>2. ASSUME NEW j \in 1 .. BLOCKS_PER_BUCKET PROVE s[l * BLOCKS_PER_BUCKET + j] \in X
    <3>1. l * BLOCKS_PER_BUCKET + j \in 1 .. N
      BY <1>1, SlotIs
    <3>2. l * BLOCKS_PER_BUCKET + j \in 1 .. BLOCKS_PER_BUCKET * L + V
      BY <1>1, <3>1
    <3> QED BY <3>2 DEF X
  <2>3. [j \in 1 .. BLOCKS_PER_BUCKET |-> s[l * BLOCKS_PER_BUCKET + j]] \in
           [1 .. BLOCKS_PER_BUCKET -> X]
    BY <2>2
  <2> HIDE DEF bk
  <2> QED BY <2>1, <2>3
<1>9. bk \in [NN -> [1 .. BLOCKS_PER_BUCKET -> X]]
  <2>1. ASSUME NEW b \in NN PROVE bk[b] \in [1 .. BLOCKS_PER_BUCKET -> X]
    <3>1. CASE level_of(b) = {}
      BY <1>3, <1>7, <3>1
    <3>2. CASE level_of(b) # {}
      BY <1>6, <1>8, <3>2
    <3> QED BY <3>1, <3>2
  <2> QED BY <2>1
<1>10. ov \in [1 .. V -> X]
  <2>1. \A i \in 1 .. V : N + i \in 1 .. BLOCKS_PER_BUCKET * L + V
    BY <1>1
  <2> QED BY <2>1 DEF X
<1>11. o2 \in Oram(I, D, L, V)
  <2> HIDE DEF bk, ov
  <2> QED BY <1>4, <1>9, <1>10 DEF Oram, NN, X
<1>12. o2.buckets = bk /\ o2.overflow = ov
  BY <1>4
<1> HIDE DEF bk
<1>13. ASSUME NEW i \in 1 .. BLOCKS_PER_BUCKET * L + V
       PROVE  Val(o2, PlaceOf(path, L, i)) = s[i]
  <2>1. CASE i <= N
    <3>1. i \in 1 .. BLOCKS_PER_BUCKET * L
      BY <1>1, <2>1
    <3>2. PICK l \in 0 .. L - 1, j \in 1 .. BLOCKS_PER_BUCKET :
            /\ l = (i - 1) \div BLOCKS_PER_BUCKET /\ j = ((i - 1) % BLOCKS_PER_BUCKET) + 1
            /\ i = l * BLOCKS_PER_BUCKET + j
      BY <3>1, SlotOf
    <3>3. PlaceOf(path, L, i) = <<path[l], j>>
      BY <1>1, <2>1, <3>2 DEF PlaceOf
    <3>4. path[l] # -1
      BY <1>2 DEF NN
    <3>5. bk[path[l]][j] = s[l * BLOCKS_PER_BUCKET + j]
      BY <1>8
    <3> QED BY <1>12, <3>2, <3>3, <3>4, <3>5 DEF Val
  <2>2. CASE ~(i <= N)
    <3>1. PlaceOf(path, L, i) = <<-1, i - N>>
      BY <1>1, <2>2 DEF PlaceOf
    <3>2. i - N \in 1 .. V /\ N + (i - N) = i
      BY <1>1, <2>2
    <3>3. ov[i - N] = s[i]
      BY <3>2
    <3> QED BY <1>12, <3>1, <3>3 DEF Val
  <2> QED BY <2>1, <2>2
<1>14. ASSUME NEW x \in Places(L, V), OffPath(x, path, L) PROVE Val(o2, x) = Val(o, x)
  <2>1. x[1] # -1 /\ x[1] \in NN /\ \A l \in 0 .. L - 1 : path[l] # x[1]
    BY <1>14, PlaceIs DEF OffPath, NN
  <2>2. level_of(x[1]) = {}
    BY <1>6, <2>1
  <2>3. bk[x[1]] = o.buckets[x[1]]
    BY <1>7, <2>1, <2>2
  <2> QED BY <1>12, <2>1, <2>3 DEF Val
<1>15. ReadFrom(s, o2, path, L, V) /\ OffPathSame(o2, o, path, L, V)
  BY <1>13, <1>14 DEF ReadFrom, OffPathSame
<1> QED BY <1>11, <1>15 DEF path, o2

(* What is left when there is no room for the block. *)
OverflowFrom(s, o2, path, L, V) ==
    \A i \in 1 .. BLOCKS_PER_BUCKET * L + V :
        ~(i <= BLOCKS_PER_BUCKET * L) => Val(o2, PlaceOf(path, L, i)) = s[i]
TreeSame(o2, o, L, V) == \A x \in Places(L, V) : x[1] # -1 => Val(o2, x) = Val(o, x)

GivenUp(o, L, s) ==
    [o EXCEPT !.overflow = [i \in DOMAIN @ |-> s[BLOCKS_PER_BUCKET * L + i]]]

(* A failing access writes back the overflow and no bucket. *)
LEMMA AbortedIs ==
    ASSUME NEW L \in Nat \ {0}, NEW V \in Nat, NEW I, NEW D, NEW o \in Oram(I, D, L, V),
           NEW s \in [1 .. BLOCKS_PER_BUCKET * L + V -> Block(I, D, L)], NEW path
    PROVE  /\ GivenUp(o, L, s) \in Oram(I, D, L, V)
           /\ OverflowFrom(s, GivenUp(o, L, s), path, L, V) /\ TreeSame(GivenUp(o, L, s), o, L, V)
<1> DEFINE o2 == GivenUp(o, L, s)
           X == Block(I, D, L)
<1>1. PICK N \in Nat : N = BLOCKS_PER_BUCKET * L
  BY MaxLevel
<1>2. /\ o.buckets \in [0 .. tree_path_num_nodes(L) - 1 -> [1 .. BLOCKS_PER_BUCKET -> X]]
      /\ o.overflow \in [1 .. V -> X]
  BY OramIs
<1> DEFINE ov == [i \in 1 .. V |-> s[N + i]]
<1>3. o2 = [buckets |-> o.buckets, overflow |-> ov]
  <2>1. o = [buckets |-> o.buckets, overflow |-> o.overflow]
    BY DEF Oram
  <2>2. DOMAIN o.overflow = 1 .. V
    BY <1>2
  <2>3. o2 = [buckets |-> o.buckets,
              overflow |-> [i \in DOMAIN o.overflow |-> s[BLOCKS_PER_BUCKET * L + i]]]
    BY <2>1 DEF GivenUp
  <2> QED BY <1>1, <2>2, <2>3
<1> HIDE DEF o2, X
<1>4. ov \in [1 .. V -> X]
  <2>1. \A i \in 1 .. V : N + i \in 1 .. BLOCKS_PER_BUCKET * L + V
    BY <1>1
  <2> QED BY <2>1 DEF X
<1>5. o2 \in Oram(I, D, L, V)
  <2> HIDE DEF ov
  <2> QED BY <1>2, <1>3, <1>4 DEF Oram, X
<1>6. o2.buckets = o.buckets /\ o2.overflow = ov
  BY <1>3
<1>7. ASSUME NEW i \in 1 .. BLOCKS_PER_BUCKET * L + V, ~(i <= N)
      PROVE  Val(o2, PlaceOf(path, L, i)) = s[i]
  <2>1. PlaceOf(path, L, i) = <<-1, i - N>>
    BY <1>1, <1>7 DEF PlaceOf
  <2>2. i - N \in 1 .. V /\ N + (i - N) = i
    BY <1>1, <1>7
  <2>3. ov[i - N] = s[i]
    BY <2>2
  <2> QED BY <1>6, <2>1, <2>3 DEF Val
<1>8. ASSUME NEW x \in Places(L, V), x[1] # -1 PROVE Val(o2, x) = Val(o, x)
  BY <1>6, <1>8 DEF Val
<1>9. OverflowFrom(s, o2, path, L, V) /\ TreeSame(o2, o, L, V)
  BY <1>1, <1>7, <1>8 DEF OverflowFrom, TreeSame
<1> QED BY <1>5, <1>9 DEF o2

-----------------------------------------------------------------------------
(* What an access relies on and keeps.  A block in a bucket is on the path  *)
(* of its position; a block has one place at most; all copies of a block    *)
(* have a position; every copy of a block in one ORAM is in another.        *)
InPlace(o, L, V) ==
    \A x \in Places(L, V) : x[1] # -1 /\ Val(o, x).id # NoBlock => is_valid(x[1], Val(o, x).position)
Single(o, L, V, k) ==
    \A x, y \in Places(L, V) : Val(o, x).id = k /\ Val(o, y).id = k => x = y
AtPosition(o, L, V, k, q) ==
    \A x \in Places(L, V) : Val(o, x).id = k => Val(o, x).position = q
Copied(o, o2, L, V, k) ==
    \A x \in Places(L, V) : Val(o, x).id = k => \E y \in Places(L, V) : Val(o2, y) = Val(o, x)
SameFor(o, o2, L, V, k) ==
    /\ Copied(o, o2, L, V, k) /\ Copied(o2, o, L, V, k)
    /\ Single(o, L, V, k) => Single(o2, L, V, k)

(* A block at its position is found: its place is in the stash. *)
LEMMA OnThePath ==
    ASSUME NEW L \in Nat \ {0}, NEW p \in Positions(L), NEW V \in Nat, NEW o, InPlace(o, L, V),
           NEW x \in Places(L, V), Val(o, x).id # NoBlock, Val(o, x).position = 2 * p
    PROVE  ~OffPath(x, tree_path_update(L, 2 * p), L)
<1> SUFFICES ASSUME x[1] # -1 PROVE \E l \in 0 .. L - 1 : tree_path_update(L, 2 * p)[l] = x[1]
  BY DEF OffPath
<1>1. x[1] \in 0 .. tree_path_num_nodes(L) - 1
  BY PlaceIs
<1>2. is_valid(x[1], 2 * p)
  BY DEF InPlace
<1> QED BY <1>1, <1>2, PathComplete

(* What read_path_for_block leaves in the stash and gives to the caller. *)
ReadOK(r, o, L, V, I, D, old, id, unset) ==
    LET T == BLOCKS_PER_BUCKET * L + V
        at(i) == Val(o, PlaceOf(r.path, L, i))
    IN  /\ r.id = id /\ r.path = tree_path_update(L, 2 * old)
        /\ r.blocks \in [1 .. T -> Block(I, D, L)]
        /\ FromPath(r.blocks, r.path, L)
        /\ \A i \in 1 .. T : at(i).id # id => r.blocks[i] = at(i)
        /\ \A i \in 1 .. T : at(i).id = id => r.blocks[i].id \in {id, NoBlock}
        /\ r.data \in D \cup {unset}

ReadFinds(r, o, L, V, id, unset) ==
    /\ \A i \in 1 .. BLOCKS_PER_BUCKET * L + V : r.blocks[i].id # id
    /\ \A x \in Places(L, V) : Val(o, x).id = id => r.data = Val(o, x).data
    /\ (\A x \in Places(L, V) : Val(o, x).id # id) => r.data = unset

(* read_path_for_block leaves every other block as it was read, and finds a *)
(* block that has one place, at the position it is looked for.              *)
LEMMA ReadIs ==
    ASSUME NEW L \in Nat \ {0}, NEW V \in Nat, NEW I \in SUBSET Nat, NEW D,
           NEW o \in Oram(I, D, L, V), NEW old \in Positions(L), NEW id \in I, NEW unset,
           InPlace(o, L, V)
    PROVE  LET r == read_block(o, L, old, id, unset)
           IN  /\ ReadOK(r, o, L, V, I, D, old, id, unset)
               /\ Single(o, L, V, id) /\ AtPosition(o, L, V, id, 2 * old) =>
                     ReadFinds(r, o, L, V, id, unset)
<1> DEFINE path == tree_path_update(L, 2 * old)
           X == Block(I, D, L)
           s == path_blocks(o, path, L) \o o.overflow
           f == extract(s, id)
           r == read_block(o, L, old, id, unset)
           T == BLOCKS_PER_BUCKET * L + V
           at(i) == Val(o, PlaceOf(path, L, i))
<1>1. /\ T \in Nat /\ BLOCKS_PER_BUCKET * L \in Nat
      /\ \A i \in 1 .. BLOCKS_PER_BUCKET * L : i \in 1 .. T /\ i <= BLOCKS_PER_BUCKET * L
  <2>1. PICK N \in Nat : N = BLOCKS_PER_BUCKET * L
    BY MaxLevel
  <2>2. N + V \in Nat /\ \A i \in 1 .. N : i \in 1 .. N + V /\ i <= N
    OBVIOUS
  <2> QED BY <2>1, <2>2
<1>2. s \in [1 .. T -> X] /\ \A i \in 1 .. T : s[i] = at(i)
  <2>1. s \in [1 .. T -> X]
    BY StashIs, Zenon
  <2>2. ReadFrom(s, o, path, L, V)
    BY StashIs, Zenon
  <2> QED BY <2>1, <2>2 DEF ReadFrom
<1>3. r = [id |-> id, path |-> path, blocks |-> f.blocks,
           data |-> IF f.target = Empty THEN unset ELSE f.target.data]
  BY DEF read_block
<1>4. \A x \in X : /\ x.position \in Nat /\ (x.id = NoBlock <=> x = Empty)
                   /\ x.id # NoBlock => /\ x.id \in I /\ x.data \in D
                                        /\ \E q \in Positions(L) : x.position = 2 * q
  BY BlockIs
<1>5. Empty \in X /\ Empty.id = NoBlock /\ id # NoBlock
  BY StashAssumption DEF Block, Empty
<1>6. \A i \in 1 .. T : PlaceOf(path, L, i) \in Places(L, V)
  BY PlaceOfType
<1>7. ASSUME NEW i \in 1 .. T, NEW k \in 1 .. T, PlaceOf(path, L, i) = PlaceOf(path, L, k)
      PROVE  i = k
  BY <1>7, PlaceOfInjective
<1> HIDE DEF X, s, r, T
<1>8. ScanInv(f, T, T, X, s, id)
  BY <1>1, <1>2, <1>5, ExtractIs
<1> HIDE DEF f
<1>9. /\ f.blocks \in [1 .. T -> X]
      /\ \A k \in 1 .. T : s[k].id # id => f.blocks[k] = s[k]
      /\ \A k \in 1 .. T : s[k].id = id =>
            \/ f.blocks[k] = Empty
            \/ \E j \in 1 .. T : j < k /\ s[j].id = id /\ f.blocks[k] = s[j]
      /\ \/ f.target = Empty /\ \A k \in 1 .. T : s[k].id # id
         \/ \E j \in 1 .. T : s[j].id = id /\ f.target = s[j]
  <2>1. \A k \in 1 .. T : k <= T
    BY <1>1
  <2> QED BY <1>8, <2>1 DEF ScanInv
(* A path block is in a bucket of the path. *)
<1>10. ASSUME NEW i \in 1 .. BLOCKS_PER_BUCKET * L, s[i].id # NoBlock
       PROVE  is_valid(path[(i - 1) \div BLOCKS_PER_BUCKET], s[i].position)
  <2>1. i \in 1 .. T /\ i <= BLOCKS_PER_BUCKET * L
    BY <1>1
  <2>2. (i - 1) \div BLOCKS_PER_BUCKET \in 0 .. L - 1
    BY SlotOf
  <2>3. PlaceOf(path, L, i)[1] = path[(i - 1) \div BLOCKS_PER_BUCKET]
    BY <2>1 DEF PlaceOf
  <2>4. path[(i - 1) \div BLOCKS_PER_BUCKET] # -1
    <3>1. path \in [0 .. L - 1 -> 0 .. tree_path_num_nodes(L) - 1]
      BY PathType
    <3> HIDE DEF path
    <3> QED BY <2>2, <3>1
  <2>5. at(i).id # NoBlock /\ s[i] = at(i)
    BY <1>2, <1>10, <2>1
  <2>6. is_valid(PlaceOf(path, L, i)[1], at(i).position)
    BY <1>6, <2>1, <2>3, <2>4, <2>5 DEF InPlace
  <2> QED BY <2>3, <2>5, <2>6
<1>11. FromPath(f.blocks, path, L)
  <2> SUFFICES ASSUME NEW i \in 1 .. BLOCKS_PER_BUCKET * L, f.blocks[i].id # NoBlock
               PROVE  is_valid(path[(i - 1) \div BLOCKS_PER_BUCKET], f.blocks[i].position)
    BY DEF FromPath
  <2>1. i \in 1 .. T
    BY <1>1
  <2>2. CASE s[i].id # id
    BY <1>9, <1>10, <2>1, <2>2
  <2>3. CASE s[i].id = id
    <3>1. PICK j \in 1 .. T : j < i /\ s[j].id = id /\ f.blocks[i] = s[j]
      BY <1>5, <1>9, <2>1, <2>3
    <3>2. j \in 1 .. BLOCKS_PER_BUCKET * L
      BY <1>1, <3>1
    <3>3. is_valid(path[(j - 1) \div BLOCKS_PER_BUCKET], s[j].position)
      BY <1>5, <1>10, <3>1, <3>2
    <3>4. PICK q \in Positions(L) : s[j].position = 2 * q
      BY <1>2, <1>4, <1>5, <3>1
    <3>5. PICK u \in 0 .. L - 1, v \in 0 .. L - 1 :
            u = (j - 1) \div BLOCKS_PER_BUCKET /\ v = (i - 1) \div BLOCKS_PER_BUCKET
      BY <3>2, SlotOf
    <3>6. u <= v
      <4>1. PICK B \in Nat \ {0} : B = BLOCKS_PER_BUCKET
        BY StashAssumption
      <4>2. /\ B * u < j /\ i <= B * v + B
        <5>1. j \in Nat \ {0} /\ i \in Nat \ {0} /\ j <= BLOCKS_PER_BUCKET * L
              /\ i <= BLOCKS_PER_BUCKET * L
          BY <1>1, <3>2
        <5> QED BY <3>5, <4>1, <5>1, MaxLevel
      <4>3. SUFFICES ASSUME v + 1 <= u PROVE FALSE
        OBVIOUS
      <4>4. B * (v + 1) <= B * u /\ B * (v + 1) = B * v + B /\ B * v \in Nat /\ B * u \in Nat
        BY <4>3
      <4>5. i \in Nat /\ j \in Nat /\ j < i
        BY <3>1
      <4> QED BY <4>2, <4>4, <4>5
    <3>7. q \in Nat
      BY PositionsType
    <3>8. is_valid(path[u], 2 * q)
      BY <3>3, <3>4, <3>5
    <3>9. is_valid(path[v], 2 * q)
      BY <3>6, <3>7, <3>8, ValidAbove
    <3> QED BY <3>1, <3>4, <3>5, <3>9
  <2> QED BY <2>2, <2>3
<1>12. f.target = Empty \/ f.target.data \in D
  BY <1>2, <1>4, <1>5, <1>9
<1>13. ReadOK(r, o, L, V, I, D, old, id, unset)
  <2>1. r.id = id /\ r.path = path /\ r.blocks = f.blocks /\ r.data \in D \cup {unset}
    BY <1>3, <1>12
  <2>2. \A i \in 1 .. T : at(i).id # id => r.blocks[i] = at(i)
    BY <1>2, <1>9, <2>1
  <2>3. \A i \in 1 .. T : at(i).id = id => r.blocks[i].id \in {id, NoBlock}
    BY <1>2, <1>5, <1>9, <2>1
  <2> QED BY <1>9, <1>11, <2>1, <2>2, <2>3 DEF ReadOK, T, X
<1>14. ASSUME Single(o, L, V, id), AtPosition(o, L, V, id, 2 * old)
       PROVE  ReadFinds(r, o, L, V, id, unset)
  <2>1. r.blocks = f.blocks /\ r.data = IF f.target = Empty THEN unset ELSE f.target.data
    BY <1>3
  <2>2. ASSUME NEW i \in 1 .. T, NEW k \in 1 .. T, s[i].id = id, s[k].id = id PROVE i = k
    BY <1>2, <1>6, <1>7, <1>14, <2>2 DEF Single
  <2>3. ASSUME NEW i \in 1 .. T PROVE f.blocks[i].id # id
    <3>1. CASE s[i].id # id
      BY <1>9, <3>1
    <3>2. CASE s[i].id = id
      <4>1. ASSUME NEW j \in 1 .. T, j < i, s[j].id = id PROVE FALSE
        <5>1. j = i
          BY <2>2, <3>2, <4>1
        <5> QED BY <1>1, <4>1, <5>1
      <4> QED BY <1>5, <1>9, <3>2, <4>1
    <3> QED BY <3>1, <3>2
  <2>4. ASSUME NEW x \in Places(L, V), Val(o, x).id = id PROVE r.data = Val(o, x).data
    <3>1. Val(o, x).position = 2 * old /\ Val(o, x).id # NoBlock
      BY <1>5, <1>14, <2>4 DEF AtPosition
    <3>2. ~OffPath(x, path, L)
      BY <3>1, OnThePath
    <3>3. PICK i \in 1 .. T : PlaceOf(path, L, i) = x
      BY <3>2, PlaceOfAll DEF T
    <3>4. s[i].id = id /\ s[i] = Val(o, x)
      BY <1>2, <2>4, <3>3
    <3>5. PICK j \in 1 .. T : s[j].id = id /\ f.target = s[j]
      BY <1>9, <3>4
    <3>6. f.target = Val(o, x)
      BY <2>2, <3>4, <3>5
    <3>7. f.target # Empty
      BY <1>5, <2>4, <3>6
    <3> QED BY <2>1, <3>6, <3>7
  <2>5. ASSUME \A x \in Places(L, V) : Val(o, x).id # id PROVE r.data = unset
    <3>1. \A i \in 1 .. T : s[i].id # id
      BY <1>2, <1>6, <2>5
    <3> QED BY <1>9, <2>1, <3>1
  <2> QED BY <2>1, <2>3, <2>4, <2>5 DEF ReadFinds, T
<1> QED BY <1>13, <1>14 DEF r

(* What an access does: all other blocks stay as they are, and the accessed *)
(* one is there with its new position and data.                             *)
AccessOK(a, o, L, V, I, D, id) ==
    /\ a.abort \in BOOLEAN /\ a.o \in Oram(I, D, L, V) /\ InPlace(a.o, L, V)
    /\ \A k \in I \ {id} : SameFor(o, a.o, L, V, k)
AccessPuts(a, L, V, id, new, data) ==
    /\ Single(a.o, L, V, id) /\ \E x \in Places(L, V) : Val(a.o, x).id = id
    /\ \A x \in Places(L, V) :
          Val(a.o, x).id = id => Val(a.o, x) = [id |-> id, position |-> 2 * new, data |-> data]

(* The slots of the stash are on the path that was read. *)
LEMMA PlaceOnPath ==
    ASSUME NEW L \in Nat \ {0}, NEW V \in Nat, NEW path, NEW i \in 1 .. BLOCKS_PER_BUCKET * L + V
    PROVE  ~OffPath(PlaceOf(path, L, i), path, L)
<1>1. PICK N \in Nat : N = BLOCKS_PER_BUCKET * L
  BY MaxLevel
<1>2. CASE i <= N
  <2>1. i \in 1 .. BLOCKS_PER_BUCKET * L
    BY <1>1, <1>2
  <2>2. (i - 1) \div BLOCKS_PER_BUCKET \in 0 .. L - 1
    BY <2>1, SlotOf
  <2>3. PlaceOf(path, L, i)[1] = path[(i - 1) \div BLOCKS_PER_BUCKET]
    BY <1>1, <1>2 DEF PlaceOf
  <2> QED BY <2>2, <2>3 DEF OffPath
<1>3. CASE ~(i <= N)
  <2>1. PlaceOf(path, L, i)[1] = -1
    BY <1>1, <1>3 DEF PlaceOf
  <2> QED BY <2>1 DEF OffPath
<1> QED BY <1>2, <1>3

(* A full overflow: the other blocks are where they were. *)
LEMMA AbortKeeps ==
    ASSUME NEW L \in Nat \ {0}, NEW V \in Nat, NEW I \in SUBSET Nat, NEW D,
           NEW o \in Oram(I, D, L, V), NEW old \in Positions(L), NEW id \in I, NEW unset,
           InPlace(o, L, V), NEW r, ReadOK(r, o, L, V, I, D, old, id, unset),
           NEW new, NEW data, free_overflow(r.blocks, BLOCKS_PER_BUCKET * L) = {}
    PROVE  /\ AccessOK(oram_access(o, L, r, new, data), o, L, V, I, D, id)
           /\ oram_access(o, L, r, new, data).abort
<1> DEFINE o2 == GivenUp(o, L, r.blocks)
           T == BLOCKS_PER_BUCKET * L + V
<1>1. oram_access(o, L, r, new, data) = [abort |-> TRUE, o |-> o2]
  BY DEF oram_access, GivenUp
<1>2. /\ r.path = tree_path_update(L, 2 * old)
      /\ r.blocks \in [1 .. T -> Block(I, D, L)]
      /\ \A i \in 1 .. T : Val(o, PlaceOf(r.path, L, i)).id # id =>
                              r.blocks[i] = Val(o, PlaceOf(r.path, L, i))
      /\ \A i \in 1 .. T : Val(o, PlaceOf(r.path, L, i)).id = id => r.blocks[i].id \in {id, NoBlock}
  BY DEF ReadOK
<1>3. /\ o2 \in Oram(I, D, L, V)
      /\ OverflowFrom(r.blocks, o2, r.path, L, V) /\ TreeSame(o2, o, L, V)
  <2>1. r.blocks \in [1 .. BLOCKS_PER_BUCKET * L + V -> Block(I, D, L)]
    BY <1>2
  <2> QED BY <2>1, AbortedIs, Zenon
<1> HIDE DEF o2
<1>4. ASSUME NEW x \in Places(L, V), NEW k \in I \ {id}, Val(o, x).id = k \/ Val(o2, x).id = k
      PROVE  Val(o2, x) = Val(o, x)
  <2>1. CASE x[1] # -1
    BY <1>3, <2>1 DEF TreeSame
  <2>2. CASE x[1] = -1
    <3>1. ~OffPath(x, r.path, L)
      BY <2>2 DEF OffPath
    <3>2. PICK i \in 1 .. T : PlaceOf(r.path, L, i) = x /\ ~(i <= BLOCKS_PER_BUCKET * L)
      BY <1>2, <2>2, <3>1, PlaceOfAll
    <3>3. Val(o2, x) = r.blocks[i]
      BY <1>3, <3>2 DEF OverflowFrom
    <3>4. k # id /\ k # NoBlock
      BY StashAssumption
    <3> QED BY <1>2, <1>4, <3>2, <3>3, <3>4
  <2> QED BY <2>1, <2>2
<1>5. ASSUME NEW k \in I \ {id} PROVE SameFor(o, o2, L, V, k)
  <2>1. Copied(o, o2, L, V, k)
    BY <1>4 DEF Copied
  <2>2. Copied(o2, o, L, V, k)
    BY <1>4 DEF Copied
  <2>3. Single(o, L, V, k) => Single(o2, L, V, k)
    BY <1>4 DEF Single
  <2> QED BY <2>1, <2>2, <2>3 DEF SameFor
<1>6. InPlace(o2, L, V)
  BY <1>3 DEF InPlace, TreeSame
<1> QED BY <1>1, <1>3, <1>5, <1>6 DEF AccessOK

(* The block goes to the overflow and the path is written. *)
LEMMA AccessKeeps ==
    ASSUME NEW L \in Nat \ {0}, NEW V \in Nat, NEW I \in SUBSET Nat, NEW D,
           NEW o \in Oram(I, D, L, V), NEW old \in Positions(L), NEW id \in I, NEW unset,
           InPlace(o, L, V), NEW r, ReadOK(r, o, L, V, I, D, old, id, unset),
           NEW new \in Positions(L), NEW data \in D,
           free_overflow(r.blocks, BLOCKS_PER_BUCKET * L) # {}
    PROVE  /\ AccessOK(oram_access(o, L, r, new, data), o, L, V, I, D, id)
           /\ ~oram_access(o, L, r, new, data).abort
           /\ /\ Single(o, L, V, id) /\ AtPosition(o, L, V, id, 2 * old)
              /\ ReadFinds(r, o, L, V, id, unset)
              => AccessPuts(oram_access(o, L, r, new, data), L, V, id, new, data)
<1> DEFINE path == tree_path_update(L, 2 * old)
           X == Block(I, D, L)
           T == BLOCKS_PER_BUCKET * L + V
           free == free_overflow(r.blocks, BLOCKS_PER_BUCKET * L)
           target == [id |-> id, position |-> 2 * new, data |-> data]
           at(i) == Val(o, PlaceOf(path, L, i))
<1>1. /\ T \in Nat /\ BLOCKS_PER_BUCKET * L \in Nat /\ BLOCKS_PER_BUCKET * L <= T
      /\ \A i \in 1 .. BLOCKS_PER_BUCKET * L : i \in 1 .. T /\ i <= BLOCKS_PER_BUCKET * L
  <2>1. PICK N \in Nat : N = BLOCKS_PER_BUCKET * L
    BY MaxLevel
  <2>2. N + V \in Nat /\ N <= N + V /\ \A i \in 1 .. N : i \in 1 .. N + V /\ i <= N
    OBVIOUS
  <2> QED BY <2>1, <2>2
<1>2. /\ r.path = path /\ r.id = id
      /\ r.blocks \in [1 .. T -> X]
      /\ FromPath(r.blocks, path, L)
      /\ \A i \in 1 .. T : at(i).id # id => r.blocks[i] = at(i)
      /\ \A i \in 1 .. T : at(i).id = id => r.blocks[i].id \in {id, NoBlock}
  BY DEF ReadOK
<1>3. id # NoBlock /\ target.id = id /\ target \in X
  BY StashAssumption, BlockMade
<1>4. PICK f \in 1 .. T : /\ f = Min(free) /\ f > BLOCKS_PER_BUCKET * L
                          /\ r.blocks[f].id = NoBlock
  <2>1. \A i \in free : i \in 1 .. T /\ i > BLOCKS_PER_BUCKET * L /\ r.blocks[i].id = NoBlock
    BY <1>2 DEF free_overflow
  <2>2. free \in SUBSET Nat /\ free # {}
    BY <2>1
  <2> HIDE DEF free
  <2>3. Min(free) \in free
    BY <2>2, MinOf
  <2> QED BY <2>1, <2>3
<1> DEFINE s2 == [r.blocks EXCEPT ![f] = target]
<1>5. /\ s2 \in [1 .. T -> X] /\ s2[f] = target
      /\ \A i \in 1 .. T : i # f => s2[i] = r.blocks[i]
  BY <1>2, <1>3
<1>6. oram_access(o, L, r, new, data) =
         [abort |-> FALSE, o |-> write_path(o, path, L, build_path(s2, path, L))]
  BY <1>2, <1>4 DEF oram_access
<1> HIDE DEF X, T, free, target, s2, path
<1>7. \A x \in X : x.position \in Nat
  BY BlockIs DEF X
<1>8. FromPath(s2, path, L)
  <2>1. \A i \in 1 .. BLOCKS_PER_BUCKET * L : i \in 1 .. T /\ i # f
    BY <1>1, <1>4
  <2> QED BY <1>2, <1>5, <2>1 DEF FromPath
<1>9. PICK p : /\ IsPermutation(p, T)
               /\ build_path(s2, path, L) = [i \in 1 .. T |-> s2[p[i]]]
               /\ FromPath([i \in 1 .. T |-> s2[p[i]]], path, L)
  <2>1. Rebuilt(s2, path, L, T)
    BY <1>1, <1>5, <1>7, <1>8, BuildPathIs
  <2> QED BY <2>1 DEF Rebuilt
<1> DEFINE s3 == [i \in 1 .. T |-> s2[p[i]]]
<1>10. /\ \A i \in 1 .. T : p[i] \in 1 .. T
       /\ \A i, j \in 1 .. T : p[i] = p[j] => i = j
       /\ \A j \in 1 .. T : \E i \in 1 .. T : p[i] = j
  BY <1>9 DEF IsPermutation
<1>11. /\ s3 \in [1 .. T -> X] /\ \A i \in 1 .. T : s3[i] = s2[p[i]]
       /\ FromPath(s3, path, L)
  BY <1>5, <1>9, <1>10
<1> DEFINE o2 == write_path(o, path, L, s3)
<1>12. oram_access(o, L, r, new, data) = [abort |-> FALSE, o |-> o2]
  BY <1>6, <1>9
<1> HIDE DEF s3
<1>13. o2 \in Oram(I, D, L, V) /\ ReadFrom(s3, o2, path, L, V) /\ OffPathSame(o2, o, path, L, V)
  BY <1>11, WrittenIs DEF path, X, T
<1> HIDE DEF o2
<1>14. /\ \A i \in 1 .. T : Val(o2, PlaceOf(path, L, i)) = s3[i]
       /\ \A x \in Places(L, V) : OffPath(x, path, L) => Val(o2, x) = Val(o, x)
  BY <1>13 DEF ReadFrom, OffPathSame, T
<1>15. \A i \in 1 .. T : PlaceOf(path, L, i) \in Places(L, V) /\ ~OffPath(PlaceOf(path, L, i), path, L)
  BY PlaceOfType, PlaceOnPath DEF T, path
<1>16. ASSUME NEW x \in Places(L, V), ~OffPath(x, path, L)
       PROVE  \E i \in 1 .. T :
                /\ PlaceOf(path, L, i) = x
                /\ x[1] = -1 <=> ~(i <= BLOCKS_PER_BUCKET * L)
                /\ x[1] # -1 => path[(i - 1) \div BLOCKS_PER_BUCKET] = x[1]
  BY <1>16, PlaceOfAll DEF T, path
<1>17. ASSUME NEW i \in 1 .. T, NEW k \in 1 .. T, PlaceOf(path, L, i) = PlaceOf(path, L, k)
       PROVE  i = k
  BY <1>17, PlaceOfInjective DEF T, path
<1>18. InPlace(o2, L, V)
  <2> SUFFICES ASSUME NEW x \in Places(L, V), x[1] # -1, Val(o2, x).id # NoBlock
               PROVE  is_valid(x[1], Val(o2, x).position)
    BY DEF InPlace
  <2>1. CASE OffPath(x, path, L)
    BY <1>14, <2>1 DEF InPlace
  <2>2. CASE ~OffPath(x, path, L)
    <3>1. PICK i \in 1 .. T : /\ PlaceOf(path, L, i) = x /\ i <= BLOCKS_PER_BUCKET * L
                              /\ path[(i - 1) \div BLOCKS_PER_BUCKET] = x[1]
      BY <1>16, <2>2
    <3>2. i \in 1 .. BLOCKS_PER_BUCKET * L
      BY <1>1, <3>1
    <3>3. Val(o2, x) = s3[i]
      BY <1>14, <3>1
    <3> QED BY <1>11, <3>1, <3>2, <3>3 DEF FromPath
  <2> QED BY <2>1, <2>2
(* Where another block comes from, and where it goes. *)
<1>19. ASSUME NEW k \in I \ {id}, NEW i \in 1 .. T, at(i).id = k
       PROVE  \E j \in 1 .. T : s3[j] = at(i)
  <2>1. k # id /\ k # NoBlock
    BY StashAssumption
  <2>2. r.blocks[i] = at(i) /\ i # f
    BY <1>2, <1>4, <1>19, <2>1
  <2>3. PICK j \in 1 .. T : p[j] = i
    BY <1>10
  <2> QED BY <1>5, <1>11, <2>2, <2>3
<1>20. ASSUME NEW k \in I \ {id}, NEW i \in 1 .. T, s3[i].id = k
       PROVE  p[i] \in 1 .. T /\ at(p[i]) = s3[i]
  <2>1. k # id /\ k # NoBlock
    BY StashAssumption
  <2>2. p[i] \in 1 .. T /\ s3[i] = s2[p[i]] /\ p[i] # f
    BY <1>3, <1>5, <1>10, <1>11, <1>20, <2>1, SMTT(30)
  <2>3. s3[i] = r.blocks[p[i]]
    BY <1>5, <2>2
  <2>4. at(p[i]).id # id
    BY <1>2, <1>20, <2>1, <2>2, <2>3
  <2> QED BY <1>2, <2>2, <2>3, <2>4
<1>21. ASSUME NEW k \in I \ {id} PROVE SameFor(o, o2, L, V, k)
  <2>1. Copied(o, o2, L, V, k)
    <3> SUFFICES ASSUME NEW x \in Places(L, V), Val(o, x).id = k
                 PROVE  \E y \in Places(L, V) : Val(o2, y) = Val(o, x)
      BY DEF Copied
    <3>1. CASE OffPath(x, path, L)
      BY <1>14, <3>1
    <3>2. CASE ~OffPath(x, path, L)
      <4>1. PICK i \in 1 .. T : PlaceOf(path, L, i) = x
        BY <1>16, <3>2
      <4>2. PICK j \in 1 .. T : s3[j] = at(i)
        BY <1>19, <4>1
      <4>3. Val(o2, PlaceOf(path, L, j)) = Val(o, x) /\ PlaceOf(path, L, j) \in Places(L, V)
        BY <1>14, <1>15, <4>1, <4>2
      <4> QED BY <4>3
    <3> QED BY <3>1, <3>2
  <2>2. ASSUME NEW x \in Places(L, V), Val(o2, x).id = k, ~OffPath(x, path, L)
        PROVE  \E i \in 1 .. T : /\ PlaceOf(path, L, i) = x /\ p[i] \in 1 .. T
                                 /\ at(p[i]) = Val(o2, x)
    <3>1. PICK i \in 1 .. T : PlaceOf(path, L, i) = x
      BY <1>16, <2>2
    <3>2. s3[i].id = k /\ Val(o2, x) = s3[i]
      BY <1>14, <2>2, <3>1
    <3> QED BY <1>20, <3>1, <3>2
  <2>3. Copied(o2, o, L, V, k)
    <3> SUFFICES ASSUME NEW x \in Places(L, V), Val(o2, x).id = k
                 PROVE  \E y \in Places(L, V) : Val(o, y) = Val(o2, x)
      BY DEF Copied
    <3>1. CASE OffPath(x, path, L)
      BY <1>14, <3>1
    <3>2. CASE ~OffPath(x, path, L)
      BY <1>15, <2>2, <3>2
    <3> QED BY <3>1, <3>2
  <2>4. ASSUME Single(o, L, V, k) PROVE Single(o2, L, V, k)
    <3> SUFFICES ASSUME NEW x \in Places(L, V), NEW y \in Places(L, V),
                        Val(o2, x).id = k, Val(o2, y).id = k
                 PROVE  x = y
      BY DEF Single
    <3>1. \A u, v \in Places(L, V) : Val(o, u).id = k /\ Val(o, v).id = k => u = v
      BY <2>4 DEF Single
    <3>2. CASE OffPath(x, path, L) /\ OffPath(y, path, L)
      <4>1. Val(o, x).id = k /\ Val(o, y).id = k
        BY <1>14, <3>2
      <4> QED BY <3>1, <4>1
    <3>3. CASE OffPath(x, path, L) /\ ~OffPath(y, path, L)
      <4>1. PICK j \in 1 .. T : p[j] \in 1 .. T /\ at(p[j]) = Val(o2, y)
        BY <2>2, <3>3
      <4>2. Val(o, x).id = k /\ Val(o, PlaceOf(path, L, p[j])).id = k
        BY <1>14, <3>3, <4>1
      <4>3. x = PlaceOf(path, L, p[j])
        BY <1>15, <3>1, <4>1, <4>2
      <4> QED BY <1>15, <3>3, <4>1, <4>3
    <3>4. CASE ~OffPath(x, path, L) /\ OffPath(y, path, L)
      <4>1. PICK j \in 1 .. T : p[j] \in 1 .. T /\ at(p[j]) = Val(o2, x)
        BY <2>2, <3>4
      <4>2. Val(o, y).id = k /\ Val(o, PlaceOf(path, L, p[j])).id = k
        BY <1>14, <3>4, <4>1
      <4>3. y = PlaceOf(path, L, p[j])
        BY <1>15, <3>1, <4>1, <4>2
      <4> QED BY <1>15, <3>4, <4>1, <4>3
    <3>5. CASE ~OffPath(x, path, L) /\ ~OffPath(y, path, L)
      <4>1. PICK i \in 1 .. T : /\ PlaceOf(path, L, i) = x /\ p[i] \in 1 .. T
                                /\ at(p[i]) = Val(o2, x)
        BY <2>2, <3>5
      <4>2. PICK j \in 1 .. T : /\ PlaceOf(path, L, j) = y /\ p[j] \in 1 .. T
                                /\ at(p[j]) = Val(o2, y)
        BY <2>2, <3>5
      <4>3. PlaceOf(path, L, p[i]) = PlaceOf(path, L, p[j])
        BY <1>15, <3>1, <4>1, <4>2
      <4>4. p[i] = p[j]
        BY <1>17, <4>1, <4>2, <4>3
      <4>5. i = j
        BY <1>10, <4>4
      <4> QED BY <4>1, <4>2, <4>5
    <3> QED BY <3>2, <3>3, <3>4, <3>5
  <2> QED BY <2>1, <2>3, <2>4 DEF SameFor
<1>22. ASSUME Single(o, L, V, id), AtPosition(o, L, V, id, 2 * old),
              ReadFinds(r, o, L, V, id, unset)
       PROVE  /\ Single(o2, L, V, id) /\ \E x \in Places(L, V) : Val(o2, x).id = id
              /\ \A x \in Places(L, V) : Val(o2, x).id = id => Val(o2, x) = target
  <2>1. \A i \in 1 .. T : r.blocks[i].id # id
    BY <1>22 DEF ReadFinds, T
  <2>2. PICK g \in 1 .. T : p[g] = f
    BY <1>10
  <2>3. ASSUME NEW i \in 1 .. T, s3[i].id = id PROVE i = g /\ s3[i] = target
    <3>1. p[i] = f
      <4>1. p[i] \in 1 .. T /\ s3[i] = s2[p[i]]
        BY <1>10, <1>11
      <4>2. p[i] # f => s2[p[i]] = r.blocks[p[i]]
        BY <1>5, <4>1
      <4> QED BY <2>1, <2>3, <4>1, <4>2
    <3>2. i = g
      BY <1>10, <2>2, <3>1
    <3>3. s3[i] = s2[f]
      BY <1>11, <3>1
    <3> QED BY <1>5, <3>2, <3>3
  <2>4. s3[g] = target
    BY <1>5, <1>11, <2>2
  <2>5. ASSUME NEW x \in Places(L, V), Val(o2, x).id = id PROVE x = PlaceOf(path, L, g) /\ Val(o2, x) = target
    <3>1. ~OffPath(x, path, L)
      <4>1. SUFFICES ASSUME OffPath(x, path, L) PROVE FALSE
        OBVIOUS
      <4>2. Val(o, x).id = id /\ Val(o, x).position = 2 * old
        BY <1>14, <1>22, <2>5, <4>1 DEF AtPosition
      <4>3. ~OffPath(x, tree_path_update(L, 2 * old), L)
        BY <1>3, <4>2, OnThePath
      <4> QED BY <4>1, <4>3 DEF path
    <3>2. PICK i \in 1 .. T : PlaceOf(path, L, i) = x
      BY <1>16, <3>1
    <3> QED BY <1>14, <2>3, <2>5, <3>2
  <2>6. Single(o2, L, V, id)
    BY <2>5 DEF Single
  <2>7. Val(o2, PlaceOf(path, L, g)).id = id /\ PlaceOf(path, L, g) \in Places(L, V)
    BY <1>3, <1>14, <1>15, <2>4
  <2> QED BY <2>5, <2>6, <2>7
<1>23. AccessOK(oram_access(o, L, r, new, data), o, L, V, I, D, id)
  BY <1>12, <1>13, <1>18, <1>21 DEF AccessOK
<1>24. /\ Single(o, L, V, id) /\ AtPosition(o, L, V, id, 2 * old)
       /\ ReadFinds(r, o, L, V, id, unset)
       => AccessPuts(oram_access(o, L, r, new, data), L, V, id, new, data)
  BY <1>12, <1>22 DEF AccessPuts, target
<1> QED BY <1>12, <1>23, <1>24

-----------------------------------------------------------------------------
(* The inductive invariant.  MapData is what a block of the position map    *)
(* may hold: all ones only once its block has been given up.                *)
MapData == [0 .. ENTRIES_PER_BLOCK - 1 -> Positions(PATH_LENGTH) \cup {ALL_ONES}]
GoodData == [0 .. ENTRIES_PER_BLOCK - 1 -> Positions(PATH_LENGTH)]
OramData == Vals \cup {Unset}
OramPlaces == Places(PATH_LENGTH, OVERFLOW)
MapPlaces == Places(PATH_LENGTH_0, OVERFLOW_0)

(* A block of the position map that was never given up exists once, at the  *)
(* position that is scanned for, and holds positions of the tree.           *)
MapOK(pm, sc, mb) ==
    /\ Single(pm, PATH_LENGTH_0, OVERFLOW_0, mb)
    /\ AtPosition(pm, PATH_LENGTH_0, OVERFLOW_0, mb, 2 * sc[mb])
    /\ \E x \in MapPlaces : Val(pm, x).id = mb
    /\ \A x \in MapPlaces : Val(pm, x).id = mb => Val(pm, x).data \in GoodData

(* Blocks of the position map are given up as a whole, and only after they  *)
(* have been created.                                                       *)
MapInv(pm, sc, cr, um) ==
    \A mb \in MapBlocks :
        /\ covered(mb) \cap um = {} \/ covered(mb) \subseteq um
        /\ mb < cr /\ covered(mb) \cap um = {} => MapOK(pm, sc, mb)
        /\ ~(mb < cr) => /\ covered(mb) \cap um = {}
                         /\ \A x \in MapPlaces : Val(pm, x).id # mb

MapState(pm, sc, cr, um) ==
    /\ pm \in Oram(MapBlocks, MapData, PATH_LENGTH_0, OVERFLOW_0)
    /\ sc \in [MapBlocks -> Positions(PATH_LENGTH_0)]
    /\ cr \in 0 .. Cardinality(MapBlocks) /\ um \in SUBSET Blocks
    /\ InPlace(pm, PATH_LENGTH_0, OVERFLOW_0)
    /\ MapInv(pm, sc, cr, um)

(* A block that was never given up exists at most once, at the position of  *)
(* its entry in the map.                                                    *)
BlockOK(o, pm, id) ==
    /\ Single(o, PATH_LENGTH, OVERFLOW, id)
    /\ \A x \in OramPlaces, y \in MapPlaces :
          Val(o, x).id = id /\ Val(pm, y).id = id \div ENTRIES_PER_BLOCK
          => Val(o, x).position = 2 * Val(pm, y).data[id % ENTRIES_PER_BLOCK]

BlockState(o, pm, bad) ==
    /\ o \in Oram(Blocks, OramData, PATH_LENGTH, OVERFLOW)
    /\ InPlace(o, PATH_LENGTH, OVERFLOW)
    /\ \A id \in Blocks \ bad : BlockOK(o, pm, id)

(* Nothing is stored before the map is complete. *)
CreateInv == created \in MapBlocks => \A x \in OramPlaces : Val(oram, x).id = NoBlock

OramIInv ==
    /\ TypeOK /\ MapState(posmap, scan, created, unmapped)
    /\ BlockState(oram, posmap, lost \cup unmapped)
    /\ CreateInv /\ PathInTree

(* Each block is covered by one block of the position map. *)
LEMMA MapBlocksIs ==
    /\ MapBlocks \in SUBSET Nat /\ Blocks \in SUBSET Nat
    /\ \E M \in Nat \ {0} : MapBlocks = 0 .. M - 1 /\ Cardinality(MapBlocks) = M
    /\ \A id \in Blocks : /\ id \div ENTRIES_PER_BLOCK \in MapBlocks
                          /\ id \in covered(id \div ENTRIES_PER_BLOCK)
                          /\ id % ENTRIES_PER_BLOCK \in 0 .. ENTRIES_PER_BLOCK - 1
    /\ \A mb \in MapBlocks : covered(mb) # {}
<1>1. PICK E \in Nat \ {0} : E = ENTRIES_PER_BLOCK
  BY PathOramAssumption
<1>2. PICK N \in Nat \ {0} : N = NUM_BLOCKS
  BY PathOramAssumption
<1>3. N + E - 1 \in Nat
  OBVIOUS
<1>4. PICK M, s \in Nat : M = (N + E - 1) \div E /\ s < E /\ N + E - 1 = E * M + s
  BY <1>3, DivMod
<1>5. M # 0
  BY <1>4
<1>6. MapBlocks = 0 .. M - 1 /\ Blocks = 0 .. N - 1
  BY <1>1, <1>2, <1>4 DEF MapBlocks, Blocks
<1>7. Cardinality(0 .. M - 1) = M
  <2>1. 0 \in Int /\ M - 1 \in Int
    OBVIOUS
  <2>2. Cardinality(0 .. M - 1) = IF 0 > M - 1 THEN 0 ELSE (M - 1) - 0 + 1
    BY <2>1, FS_Interval
  <2> QED BY <1>5, <2>2
<1>8. ASSUME NEW id \in Blocks
      PROVE  /\ id \div E \in MapBlocks /\ id \in covered(id \div E) /\ id % E \in 0 .. E - 1
  <2>1. id \in Nat /\ id <= N - 1
    BY <1>6
  <2>2. PICK q, r \in Nat : q = id \div E /\ r = id % E /\ r < E /\ id = E * q + r
    BY <2>1, DivMod
  <2>3. q < M
    <3>1. SUFFICES ASSUME M <= q PROVE FALSE
      OBVIOUS
    <3>2. E * M <= E * q /\ E * M \in Nat /\ E * q \in Nat
      BY <3>1
    <3> QED BY <1>4, <2>1, <2>2, <3>2
  <2> QED BY <1>1, <1>6, <2>2, <2>3 DEF covered
<1>9. ASSUME NEW mb \in MapBlocks PROVE covered(mb) # {}
  <2>1. mb \in Nat /\ mb + 1 <= M
    BY <1>6
  <2>2. E * (mb + 1) <= E * M /\ E * (mb + 1) = E * mb + E /\ E * mb \in Nat /\ E * M \in Nat
    BY <2>1
  <2>3. PICK id \in Nat : id = E * mb /\ id < N
    BY <1>4, <2>2
  <2>4. id \div E = mb
    <3>1. (E * mb + 0) \div E = mb
      BY <2>1, DivModIs
    <3>2. E * mb + 0 = id
      BY <2>3
    <3> QED BY <3>1, <3>2
  <2>5. id \in Blocks
    BY <1>6, <2>3
  <2>6. id \in covered(mb)
    BY <1>1, <2>4, <2>5 DEF covered
  <2> QED BY <2>6
<1>10. MapBlocks \in SUBSET Nat /\ Blocks \in SUBSET Nat
  BY <1>6
<1>11. \E m \in Nat \ {0} : MapBlocks = 0 .. m - 1 /\ Cardinality(MapBlocks) = m
  BY <1>5, <1>6, <1>7
<1> QED BY <1>1, <1>8, <1>9, <1>10, <1>11

(* Two blocks that share a block of the map have different entries. *)
LEMMA EntriesDiffer ==
    ASSUME NEW id \in Blocks, NEW k \in Blocks, k # id,
           k \div ENTRIES_PER_BLOCK = id \div ENTRIES_PER_BLOCK
    PROVE  k % ENTRIES_PER_BLOCK # id % ENTRIES_PER_BLOCK
<1>1. PICK E \in Nat \ {0} : E = ENTRIES_PER_BLOCK
  BY PathOramAssumption
<1>2. id \in Nat /\ k \in Nat
  BY MapBlocksIs
<1>3. PICK q, r \in Nat : q = id \div E /\ r = id % E /\ id = E * q + r
  BY <1>2, DivMod
<1>4. PICK u, v \in Nat : u = k \div E /\ v = k % E /\ k = E * u + v
  BY <1>2, DivMod
<1> QED BY <1>1, <1>3, <1>4

(* A new ORAM has no blocks. *)
LEMMA NewOramIs ==
    ASSUME NEW I, NEW D, NEW L, NEW V
    PROVE  /\ new_oram(L, V) \in Oram(I, D, L, V)
           /\ \A x \in Places(L, V) : Val(new_oram(L, V), x) = Empty
<1> DEFINE o == new_oram(L, V)
<1>1. /\ o.buckets = [b \in 0 .. tree_path_num_nodes(L) - 1 |-> [i \in 1 .. BLOCKS_PER_BUCKET |-> Empty]]
      /\ o.overflow = [i \in 1 .. V |-> Empty]
  BY DEF new_oram, empty_blocks
<1>2. o \in Oram(I, D, L, V)
  <2>1. Empty \in Block(I, D, L)
    BY DEF Block
  <2>2. o = [buckets |-> o.buckets, overflow |-> o.overflow]
    BY DEF new_oram
  <2> HIDE DEF o
  <2>3. o.overflow \in [1 .. V -> Block(I, D, L)]
    BY <1>1, <2>1
  <2>4. o.buckets \in [0 .. tree_path_num_nodes(L) - 1 -> [1 .. BLOCKS_PER_BUCKET -> Block(I, D, L)]]
    <3>1. [i \in 1 .. BLOCKS_PER_BUCKET |-> Empty] \in [1 .. BLOCKS_PER_BUCKET -> Block(I, D, L)]
      BY <2>1
    <3> QED BY <1>1, <3>1
  <2> QED BY <2>2, <2>3, <2>4 DEF Oram
<1>3. ASSUME NEW x \in Places(L, V) PROVE Val(o, x) = Empty
  <2>1. \/ x[1] = -1 /\ x[2] \in 1 .. V
        \/ /\ x[1] \in 0 .. tree_path_num_nodes(L) - 1 /\ x[1] # -1
           /\ x[2] \in 1 .. BLOCKS_PER_BUCKET
    BY PlaceIs
  <2> HIDE DEF o
  <2> QED BY <1>1, <2>1 DEF Val
<1> QED BY <1>2, <1>3

(* A block that is nowhere is in no two places. *)
LEMMA NoneIsSingle ==
    ASSUME NEW o, NEW L, NEW V, NEW k, \A x \in Places(L, V) : Val(o, x).id # k
    PROVE  Single(o, L, V, k) /\ \A q : AtPosition(o, L, V, k, q)
  BY DEF Single, AtPosition

(* An ORAM without blocks has none off its path. *)
LEMMA EmptyInPlace ==
    ASSUME NEW o, NEW L, NEW V, \A x \in Places(L, V) : Val(o, x).id = NoBlock
    PROVE  InPlace(o, L, V)
  BY DEF InPlace

(* A whole access: the block is read from its old position and, with room   *)
(* in the stash, put back with a new one.                                   *)
LEMMA WholeAccess ==
    ASSUME NEW L \in Nat \ {0}, NEW V \in Nat, NEW I \in SUBSET Nat, NEW D,
           NEW o \in Oram(I, D, L, V), NEW old \in Positions(L), NEW id \in I, NEW unset \in D,
           NEW new \in Positions(L), NEW data \in D, NEW r, NEW a,
           InPlace(o, L, V), r = read_block(o, L, old, id, unset),
           a = oram_access(o, L, r, new, data)
    PROVE  /\ AccessOK(a, o, L, V, I, D, id)
           /\ Single(o, L, V, id) /\ AtPosition(o, L, V, id, 2 * old) /\ ~a.abort
                => AccessPuts(a, L, V, id, new, data)
<1>1. /\ ReadOK(r, o, L, V, I, D, old, id, unset)
      /\ Single(o, L, V, id) /\ AtPosition(o, L, V, id, 2 * old) => ReadFinds(r, o, L, V, id, unset)
  BY ReadIs
<1>2. CASE free_overflow(r.blocks, BLOCKS_PER_BUCKET * L) = {}
  <2>1. AccessOK(oram_access(o, L, r, new, data), o, L, V, I, D, id)
        /\ oram_access(o, L, r, new, data).abort
    BY <1>1, <1>2, AbortKeeps
  <2> QED BY <2>1
<1>3. CASE free_overflow(r.blocks, BLOCKS_PER_BUCKET * L) # {}
  <2>1. /\ AccessOK(oram_access(o, L, r, new, data), o, L, V, I, D, id)
        /\ /\ Single(o, L, V, id) /\ AtPosition(o, L, V, id, 2 * old)
           /\ ReadFinds(r, o, L, V, id, unset)
           => AccessPuts(oram_access(o, L, r, new, data), L, V, id, new, data)
    BY <1>1, <1>3, AccessKeeps
  <2> QED BY <1>1, <2>1
<1> QED BY <1>2, <1>3

(* What the caller of an access is given. *)
LEMMA WholeRead ==
    ASSUME NEW L \in Nat \ {0}, NEW V \in Nat, NEW I \in SUBSET Nat, NEW D,
           NEW o \in Oram(I, D, L, V), NEW old \in Positions(L), NEW id \in I, NEW unset \in D,
           NEW r, InPlace(o, L, V), r = read_block(o, L, old, id, unset)
    PROVE  /\ r.data \in D
           /\ Single(o, L, V, id) /\ AtPosition(o, L, V, id, 2 * old)
                => ReadFinds(r, o, L, V, id, unset)
<1>1. /\ ReadOK(r, o, L, V, I, D, old, id, unset)
      /\ Single(o, L, V, id) /\ AtPosition(o, L, V, id, 2 * old) => ReadFinds(r, o, L, V, id, unset)
  BY ReadIs
<1>2. r.data \in D
  BY <1>1 DEF ReadOK
<1> QED BY <1>1, <1>2

(* The overflow count is at most the capacity of the overflow. *)
LEMMA CollectType ==
    ASSUME NEW I, NEW D, NEW L, NEW o \in Oram(I, D, L, OVERFLOW),
           stats \in [stash_overflow_count : 0 .. OVERFLOW, max_stash_overflow_count : 0 .. OVERFLOW]
    PROVE  collect(o) \in [stash_overflow_count : 0 .. OVERFLOW,
                           max_stash_overflow_count : 0 .. OVERFLOW]
<1>1. PICK V \in Nat : V = OVERFLOW
  BY PathOramAssumption
<1>2. o.overflow \in [1 .. V -> Block(I, D, L)]
  BY <1>1, OramIs
<1> DEFINE S == {i \in DOMAIN o.overflow : o.overflow[i].id # NoBlock}
<1>3. S \in SUBSET (1 .. V)
  BY <1>2
<1>4. IsFiniteSet(1 .. V) /\ Cardinality(1 .. V) = V
  <2>1. 1 \in Int /\ V \in Int
    OBVIOUS
  <2>2. IsFiniteSet(1 .. V) /\ Cardinality(1 .. V) = IF 1 > V THEN 0 ELSE V - 1 + 1
    BY <2>1, FS_Interval
  <2> QED BY <2>2
<1>5. num_nonempty(o.overflow) = Cardinality(S)
  BY DEF num_nonempty
<1> HIDE DEF S
<1>6. IsFiniteSet(S) /\ Cardinality(S) <= V
  BY <1>3, <1>4, FS_Subset
<1>7. Cardinality(S) \in Nat
  BY <1>6, FS_CardinalityType
<1>8. PICK n \in 0 .. V : n = num_nonempty(o.overflow)
  BY <1>5, <1>6, <1>7
<1>9. PICK m \in 0 .. V : m = stats.max_stash_overflow_count
  BY <1>1
<1>10. Max({n, m}) \in {n, m}
  <2>1. {n, m} \in SUBSET Nat /\ {n, m} # {} /\ \A x \in {n, m} : x <= V
    OBVIOUS
  <2> QED BY <2>1, MaxOf
<1>11. collect(o) = [stash_overflow_count |-> n, max_stash_overflow_count |-> Max({n, m})]
  BY <1>8, <1>9 DEF collect
<1> QED BY <1>1, <1>10, <1>11

(* A step of the position map, seen from its other blocks. *)
LEMMA MapOKSame ==
    ASSUME NEW pm, NEW pm2, NEW sc, NEW sc2, NEW k,
           SameFor(pm, pm2, PATH_LENGTH_0, OVERFLOW_0, k), sc2[k] = sc[k], MapOK(pm, sc, k)
    PROVE  MapOK(pm2, sc2, k)
<1>1. /\ \A x \in MapPlaces : Val(pm, x).id = k => \E y \in MapPlaces : Val(pm2, y) = Val(pm, x)
      /\ \A x \in MapPlaces : Val(pm2, x).id = k => \E y \in MapPlaces : Val(pm, y) = Val(pm2, x)
      /\ Single(pm2, PATH_LENGTH_0, OVERFLOW_0, k)
  BY DEF SameFor, Copied, MapOK, MapPlaces
<1>2. /\ \A x \in MapPlaces : Val(pm, x).id = k => Val(pm, x).position = 2 * sc[k]
      /\ \E x \in MapPlaces : Val(pm, x).id = k
      /\ \A x \in MapPlaces : Val(pm, x).id = k => Val(pm, x).data \in GoodData
  BY DEF MapOK, AtPosition, MapPlaces
<1>3. \E x \in MapPlaces : Val(pm2, x).id = k
  BY <1>1, <1>2
<1>4. ASSUME NEW x \in MapPlaces, Val(pm2, x).id = k
      PROVE  Val(pm2, x).position = 2 * sc2[k] /\ Val(pm2, x).data \in GoodData
  BY <1>1, <1>2, <1>4
<1>5. AtPosition(pm2, PATH_LENGTH_0, OVERFLOW_0, k, 2 * sc2[k])
  BY <1>4 DEF AtPosition, MapPlaces
<1> QED BY <1>1, <1>3, <1>4, <1>5 DEF MapOK

(* A block of the map that was put with good data is in order. *)
LEMMA MapOKPut ==
    ASSUME NEW a, NEW sc2, NEW mb, NEW d \in GoodData,
           AccessPuts(a, PATH_LENGTH_0, OVERFLOW_0, mb, sc2[mb], d)
    PROVE  MapOK(a.o, sc2, mb)
<1>1. ASSUME NEW x \in MapPlaces, Val(a.o, x).id = mb
      PROVE  Val(a.o, x).position = 2 * sc2[mb] /\ Val(a.o, x).data = d
  <2>1. Val(a.o, x) = [id |-> mb, position |-> 2 * sc2[mb], data |-> d]
    BY <1>1 DEF AccessPuts, MapPlaces
  <2> QED BY <2>1
<1>2. AtPosition(a.o, PATH_LENGTH_0, OVERFLOW_0, mb, 2 * sc2[mb])
  BY <1>1 DEF AtPosition, MapPlaces
<1>3. Single(a.o, PATH_LENGTH_0, OVERFLOW_0, mb) /\ \E x \in MapPlaces : Val(a.o, x).id = mb
  BY DEF AccessPuts, MapPlaces
<1> QED BY <1>1, <1>2, <1>3 DEF MapOK

(* A block of the map that is nowhere stays nowhere. *)
LEMMA NoneSame ==
    ASSUME NEW pm, NEW pm2, NEW k, SameFor(pm, pm2, PATH_LENGTH_0, OVERFLOW_0, k),
           \A x \in MapPlaces : Val(pm, x).id # k
    PROVE  \A x \in MapPlaces : Val(pm2, x).id # k
  BY DEF SameFor, Copied, MapPlaces

(* Giving up the blocks of one block of the map gives up no others. *)
LEMMA CoveredApart ==
    ASSUME NEW mb, NEW k, k # mb, NEW um, NEW um2, um2 = um \/ um2 = um \cup covered(mb)
    PROVE  /\ covered(k) \cap um2 = {} <=> covered(k) \cap um = {}
           /\ covered(k) \subseteq um => covered(k) \subseteq um2
  BY DEF covered

(* All ones are data of the map, though not positions. *)
LEMMA MapUnset == map_unset \in MapData /\ GoodData \in SUBSET MapData
  BY DEF map_unset, MapData, GoodData

(* What an access of block mb of the position map does to it: d is put into *)
(* the block.  The map is being created, or complete.                       *)
MapStep(pm, sc, cr, um, mb, new_0, d, r, m, sc2, cr2, um2) ==
    /\ mb \in MapBlocks /\ new_0 \in Positions(PATH_LENGTH_0) /\ d \in MapData
    /\ r = read_block(pm, PATH_LENGTH_0, sc[mb], mb, map_unset)
    /\ m = oram_access(pm, PATH_LENGTH_0, r, new_0, d)
    /\ sc2 = [sc EXCEPT ![mb] = new_0]
    /\ (cr2 = cr /\ mb < cr) \/ (cr2 = cr + 1 /\ mb = cr)
    /\ um2 = IF m.abort THEN um \cup covered(mb) ELSE um
    /\ covered(mb) \cap um = {} => d \in GoodData

(* A block of the position map is accessed: the state of the map is kept,   *)
(* if what is put into a block that was never given up are positions.       *)
LEMMA MapAccess ==
    ASSUME NEW pm, NEW sc, NEW cr, NEW um, NEW mb, NEW new_0, NEW d, NEW r, NEW m,
           NEW sc2, NEW cr2, NEW um2, MapState(pm, sc, cr, um),
           MapStep(pm, sc, cr, um, mb, new_0, d, r, m, sc2, cr2, um2)
    PROVE  /\ AccessOK(m, pm, PATH_LENGTH_0, OVERFLOW_0, MapBlocks, MapData, mb)
           /\ MapState(m.o, sc2, cr2, um2)
           /\ covered(mb) \cap um = {} /\ ~m.abort =>
                 AccessPuts(m, PATH_LENGTH_0, OVERFLOW_0, mb, new_0, d)
<1> DEFINE L == PATH_LENGTH_0
           V == OVERFLOW_0
<1>0. /\ mb \in MapBlocks /\ new_0 \in Positions(L) /\ d \in MapData
      /\ r = read_block(pm, L, sc[mb], mb, map_unset) /\ m = oram_access(pm, L, r, new_0, d)
      /\ (cr2 = cr /\ mb < cr) \/ (cr2 = cr + 1 /\ mb = cr)
      /\ covered(mb) \cap um = {} => d \in GoodData
  BY DEF MapStep
<1>20. sc2 = [sc EXCEPT ![mb] = new_0] /\ um2 = IF m.abort THEN um \cup covered(mb) ELSE um
  BY DEF MapStep
<1>1. /\ L \in Nat \ {0} /\ V \in Nat /\ MapBlocks \in SUBSET Nat
  BY PathOramAssumption, MapBlocksIs
<1>2. /\ pm \in Oram(MapBlocks, MapData, L, V) /\ sc[mb] \in Positions(L) /\ InPlace(pm, L, V)
      /\ sc \in [MapBlocks -> Positions(L)] /\ cr \in 0 .. Cardinality(MapBlocks)
      /\ um \in SUBSET Blocks /\ MapInv(pm, sc, cr, um)
  BY <1>0 DEF MapState
<1>3. map_unset \in MapData
  BY MapUnset
<1>4. /\ AccessOK(m, pm, L, V, MapBlocks, MapData, mb)
      /\ Single(pm, L, V, mb) /\ AtPosition(pm, L, V, mb, 2 * sc[mb]) /\ ~m.abort
           => AccessPuts(m, L, V, mb, new_0, d)
  BY <1>0, <1>1, <1>2, <1>3, WholeAccess
<1>5. /\ m.abort \in BOOLEAN /\ m.o \in Oram(MapBlocks, MapData, L, V) /\ InPlace(m.o, L, V)
      /\ \A k \in MapBlocks \ {mb} : SameFor(pm, m.o, L, V, k)
  BY <1>4 DEF AccessOK
<1>6. sc2 \in [MapBlocks -> Positions(L)] /\ sc2[mb] = new_0
      /\ \A k \in MapBlocks : k # mb => sc2[k] = sc[k]
  BY <1>0, <1>20, <1>2
<1>7. PICK M \in Nat : MapBlocks = 0 .. M - 1 /\ Cardinality(MapBlocks) = M
  BY MapBlocksIs
<1>8. /\ cr2 \in 0 .. Cardinality(MapBlocks) /\ mb < cr2 /\ cr \in Nat
      /\ \A k \in MapBlocks : k # mb => (k < cr2 <=> k < cr)
  BY <1>0, <1>2, <1>7
<1>9. um2 \in SUBSET Blocks /\ (um2 = um \/ um2 = um \cup covered(mb))
  BY <1>20, <1>2, <1>5 DEF covered
<1>10. covered(mb) \cap um = {} => /\ Single(pm, L, V, mb) /\ AtPosition(pm, L, V, mb, 2 * sc[mb])
  <2>1. CASE mb < cr
    BY <1>0, <1>2, <2>1 DEF MapInv, MapOK
  <2>2. CASE ~(mb < cr)
    <3>1. \A x \in MapPlaces : Val(pm, x).id # mb
      BY <1>0, <1>2, <2>2 DEF MapInv
    <3> QED BY <3>1, NoneIsSingle DEF MapPlaces
  <2> QED BY <2>1, <2>2
<1>11. covered(mb) \cap um = {} /\ ~m.abort => AccessPuts(m, L, V, mb, new_0, d)
  BY <1>4, <1>10
<1>12. ASSUME NEW k \in MapBlocks
       PROVE  /\ covered(k) \cap um2 = {} \/ covered(k) \subseteq um2
              /\ k < cr2 /\ covered(k) \cap um2 = {} => MapOK(m.o, sc2, k)
              /\ ~(k < cr2) => /\ covered(k) \cap um2 = {}
                               /\ \A x \in MapPlaces : Val(m.o, x).id # k
  <2>0. /\ covered(k) \cap um = {} \/ covered(k) \subseteq um
        /\ k < cr /\ covered(k) \cap um = {} => MapOK(pm, sc, k)
        /\ ~(k < cr) => /\ covered(k) \cap um = {}
                        /\ \A x \in MapPlaces : Val(pm, x).id # k
    BY <1>2 DEF MapInv
  <2>1. CASE k # mb
    <3>1. SameFor(pm, m.o, L, V, k) /\ sc2[k] = sc[k] /\ (k < cr2 <=> k < cr)
      BY <1>5, <1>6, <1>8, <2>1
    <3>2. /\ covered(k) \cap um2 = {} <=> covered(k) \cap um = {}
          /\ covered(k) \subseteq um => covered(k) \subseteq um2
      BY <1>9, <2>1 DEF covered
    <3>3. k < cr2 /\ covered(k) \cap um2 = {} => MapOK(m.o, sc2, k)
      BY <2>0, <3>1, <3>2, MapOKSame
    <3>4. ~(k < cr2) => \A x \in MapPlaces : Val(m.o, x).id # k
      BY <2>0, <3>1, NoneSame
    <3> QED BY <2>0, <3>1, <3>2, <3>3, <3>4
  <2>2. CASE k = mb /\ m.abort
    <3>1. covered(mb) # {} /\ covered(mb) \subseteq um2 /\ covered(mb) \cap um2 # {}
      BY <1>0, <1>20, <2>2, MapBlocksIs
    <3> QED BY <1>8, <2>2, <3>1
  <2>3. CASE k = mb /\ ~m.abort
    <3>1. um2 = um
      BY <1>20, <2>3
    <3>2. ASSUME covered(mb) \cap um = {} PROVE MapOK(m.o, sc2, mb)
      <4>1. d \in GoodData /\ AccessPuts(m, L, V, mb, sc2[mb], d)
        BY <1>0, <1>6, <1>11, <2>3, <3>2
      <4> QED BY <4>1, MapOKPut
    <3> QED BY <1>8, <2>0, <2>3, <3>1, <3>2
  <2> QED BY <1>5, <2>1, <2>2, <2>3
<1>13. MapInv(m.o, sc2, cr2, um2)
  BY <1>12 DEF MapInv
<1>14. MapState(m.o, sc2, cr2, um2)
  BY <1>5, <1>6, <1>8, <1>9, <1>13 DEF MapState
<1> QED BY <1>4, <1>11, <1>14

(* The entry of a block is as it was; the entry of a block is p. *)
EntryKept(pm, pm2, k) ==
    \A z \in MapPlaces : Val(pm2, z).id = k \div ENTRIES_PER_BLOCK =>
        \E y \in MapPlaces : /\ Val(pm, y).id = k \div ENTRIES_PER_BLOCK
                             /\ Val(pm, y).data[k % ENTRIES_PER_BLOCK]
                                  = Val(pm2, z).data[k % ENTRIES_PER_BLOCK]
Mapped(pm, id, p) ==
    /\ \E y \in MapPlaces : Val(pm, y).id = id \div ENTRIES_PER_BLOCK
    /\ \A y \in MapPlaces : Val(pm, y).id = id \div ENTRIES_PER_BLOCK =>
          Val(pm, y).data[id % ENTRIES_PER_BLOCK] = p

(* write_partial_out changes one entry. *)
LEMMA EntrySet ==
    ASSUME NEW d \in MapData, NEW i \in 0 .. ENTRIES_PER_BLOCK - 1, NEW new \in Positions(PATH_LENGTH)
    PROVE  /\ set_entry(d, i, new) \in MapData /\ set_entry(d, i, new)[i] = new
           /\ d \in GoodData => set_entry(d, i, new) \in GoodData
           /\ \A j \in 0 .. ENTRIES_PER_BLOCK - 1 : j # i => set_entry(d, i, new)[j] = d[j]
  BY DEF set_entry, MapData, GoodData

(* Nothing changes without a step. *)
LEMMA SameForSelf ==
    ASSUME NEW o, NEW L, NEW V, NEW k
    PROVE  SameFor(o, o, L, V, k)
  BY DEF SameFor, Copied

(* The entries in the other blocks of the map are kept. *)
LEMMA EntryKeptOther ==
    ASSUME NEW pm, NEW pm2, NEW k,
           SameFor(pm, pm2, PATH_LENGTH_0, OVERFLOW_0, k \div ENTRIES_PER_BLOCK)
    PROVE  EntryKept(pm, pm2, k)
<1> SUFFICES ASSUME NEW z \in MapPlaces, Val(pm2, z).id = k \div ENTRIES_PER_BLOCK
             PROVE  \E y \in MapPlaces :
                        /\ Val(pm, y).id = k \div ENTRIES_PER_BLOCK
                        /\ Val(pm, y).data[k % ENTRIES_PER_BLOCK]
                             = Val(pm2, z).data[k % ENTRIES_PER_BLOCK]
  BY DEF EntryKept
<1>1. PICK y \in MapPlaces : Val(pm, y) = Val(pm2, z)
  BY DEF SameFor, Copied, MapPlaces
<1> QED BY <1>1

(* A block that keeps its copy and its entry is still in order. *)
LEMMA BlockOKKeeps ==
    ASSUME NEW o, NEW o2, NEW pm, NEW pm2, NEW k, BlockOK(o, pm, k), EntryKept(pm, pm2, k),
           SameFor(o, o2, PATH_LENGTH, OVERFLOW, k)
    PROVE  BlockOK(o2, pm2, k)
<1>1. Single(o2, PATH_LENGTH, OVERFLOW, k)
  BY DEF BlockOK, SameFor
<1>2. ASSUME NEW x \in OramPlaces, NEW z \in MapPlaces,
             Val(o2, x).id = k, Val(pm2, z).id = k \div ENTRIES_PER_BLOCK
      PROVE  Val(o2, x).position = 2 * Val(pm2, z).data[k % ENTRIES_PER_BLOCK]
  <2>1. PICK w \in OramPlaces : Val(o, w) = Val(o2, x)
    BY <1>2 DEF SameFor, Copied, OramPlaces
  <2>2. PICK y \in MapPlaces : /\ Val(pm, y).id = k \div ENTRIES_PER_BLOCK
                               /\ Val(pm, y).data[k % ENTRIES_PER_BLOCK]
                                    = Val(pm2, z).data[k % ENTRIES_PER_BLOCK]
    BY <1>2 DEF EntryKept
  <2>3. Val(o, w).position = 2 * Val(pm, y).data[k % ENTRIES_PER_BLOCK]
    BY <1>2, <2>1, <2>2 DEF BlockOK
  <2> QED BY <2>1, <2>2, <2>3
<1> QED BY <1>1, <1>2 DEF BlockOK

(* What the read of a block of the map gives. *)
MapFound(pm, um, mb, r) ==
    /\ r.data \in MapData
    /\ covered(mb) \cap um = {} =>
         /\ r.data \in GoodData
         /\ \E y \in MapPlaces : Val(pm, y).id = mb
         /\ \A y \in MapPlaces : Val(pm, y).id = mb => Val(pm, y).data = r.data

(* A block of the map that was never given up is found and holds positions. *)
LEMMA MapRead ==
    ASSUME NEW pm, NEW sc, NEW cr, NEW um, MapState(pm, sc, cr, um),
           NEW mb \in MapBlocks, mb < cr,
           NEW r, r = read_block(pm, PATH_LENGTH_0, sc[mb], mb, map_unset)
    PROVE  MapFound(pm, um, mb, r)
<1> DEFINE L == PATH_LENGTH_0
           V == OVERFLOW_0
<1>1. /\ L \in Nat \ {0} /\ V \in Nat /\ MapBlocks \in SUBSET Nat
  BY PathOramAssumption, MapBlocksIs
<1>2. /\ pm \in Oram(MapBlocks, MapData, L, V) /\ sc[mb] \in Positions(L) /\ InPlace(pm, L, V)
      /\ MapInv(pm, sc, cr, um)
  BY DEF MapState
<1>3. map_unset \in MapData
  BY MapUnset
<1>4. /\ r.data \in MapData
      /\ Single(pm, L, V, mb) /\ AtPosition(pm, L, V, mb, 2 * sc[mb])
           => ReadFinds(r, pm, L, V, mb, map_unset)
  BY <1>1, <1>2, <1>3, WholeRead
<1>5. ASSUME covered(mb) \cap um = {}
      PROVE  /\ r.data \in GoodData
             /\ \E y \in MapPlaces : Val(pm, y).id = mb
             /\ \A y \in MapPlaces : Val(pm, y).id = mb => Val(pm, y).data = r.data
  <2>1. MapOK(pm, sc, mb)
    BY <1>2, <1>5 DEF MapInv
  <2>2. ReadFinds(r, pm, L, V, mb, map_unset)
    BY <1>4, <2>1 DEF MapOK
  <2>3. \A y \in MapPlaces : Val(pm, y).id = mb => r.data = Val(pm, y).data
    BY <2>2 DEF ReadFinds, MapPlaces
  <2>4. PICK y \in MapPlaces : Val(pm, y).id = mb /\ Val(pm, y).data \in GoodData
    BY <2>1 DEF MapOK
  <2> QED BY <2>3, <2>4
<1> QED BY <1>4, <1>5 DEF MapFound

(* The positions of block id are exchanged. *)
ExchangeStep(pm, sc, um, id, new, new_0, mb, i, r, m, sc2, um2) ==
    /\ id \in Blocks /\ new \in Positions(PATH_LENGTH) /\ new_0 \in Positions(PATH_LENGTH_0)
    /\ mb = id \div ENTRIES_PER_BLOCK /\ i = id % ENTRIES_PER_BLOCK
    /\ r = read_block(pm, PATH_LENGTH_0, sc[mb], mb, map_unset)
    /\ m = oram_access(pm, PATH_LENGTH_0, r, new_0, set_entry(r.data, i, new))
    /\ sc2 = [sc EXCEPT ![mb] = new_0]
    /\ um2 = IF m.abort THEN um \cup covered(mb) ELSE um

(* An access of the position map exchanges the position of one block.  It   *)
(* finds all ones only for a block that was given up, and changes the entry *)
(* of no other block, one in the same block of the map included.            *)
LEMMA Exchange ==
    ASSUME NEW pm, NEW sc, NEW cr, NEW um, NEW id, NEW new, NEW new_0, NEW mb, NEW i,
           NEW r, NEW m, NEW sc2, NEW um2, MapState(pm, sc, cr, um), cr \notin MapBlocks,
           ExchangeStep(pm, sc, um, id, new, new_0, mb, i, r, m, sc2, um2)
    PROVE  /\ MapState(m.o, sc2, cr, um2)
           /\ m.abort \in BOOLEAN /\ um \in SUBSET um2 /\ (m.abort => id \in um2)
           /\ r.data[i] \in Positions(PATH_LENGTH) \cup {ALL_ONES}
           /\ r.data[i] = ALL_ONES => id \in um
           /\ id \notin um2 => Mapped(pm, id, r.data[i]) /\ Mapped(m.o, id, new)
           /\ \A k \in Blocks : k # id /\ k \notin um2 => EntryKept(pm, m.o, k)
<1>0. /\ id \in Blocks /\ new \in Positions(PATH_LENGTH) /\ new_0 \in Positions(PATH_LENGTH_0)
      /\ mb = id \div ENTRIES_PER_BLOCK /\ i = id % ENTRIES_PER_BLOCK
      /\ r = read_block(pm, PATH_LENGTH_0, sc[mb], mb, map_unset)
      /\ m = oram_access(pm, PATH_LENGTH_0, r, new_0, set_entry(r.data, i, new))
      /\ sc2 = [sc EXCEPT ![mb] = new_0]
      /\ um2 = IF m.abort THEN um \cup covered(mb) ELSE um
  BY DEF ExchangeStep
<1> DEFINE L == PATH_LENGTH_0
           V == OVERFLOW_0
           d == set_entry(r.data, i, new)
<1>1. mb \in MapBlocks /\ i \in 0 .. ENTRIES_PER_BLOCK - 1 /\ id \in covered(mb)
  BY <1>0, MapBlocksIs
<1>2. mb < cr
  <2>1. PICK M \in Nat : MapBlocks = 0 .. M - 1 /\ Cardinality(MapBlocks) = M
    BY MapBlocksIs
  <2>2. cr \in 0 .. M
    BY <2>1 DEF MapState
  <2> QED BY <1>1, <2>1, <2>2
<1>3. /\ r.data \in MapData
      /\ covered(mb) \cap um = {} =>
            /\ r.data \in GoodData
            /\ \E y \in MapPlaces : Val(pm, y).id = mb
            /\ \A y \in MapPlaces : Val(pm, y).id = mb => Val(pm, y).data = r.data
  <2>1. r = read_block(pm, L, sc[mb], mb, map_unset) /\ mb \in MapBlocks /\ mb < cr
    BY <1>0, <1>1, <1>2
  <2>2. MapFound(pm, um, mb, r)
    BY <2>1, MapRead
  <2> QED BY <2>2 DEF MapFound
<1>4. /\ d \in MapData /\ d[i] = new /\ (r.data \in GoodData => d \in GoodData)
      /\ \A j \in 0 .. ENTRIES_PER_BLOCK - 1 : j # i => d[j] = r.data[j]
  <2>1. r.data \in MapData /\ i \in 0 .. ENTRIES_PER_BLOCK - 1 /\ new \in Positions(PATH_LENGTH)
    BY <1>0, <1>1, <1>3
  <2> QED BY <2>1, EntrySet
<1>5. covered(mb) \cap um = {} => d \in GoodData
  BY <1>3, <1>4
<1> HIDE DEF d
<1>6. /\ AccessOK(m, pm, L, V, MapBlocks, MapData, mb)
      /\ MapState(m.o, sc2, cr, um2)
      /\ covered(mb) \cap um = {} /\ ~m.abort => AccessPuts(m, L, V, mb, new_0, d)
  <2>1. m = oram_access(pm, L, r, new_0, d)
    BY <1>0 DEF d
  <2>2. MapStep(pm, sc, cr, um, mb, new_0, d, r, m, sc2, cr, um2)
    BY <1>0, <1>1, <1>2, <1>4, <1>5, <2>1 DEF MapStep
  <2> QED BY <2>2, MapAccess
<1>7. /\ m.abort \in BOOLEAN /\ \A k \in MapBlocks \ {mb} : SameFor(pm, m.o, L, V, k)
  BY <1>6 DEF AccessOK
<1>8. /\ MapState(m.o, sc2, cr, um2)
      /\ um \in SUBSET um2 /\ (m.abort => id \in um2)
  BY <1>0, <1>1, <1>6
<1>9. ASSUME NEW k \in Blocks, k \notin um, k \div ENTRIES_PER_BLOCK = mb
      PROVE  covered(mb) \cap um = {}
  <2>1. covered(mb) \cap um = {} \/ covered(mb) \subseteq um
    BY <1>1 DEF MapState, MapInv
  <2>2. k \in covered(mb)
    BY <1>9 DEF covered
  <2> QED BY <1>9, <2>1, <2>2
<1>10. r.data[i] \in Positions(PATH_LENGTH) \cup {ALL_ONES}
  BY <1>1, <1>3 DEF MapData
<1>11. r.data[i] = ALL_ONES => id \in um
  <2>1. SUFFICES ASSUME id \notin um, r.data[i] = ALL_ONES PROVE FALSE
    OBVIOUS
  <2>2. r.data \in GoodData
    BY <1>0, <1>3, <1>9, <2>1
  <2>3. r.data[i] \in Positions(PATH_LENGTH)
    BY <1>1, <2>2 DEF GoodData
  <2> QED BY <2>1, <2>3, PathOramAssumption
<1>12. ASSUME AccessPuts(m, L, V, mb, new_0, d)
       PROVE  /\ \E y \in MapPlaces : Val(m.o, y).id = mb
              /\ \A y \in MapPlaces : Val(m.o, y).id = mb => Val(m.o, y).data = d
  <2>1. \E y \in MapPlaces : Val(m.o, y).id = mb
    BY <1>12 DEF AccessPuts, MapPlaces
  <2>2. ASSUME NEW y \in MapPlaces, Val(m.o, y).id = mb PROVE Val(m.o, y).data = d
    <3>1. Val(m.o, y) = [id |-> mb, position |-> 2 * new_0, data |-> d]
      BY <1>12, <2>2 DEF AccessPuts, MapPlaces
    <3> QED BY <3>1
  <2> QED BY <2>1, <2>2
<1>13. ASSUME id \notin um2 PROVE Mapped(pm, id, r.data[i]) /\ Mapped(m.o, id, new)
  <2>1. covered(mb) \cap um = {} /\ ~m.abort
    BY <1>0, <1>8, <1>9, <1>13
  <2>2. Mapped(pm, id, r.data[i])
    BY <1>0, <1>3, <2>1 DEF Mapped
  <2>3. Mapped(m.o, id, new)
    BY <1>0, <1>4, <1>6, <1>12, <2>1 DEF Mapped
  <2> QED BY <2>2, <2>3
<1>14. ASSUME NEW k \in Blocks, k # id, k \notin um2 PROVE EntryKept(pm, m.o, k)
  <2>1. CASE k \div ENTRIES_PER_BLOCK # mb
    <3>1. k \div ENTRIES_PER_BLOCK \in MapBlocks
      BY MapBlocksIs
    <3> QED BY <1>7, <2>1, <3>1, EntryKeptOther
  <2>2. CASE k \div ENTRIES_PER_BLOCK = mb
    <3>1. k \in covered(mb) /\ k \notin um
      BY <1>8, <1>14, <2>2 DEF covered
    <3>2. covered(mb) \cap um = {} /\ ~m.abort
      BY <1>0, <1>9, <1>14, <2>2, <3>1
    <3>3. k % ENTRIES_PER_BLOCK # i /\ k % ENTRIES_PER_BLOCK \in 0 .. ENTRIES_PER_BLOCK - 1
      BY <1>0, <1>14, <2>2, EntriesDiffer, MapBlocksIs
    <3>4. d[k % ENTRIES_PER_BLOCK] = r.data[k % ENTRIES_PER_BLOCK]
      BY <1>4, <3>3
    <3>5. PICK y \in MapPlaces : Val(pm, y).id = mb /\ Val(pm, y).data = r.data
      BY <1>3, <3>2
    <3>6. \A z \in MapPlaces : Val(m.o, z).id = mb => Val(m.o, z).data = d
      BY <1>6, <1>12, <3>2
    <3> QED BY <2>2, <3>4, <3>5, <3>6 DEF EntryKept
  <2> QED BY <2>1, <2>2
<1> QED BY <1>7, <1>8, <1>10, <1>11, <1>13, <1>14

(* Block id is accessed at the position that was in the map, while other    *)
(* blocks keep their entries.                                               *)
BlockStep(o, pm, bad, id, old, new, r, data, a, pm2, bad2) ==
    /\ id \in Blocks /\ old \in Positions(PATH_LENGTH) /\ new \in Positions(PATH_LENGTH)
    /\ data \in OramData
    /\ r = read_block(o, PATH_LENGTH, old, id, Unset)
    /\ a = oram_access(o, PATH_LENGTH, r, new, data)
    /\ \A k \in Blocks : k # id /\ k \notin bad => EntryKept(pm, pm2, k)
    /\ id \notin bad => Mapped(pm, id, old) /\ Mapped(pm2, id, new)
    /\ bad2 = IF a.abort THEN bad \cup {id} ELSE bad

(* The access finds the block if it was never given up, gives up no other   *)
(* one and leaves all blocks at the positions that the map now holds.       *)
LEMMA BlockAccess ==
    ASSUME NEW o, NEW pm, NEW bad, NEW id, NEW old, NEW new, NEW r, NEW data, NEW a, NEW pm2,
           NEW bad2, BlockState(o, pm, bad),
           BlockStep(o, pm, bad, id, old, new, r, data, a, pm2, bad2)
    PROVE  /\ AccessOK(a, o, PATH_LENGTH, OVERFLOW, Blocks, OramData, id)
           /\ BlockState(a.o, pm2, bad2)
           /\ id \notin bad => ReadFinds(r, o, PATH_LENGTH, OVERFLOW, id, Unset)
           /\ id \notin bad2 => AccessPuts(a, PATH_LENGTH, OVERFLOW, id, new, data)
<1>0. /\ id \in Blocks /\ old \in Positions(PATH_LENGTH) /\ new \in Positions(PATH_LENGTH)
      /\ data \in OramData /\ r = read_block(o, PATH_LENGTH, old, id, Unset)
      /\ a = oram_access(o, PATH_LENGTH, r, new, data)
      /\ \A k \in Blocks : k # id /\ k \notin bad => EntryKept(pm, pm2, k)
      /\ id \notin bad => Mapped(pm, id, old) /\ Mapped(pm2, id, new)
      /\ bad2 = IF a.abort THEN bad \cup {id} ELSE bad
  BY DEF BlockStep
<1> DEFINE L == PATH_LENGTH
           V == OVERFLOW
<1>1. /\ L \in Nat \ {0} /\ V \in Nat /\ Blocks \in SUBSET Nat /\ Unset \in OramData
  BY PathOramAssumption, MapBlocksIs DEF OramData
<1>2. /\ o \in Oram(Blocks, OramData, L, V) /\ InPlace(o, L, V)
      /\ \A k \in Blocks : k \notin bad => BlockOK(o, pm, k)
  BY DEF BlockState
<1>3. /\ AccessOK(a, o, L, V, Blocks, OramData, id)
      /\ Single(o, L, V, id) /\ AtPosition(o, L, V, id, 2 * old) /\ ~a.abort
           => AccessPuts(a, L, V, id, new, data)
  BY <1>0, <1>1, <1>2, WholeAccess
<1>4. Single(o, L, V, id) /\ AtPosition(o, L, V, id, 2 * old) => ReadFinds(r, o, L, V, id, Unset)
  BY <1>0, <1>1, <1>2, WholeRead
<1>5. ASSUME id \notin bad PROVE Single(o, L, V, id) /\ AtPosition(o, L, V, id, 2 * old)
  <2>1. BlockOK(o, pm, id) /\ Mapped(pm, id, old)
    BY <1>0, <1>2, <1>5
  <2>2. PICK y \in MapPlaces : /\ Val(pm, y).id = id \div ENTRIES_PER_BLOCK
                               /\ Val(pm, y).data[id % ENTRIES_PER_BLOCK] = old
    BY <2>1 DEF Mapped
  <2>3. ASSUME NEW x \in OramPlaces, Val(o, x).id = id PROVE Val(o, x).position = 2 * old
    BY <2>1, <2>2, <2>3 DEF BlockOK
  <2> QED BY <2>1, <2>3 DEF BlockOK, AtPosition, OramPlaces
<1>6. /\ a.abort \in BOOLEAN /\ a.o \in Oram(Blocks, OramData, L, V) /\ InPlace(a.o, L, V)
      /\ \A k \in Blocks \ {id} : SameFor(o, a.o, L, V, k)
  BY <1>3 DEF AccessOK
<1>7. id \notin bad2 => AccessPuts(a, L, V, id, new, data)
  BY <1>0, <1>3, <1>5
<1>8. ASSUME NEW k \in Blocks, k \notin bad2 PROVE BlockOK(a.o, pm2, k)
  <2>1. CASE k # id
    <3>1. k \notin bad
      BY <1>0, <1>8
    <3>2. BlockOK(o, pm, k) /\ EntryKept(pm, pm2, k) /\ SameFor(o, a.o, L, V, k)
      BY <1>0, <1>2, <1>6, <2>1, <3>1
    <3> QED BY <3>2, BlockOKKeeps
  <2>2. CASE k = id
    <3>1. AccessPuts(a, L, V, id, new, data) /\ Mapped(pm2, id, new)
      BY <1>0, <1>7, <1>8, <2>2
    <3>2. ASSUME NEW x \in OramPlaces, Val(a.o, x).id = id PROVE Val(a.o, x).position = 2 * new
      <4>1. Val(a.o, x) = [id |-> id, position |-> 2 * new, data |-> data]
        BY <3>1, <3>2 DEF AccessPuts, OramPlaces
      <4> QED BY <4>1
    <3>3. Single(a.o, L, V, id)
      BY <3>1 DEF AccessPuts
    <3> QED BY <2>2, <3>1, <3>2, <3>3 DEF BlockOK, Mapped
  <2> QED BY <2>1, <2>2
<1>9. BlockState(a.o, pm2, bad2)
  BY <1>6, <1>8 DEF BlockState
<1> QED BY <1>3, <1>4, <1>5, <1>7, <1>9

(* An ORAM without blocks is in order, whatever the map holds. *)
LEMMA EmptyState ==
    ASSUME NEW o \in Oram(Blocks, OramData, PATH_LENGTH, OVERFLOW),
           \A x \in OramPlaces : Val(o, x).id = NoBlock, NEW pm, NEW bad
    PROVE  BlockState(o, pm, bad)
<1>1. InPlace(o, PATH_LENGTH, OVERFLOW)
  BY EmptyInPlace DEF OramPlaces
<1>2. ASSUME NEW id \in Blocks PROVE BlockOK(o, pm, id)
  <2>1. id # NoBlock
    BY MapBlocksIs, StashAssumption
  <2>2. \A x \in OramPlaces : Val(o, x).id # id
    BY <2>1
  <2>3. Single(o, PATH_LENGTH, OVERFLOW, id)
    BY <2>2, NoneIsSingle DEF OramPlaces
  <2> QED BY <2>2, <2>3 DEF BlockOK
<1> QED BY <1>1, <1>2 DEF BlockState

(* Both ORAMs are created without blocks. *)
LEMMA NewOramEmpty ==
    /\ new_oram(PATH_LENGTH, OVERFLOW) \in Oram(Blocks, OramData, PATH_LENGTH, OVERFLOW)
    /\ \A x \in OramPlaces : Val(new_oram(PATH_LENGTH, OVERFLOW), x).id = NoBlock
    /\ new_oram(PATH_LENGTH_0, OVERFLOW_0) \in Oram(MapBlocks, MapData, PATH_LENGTH_0, OVERFLOW_0)
    /\ \A x \in MapPlaces : Val(new_oram(PATH_LENGTH_0, OVERFLOW_0), x).id = NoBlock
<1>1. Empty.id = NoBlock
  BY DEF Empty
<1> QED BY <1>1, NewOramIs DEF OramPlaces, MapPlaces

(* The map changes, and the blocks that are not given up keep their entry. *)
LEMMA MapMoves ==
    ASSUME NEW o, NEW pm, NEW pm2, NEW bad, NEW bad2, bad \in SUBSET bad2, BlockState(o, pm, bad),
           \A k \in Blocks : k \notin bad2 => EntryKept(pm, pm2, k)
    PROVE  BlockState(o, pm2, bad2)
<1>1. ASSUME NEW k \in Blocks, k \notin bad2 PROVE BlockOK(o, pm2, k)
  <2>1. BlockOK(o, pm, k) /\ EntryKept(pm, pm2, k)
    BY <1>1 DEF BlockState
  <2>2. SameFor(o, o, PATH_LENGTH, OVERFLOW, k)
    BY SameForSelf
  <2> QED BY <2>1, <2>2, BlockOKKeeps
<1> QED BY <1>1 DEF BlockState

StatsType == [stash_overflow_count : 0 .. OVERFLOW, max_stash_overflow_count : 0 .. OVERFLOW]

(* The counters start at zero. *)
LEMMA ZeroStats ==
    [stash_overflow_count |-> 0, max_stash_overflow_count |-> 0] \in StatsType
  BY PathOramAssumption DEF StatsType

(* oram_create establishes the invariant. *)
LEMMA InitInv == Init => OramIInv
<1> SUFFICES ASSUME Init PROVE OramIInv
  OBVIOUS
<1>1. /\ oram \in Oram(Blocks, OramData, PATH_LENGTH, OVERFLOW)
      /\ \A x \in OramPlaces : Val(oram, x).id = NoBlock
      /\ posmap \in Oram(MapBlocks, MapData, PATH_LENGTH_0, OVERFLOW_0)
      /\ \A x \in MapPlaces : Val(posmap, x).id = NoBlock
  BY NewOramEmpty DEF Init
<1>2. BlockState(oram, posmap, lost \cup unmapped)
  BY <1>1, EmptyState
<1>3. /\ scan \in [MapBlocks -> Positions(PATH_LENGTH_0)] /\ created = 0 /\ unmapped = {}
      /\ lost = {} /\ wild = FALSE
  BY DEF Init
<1>4. created \in 0 .. Cardinality(MapBlocks)
  BY <1>3, MapBlocksIs
<1>5. InPlace(posmap, PATH_LENGTH_0, OVERFLOW_0)
  BY <1>1, EmptyInPlace DEF MapPlaces
<1>6. MapInv(posmap, scan, created, unmapped)
  <2> SUFFICES ASSUME NEW mb \in MapBlocks
               PROVE  /\ covered(mb) \cap {} = {} /\ ~(mb < 0)
                      /\ \A x \in MapPlaces : Val(posmap, x).id # mb
    BY <1>3 DEF MapInv
  <2>1. mb \in Nat /\ mb # NoBlock
    BY MapBlocksIs, StashAssumption
  <2> QED BY <1>1, <2>1
<1>7. MapState(posmap, scan, created, unmapped)
  BY <1>1, <1>3, <1>4, <1>5, <1>6 DEF MapState
<1>8. stats \in StatsType
  BY ZeroStats DEF Init
<1>9. TypeOK
  BY <1>1, <1>3, <1>4, <1>8 DEF TypeOK, OramData, MapData, StatsType
<1> QED BY <1>1, <1>2, <1>3, <1>7, <1>9 DEF OramIInv, CreateInv, PathInTree

(* What the parts of the invariant say together. *)
LEMMA TypeFrom ==
    ASSUME MapState(posmap, scan, created, unmapped), BlockState(oram, posmap, lost \cup unmapped),
           stats \in StatsType, wild \in BOOLEAN, lost \subseteq Blocks
    PROVE  TypeOK
  BY DEF MapState, BlockState, StatsType, OramData, MapData, TypeOK

(* The types that the invariant gives of the remaining variables. *)
LEMMA TypeGives ==
    ASSUME OramIInv
    PROVE  stats \in StatsType /\ wild \in BOOLEAN /\ lost \subseteq Blocks /\ unmapped \subseteq Blocks
  BY DEF OramIInv, TypeOK, StatsType

(* oram_position_map_create, failing or not. *)
LEMMA CreateKeeps ==
    ASSUME OramIInv, NEW d \in GoodData, NEW new \in Positions(PATH_LENGTH_0),
           oram_position_map_create(d, new)
    PROVE  /\ OramIInv' /\ oram' = oram /\ lost' = lost /\ unmapped \in SUBSET unmapped'
           /\ ret' = "ok"
<1>1. PICK r, m : /\ r = read_block(posmap, PATH_LENGTH_0, scan[created], created, map_unset)
                  /\ m = oram_access(posmap, PATH_LENGTH_0, r, new, d)
                  /\ posmap' = m.o
                  /\ unmapped' = IF m.abort THEN unmapped \cup covered(created) ELSE unmapped
  BY DEF oram_position_map_create
<1>2. /\ created \in MapBlocks /\ scan' = [scan EXCEPT ![created] = new] /\ created' = created + 1
      /\ oram' = oram /\ stats' = stats /\ wild' = wild /\ lost' = lost /\ ret' = "ok"
  BY DEF oram_position_map_create
<1>3. d \in MapData
  BY MapUnset
<1>4. MapStep(posmap, scan, created, unmapped, created, new, d, r, m, scan', created', unmapped')
  BY <1>1, <1>2, <1>3 DEF MapStep
<1>5. MapState(posmap, scan, created, unmapped)
  BY DEF OramIInv
<1>6. MapState(m.o, scan', created', unmapped')
  BY <1>4, <1>5, MapAccess
<1>7. unmapped \in SUBSET unmapped'
  BY <1>1
<1>8. /\ oram \in Oram(Blocks, OramData, PATH_LENGTH, OVERFLOW)
      /\ \A x \in OramPlaces : Val(oram, x).id = NoBlock
  BY <1>2 DEF OramIInv, CreateInv, BlockState
<1>9. BlockState(oram, m.o, lost \cup unmapped')
  BY <1>8, EmptyState
<1>10. MapState(posmap, scan, created, unmapped)' /\ BlockState(oram, posmap, lost \cup unmapped)'
  BY <1>1, <1>2, <1>6, <1>9
<1>11. TypeOK'
  BY <1>2, <1>10, TypeGives
     DEF MapState, BlockState, StatsType, OramData, MapData, TypeOK
<1>12. CreateInv' /\ PathInTree'
  BY <1>2, <1>7, <1>8 DEF CreateInv, PathInTree, OramIInv, OramPlaces
<1> QED BY <1>2, <1>7, <1>10, <1>11, <1>12 DEF OramIInv

(* oram_clear: the positions in the map are no obstacle to an empty ORAM. *)
LEMMA ClearKeeps ==
    ASSUME OramIInv, oram_clear
    PROVE  OramIInv'
<1>1. /\ oram' = new_oram(PATH_LENGTH, OVERFLOW) /\ stats' \in StatsType /\ lost' = {}
      /\ posmap' = posmap /\ scan' = scan /\ created' = created /\ wild' = wild
      /\ unmapped' = unmapped
  BY ZeroStats DEF oram_clear
<1>2. /\ oram' \in Oram(Blocks, OramData, PATH_LENGTH, OVERFLOW)
      /\ \A x \in OramPlaces : Val(oram', x).id = NoBlock
  BY <1>1, NewOramEmpty
<1>3. BlockState(oram', posmap', lost' \cup unmapped')
  BY <1>2, EmptyState
<1>4. MapState(posmap, scan, created, unmapped)'
  BY <1>1 DEF OramIInv
<1>5. BlockState(oram, posmap, lost \cup unmapped)'
  BY <1>3
<1>6. TypeOK'
  BY <1>1, <1>4, <1>5, TypeGives
     DEF MapState, BlockState, StatsType, OramData, MapData, TypeOK
<1>7. CreateInv' /\ PathInTree'
  BY <1>1, <1>2 DEF CreateInv, PathInTree, OramIInv, OramPlaces
<1> QED BY <1>4, <1>5, <1>6, <1>7 DEF OramIInv

(* What an access does to the block: it fails before it reads the path, or  *)
(* it reads the path and then fails or succeeds.                            *)
Outcome(id) ==
    \/ /\ oram' = oram /\ Damaged \in SUBSET Damaged' /\ id \in Damaged' /\ ret' = "error"
    \/ \E r, a, new : \E f \in Accessors :
          /\ AccessOK(a, oram, PATH_LENGTH, OVERFLOW, Blocks, OramData, id)
          /\ oram' = a.o /\ r.data \in OramData
          /\ Damaged' = IF a.abort THEN Damaged \cup {id} ELSE Damaged
          /\ ret' = IF a.abort THEN "error" ELSE result(f, r.data)
          /\ id \notin Damaged => ReadFinds(r, oram, PATH_LENGTH, OVERFLOW, id, Unset)
          /\ id \notin Damaged' =>
                AccessPuts(a, PATH_LENGTH, OVERFLOW, id, new, accessor(f, r.data))

(* An accessor leaves data in the block. *)
LEMMA AccessorType ==
    ASSUME NEW f \in Accessors, NEW data \in OramData
    PROVE  accessor(f, data) \in OramData
<1>1. CASE f.op = "put"
  <2>1. f \in [op : {"put"}, val : Vals]
    BY <1>1 DEF Accessors
  <2> QED BY <1>1, <2>1 DEF accessor, OramData
<1>2. CASE f.op # "put"
  BY <1>2 DEF accessor
<1> QED BY <1>1, <1>2

(* access, in each of its outcomes. *)
LEMMA AccessInv ==
    ASSUME OramIInv, NEW id \in Blocks, NEW new \in Positions(PATH_LENGTH),
           NEW new_0 \in Positions(PATH_LENGTH_0), access(id, new, new_0)
    PROVE  OramIInv' /\ Outcome(id)
<1> DEFINE mb == id \div ENTRIES_PER_BLOCK
           i == id % ENTRIES_PER_BLOCK
<1>1. /\ created \notin MapBlocks /\ scan' = [scan EXCEPT ![mb] = new_0] /\ created' = created
  BY DEF access, scan_set
<1>2. PICK r, m :
        /\ r = read_block(posmap, PATH_LENGTH_0, scan[mb], mb, map_unset)
        /\ m = oram_access(posmap, PATH_LENGTH_0, r, new_0, set_entry(r.data, i, new))
        /\ posmap' = m.o
        /\ \/ /\ m.abort /\ unmapped' = unmapped \cup covered(mb) /\ ret' = "error"
              /\ stats' = collect(oram) /\ oram' = oram /\ wild' = wild /\ lost' = lost
           \/ /\ ~m.abort /\ r.data[i] = ALL_ONES
              /\ wild' = TRUE /\ ret' = "error" /\ oram' = oram /\ stats' = stats
              /\ lost' = lost /\ unmapped' = unmapped
           \/ /\ ~m.abort /\ r.data[i] # ALL_ONES
              /\ \E f \in Accessors : access_block(id, r.data[i], new, f)
  BY DEF access
<1>3. PICK um2 : um2 = IF m.abort THEN unmapped \cup covered(mb) ELSE unmapped
  OBVIOUS
<1>4. ExchangeStep(posmap, scan, unmapped, id, new, new_0, mb, i, r, m, scan', um2)
  BY <1>1, <1>2, <1>3 DEF ExchangeStep
<1> HIDE DEF mb, i
<1>5. /\ MapState(posmap, scan, created, unmapped)
      /\ BlockState(oram, posmap, lost \cup unmapped) /\ PathInTree
  BY DEF OramIInv
<1>6. /\ MapState(m.o, scan', created, um2)
      /\ m.abort \in BOOLEAN /\ unmapped \in SUBSET um2 /\ (m.abort => id \in um2)
      /\ r.data[i] \in Positions(PATH_LENGTH) \cup {ALL_ONES}
      /\ r.data[i] = ALL_ONES => id \in unmapped
      /\ id \notin um2 => Mapped(posmap, id, r.data[i]) /\ Mapped(m.o, id, new)
      /\ \A k \in Blocks : k # id /\ k \notin um2 => EntryKept(posmap, m.o, k)
  BY <1>1, <1>4, <1>5, Exchange
<1>7. stats \in StatsType /\ wild \in BOOLEAN /\ lost \subseteq Blocks
  BY TypeGives
<1>8. ASSUME unmapped' = um2, BlockState(oram', posmap', lost' \cup unmapped'),
             stats' \in StatsType, wild' \in BOOLEAN, lost' \subseteq Blocks, PathInTree'
      PROVE  OramIInv'
  <2>1. MapState(posmap, scan, created, unmapped)'
    BY <1>1, <1>2, <1>6, <1>8
  <2>2. BlockState(oram, posmap, lost \cup unmapped)'
    BY <1>8
  <2>3. TypeOK'
    BY <1>8, <2>1, <2>2 DEF MapState, BlockState, StatsType, OramData, MapData, TypeOK
  <2>4. CreateInv'
    BY <1>1 DEF CreateInv
  <2> QED BY <1>8, <2>1, <2>2, <2>3, <2>4 DEF OramIInv
(* The stash of the position map is full. *)
<1>9. CASE /\ m.abort /\ unmapped' = unmapped \cup covered(mb) /\ ret' = "error"
           /\ stats' = collect(oram) /\ oram' = oram /\ wild' = wild /\ lost' = lost
  <2>1. unmapped' = um2 /\ id \in um2
    BY <1>3, <1>6, <1>9
  <2>2. \A k \in Blocks : k \notin lost \cup um2 => EntryKept(posmap, m.o, k)
    BY <1>6, <2>1
  <2>3. lost \cup unmapped \in SUBSET (lost \cup um2)
    BY <1>6
  <2>4. BlockState(oram, m.o, lost \cup um2)
    BY <1>5, <2>2, <2>3, MapMoves
  <2>5. stats' \in StatsType
    <3>1. oram \in Oram(Blocks, OramData, PATH_LENGTH, OVERFLOW)
      BY <1>5 DEF BlockState
    <3> QED BY <1>7, <1>9, <3>1, CollectType DEF StatsType
  <2>6. PathInTree'
    BY <1>9, <2>1 DEF PathInTree
  <2>7. OramIInv'
    BY <1>2, <1>7, <1>8, <1>9, <2>1, <2>4, <2>5, <2>6
  <2>8. Damaged \in SUBSET Damaged' /\ id \in Damaged'
    BY <1>6, <1>9, <2>1 DEF Damaged
  <2> QED BY <1>9, <2>7, <2>8 DEF Outcome
(* The entry was lost with its block of the position map. *)
<1>10. CASE /\ ~m.abort /\ r.data[i] = ALL_ONES
            /\ wild' = TRUE /\ ret' = "error" /\ oram' = oram /\ stats' = stats
            /\ lost' = lost /\ unmapped' = unmapped
  <2>1. unmapped' = um2 /\ id \in um2 /\ um2 = unmapped
    BY <1>3, <1>6, <1>10
  <2>2. \A k \in Blocks : k \notin lost \cup um2 => EntryKept(posmap, m.o, k)
    BY <1>6, <2>1
  <2>3. lost \cup unmapped \in SUBSET (lost \cup um2)
    BY <1>6
  <2>4. BlockState(oram, m.o, lost \cup um2)
    BY <1>5, <2>2, <2>3, MapMoves
  <2>5. PathInTree'
    BY <2>1 DEF PathInTree
  <2>6. OramIInv'
    BY <1>2, <1>7, <1>8, <1>10, <2>1, <2>4, <2>5
  <2>7. Damaged \in SUBSET Damaged' /\ id \in Damaged'
    BY <1>10, <2>1 DEF Damaged
  <2> QED BY <1>10, <2>6, <2>7 DEF Outcome
(* The path is read. *)
<1>11. CASE /\ ~m.abort /\ r.data[i] # ALL_ONES
            /\ \E f \in Accessors : access_block(id, r.data[i], new, f)
  <2>1. PICK f \in Accessors : access_block(id, r.data[i], new, f)
    BY <1>11
  <2>2. PICK old \in Positions(PATH_LENGTH) : old = r.data[i]
    BY <1>6, <1>11
  <2>3. PICK q, a :
          /\ q = read_block(oram, PATH_LENGTH, old, id, Unset)
          /\ a = oram_access(oram, PATH_LENGTH, q, new, accessor(f, q.data))
          /\ oram' = a.o /\ stats' = collect(a.o)
          /\ lost' = IF a.abort THEN lost \cup {id} ELSE lost
          /\ ret' = IF a.abort THEN "error" ELSE result(f, q.data)
          /\ wild' = wild /\ unmapped' = unmapped
    BY <2>1, <2>2 DEF access_block
  <2>4. um2 = unmapped /\ unmapped' = um2
    BY <1>3, <1>11, <2>3
  <2>5. q.data \in OramData
    <3>1. /\ PATH_LENGTH \in Nat \ {0} /\ OVERFLOW \in Nat /\ Blocks \in SUBSET Nat
          /\ Unset \in OramData
      BY PathOramAssumption, MapBlocksIs DEF OramData
    <3>2. oram \in Oram(Blocks, OramData, PATH_LENGTH, OVERFLOW) /\ InPlace(oram, PATH_LENGTH, OVERFLOW)
      BY <1>5 DEF BlockState
    <3> QED BY <2>3, <3>1, <3>2, WholeRead
  <2>6. PICK data \in OramData : data = accessor(f, q.data)
    BY <2>5, AccessorType
  <2> DEFINE bad == lost \cup unmapped
             bad2 == lost' \cup unmapped'
  <2>7. BlockStep(oram, posmap, bad, id, old, new, q, data, a, m.o, bad2)
    <3>1. \A k \in Blocks : k # id /\ k \notin bad => EntryKept(posmap, m.o, k)
      BY <1>6, <2>4
    <3>2. id \notin bad => Mapped(posmap, id, old) /\ Mapped(m.o, id, new)
      BY <1>6, <2>2, <2>4
    <3>3. bad2 = IF a.abort THEN bad \cup {id} ELSE bad
      BY <2>3
    <3> QED BY <2>3, <2>6, <3>1, <3>2, <3>3 DEF BlockStep
  <2>8. /\ AccessOK(a, oram, PATH_LENGTH, OVERFLOW, Blocks, OramData, id)
        /\ BlockState(a.o, m.o, bad2)
        /\ id \notin bad => ReadFinds(q, oram, PATH_LENGTH, OVERFLOW, id, Unset)
        /\ id \notin bad2 => AccessPuts(a, PATH_LENGTH, OVERFLOW, id, new, data)
    BY <1>5, <2>7, BlockAccess
  <2>9. stats' \in StatsType
    <3>1. a.o \in Oram(Blocks, OramData, PATH_LENGTH, OVERFLOW)
      BY <2>8 DEF BlockState
    <3> QED BY <1>7, <2>3, <3>1, CollectType DEF StatsType
  <2>10. PathInTree'
    BY <1>5, <2>3 DEF PathInTree
  <2>11. lost' \subseteq Blocks
    BY <1>7, <2>3
  <2>12. OramIInv'
    BY <1>2, <1>7, <1>8, <2>3, <2>4, <2>8, <2>9, <2>10, <2>11
  <2>13. Damaged = bad /\ Damaged' = bad2 /\ bad2 = IF a.abort THEN bad \cup {id} ELSE bad
    BY <2>3 DEF Damaged
  <2>14. Outcome(id)
    <3> HIDE DEF bad, bad2
    <3> QED BY <2>3, <2>5, <2>6, <2>8, <2>13 DEF Outcome
  <2> QED BY <2>12, <2>14
<1> QED BY <1>2, <1>9, <1>10, <1>11

(* Every step keeps the invariant. *)
LEMMA NextInv == OramIInv /\ [Next]_vars => OramIInv'
<1> SUFFICES ASSUME OramIInv, [Next]_vars PROVE OramIInv'
  OBVIOUS
<1>1. CASE \E d \in [0 .. ENTRIES_PER_BLOCK - 1 -> Positions(PATH_LENGTH)],
              new \in Positions(PATH_LENGTH_0) : oram_position_map_create(d, new)
  BY <1>1, CreateKeeps DEF GoodData
<1>2. CASE \E id \in Blocks, new \in Positions(PATH_LENGTH), new_0 \in Positions(PATH_LENGTH_0) :
              access(id, new, new_0)
  BY <1>2, AccessInv
<1>3. CASE oram_clear
  BY <1>3, ClearKeeps
<1>4. CASE UNCHANGED vars
  BY <1>4 DEF vars, OramIInv, TypeOK, CreateInv, PathInTree
<1> QED BY <1>1, <1>2, <1>3, <1>4 DEF Next

(* The inductive invariant holds for both ORAMs, all sizes of trees,        *)
(* buckets and stashes and all random positions, however often a stash has  *)
(* been full.                                                               *)
THEOREM OramIInvHolds == Spec => []OramIInv
  BY InitInv, NextInv, PTL DEF Spec

(* The slots of the buckets and of the overflow are places. *)
SlotsArePlaces(o, L, V) ==
    /\ DOMAIN o.buckets = 0 .. tree_path_num_nodes(L) - 1 /\ DOMAIN o.overflow = 1 .. V
    /\ \A b \in DOMAIN o.buckets :
          /\ DOMAIN o.buckets[b] = 1 .. BLOCKS_PER_BUCKET /\ b # -1
          /\ \A j \in 1 .. BLOCKS_PER_BUCKET :
                <<b, j>> \in Places(L, V) /\ Val(o, <<b, j>>) = o.buckets[b][j]
    /\ \A j \in DOMAIN o.overflow :
          <<-1, j>> \in Places(L, V) /\ Val(o, <<-1, j>>) = o.overflow[j]

(* Slots of buckets and overflow, and places, are the same. *)
LEMMA SlotIsPlace ==
    ASSUME NEW I, NEW D, NEW L \in Nat \ {0}, NEW V \in Nat, NEW o \in Oram(I, D, L, V)
    PROVE  SlotsArePlaces(o, L, V)
<1>1. PICK N \in Nat : N = tree_path_num_nodes(L)
  BY PositionsType
<1>2. /\ o.buckets \in [0 .. N - 1 -> [1 .. BLOCKS_PER_BUCKET -> Block(I, D, L)]]
      /\ o.overflow \in [1 .. V -> Block(I, D, L)]
  BY <1>1, OramIs
<1>3. DOMAIN o.buckets = 0 .. N - 1 /\ DOMAIN o.overflow = 1 .. V
  BY <1>2
<1>4. ASSUME NEW b \in 0 .. N - 1
      PROVE  /\ DOMAIN o.buckets[b] = 1 .. BLOCKS_PER_BUCKET /\ b # -1
             /\ \A j \in 1 .. BLOCKS_PER_BUCKET :
                   <<b, j>> \in Places(L, V) /\ Val(o, <<b, j>>) = o.buckets[b][j]
  <2>1. o.buckets[b] \in [1 .. BLOCKS_PER_BUCKET -> Block(I, D, L)]
    BY <1>2
  <2>2. DOMAIN o.buckets[b] = 1 .. BLOCKS_PER_BUCKET /\ b # -1
    BY <2>1
  <2>3. ASSUME NEW j \in 1 .. BLOCKS_PER_BUCKET
        PROVE  <<b, j>> \in Places(L, V) /\ Val(o, <<b, j>>) = o.buckets[b][j]
    BY <1>1, <2>2 DEF Places, Val
  <2> QED BY <2>2, <2>3
<1>5. ASSUME NEW j \in 1 .. V
      PROVE  <<-1, j>> \in Places(L, V) /\ Val(o, <<-1, j>>) = o.overflow[j]
  BY DEF Places, Val
<1> QED BY <1>1, <1>3, <1>4, <1>5 DEF SlotsArePlaces

(* The copies of a block are the values of the places that have its id. *)
LEMMA CopiesIs ==
    ASSUME NEW I, NEW D, NEW L \in Nat \ {0}, NEW V \in Nat, NEW o \in Oram(I, D, L, V), NEW k
    PROVE  /\ \A c \in Copies(o, k) : \E x \in Places(L, V) : Val(o, x) = c /\ Val(o, x).id = k
           /\ \A x \in Places(L, V) : Val(o, x).id = k => Val(o, x) \in Copies(o, k)
<1>0. SlotsArePlaces(o, L, V)
  BY SlotIsPlace
<1>1. /\ DOMAIN o.buckets = 0 .. tree_path_num_nodes(L) - 1 /\ DOMAIN o.overflow = 1 .. V
      /\ \A b \in DOMAIN o.buckets :
            /\ DOMAIN o.buckets[b] = 1 .. BLOCKS_PER_BUCKET /\ b # -1
            /\ \A j \in 1 .. BLOCKS_PER_BUCKET :
                  <<b, j>> \in Places(L, V) /\ Val(o, <<b, j>>) = o.buckets[b][j]
      /\ \A j \in DOMAIN o.overflow :
            <<-1, j>> \in Places(L, V) /\ Val(o, <<-1, j>>) = o.overflow[j]
  BY <1>0 DEF SlotsArePlaces
<1>2. ASSUME NEW c \in Copies(o, k)
      PROVE  \E x \in Places(L, V) : Val(o, x) = c /\ Val(o, x).id = k
  <2>1. CASE c \in TreeCopies(o, k)
    <3>1. PICK b \in DOMAIN o.buckets : \E j \in DOMAIN o.buckets[b] :
            c = o.buckets[b][j] /\ o.buckets[b][j].id = k
      BY <2>1 DEF TreeCopies, InBucket
    <3>2. PICK j \in 1 .. BLOCKS_PER_BUCKET : c = o.buckets[b][j] /\ o.buckets[b][j].id = k
      BY <1>1, <3>1
    <3>3. <<b, j>> \in Places(L, V) /\ Val(o, <<b, j>>) = c
      BY <1>1, <3>2
    <3> QED BY <3>2, <3>3
  <2>2. CASE c \in StashCopies(o, k)
    <3>1. PICK j \in DOMAIN o.overflow : c = o.overflow[j] /\ o.overflow[j].id = k
      BY <2>2 DEF StashCopies
    <3> QED BY <1>1, <3>1
  <2> QED BY <2>1, <2>2 DEF Copies
<1>3. ASSUME NEW x \in Places(L, V), Val(o, x).id = k
      PROVE  Val(o, x) \in Copies(o, k)
  <2>1. CASE x[1] = -1 /\ x[2] \in 1 .. V
    BY <1>1, <1>3, <2>1 DEF Val, Copies, StashCopies
  <2>2. CASE /\ x[1] \in 0 .. tree_path_num_nodes(L) - 1 /\ x[1] # -1
             /\ x[2] \in 1 .. BLOCKS_PER_BUCKET
    <3>1. PICK b \in DOMAIN o.buckets : b = x[1]
      BY <1>1, <2>2
    <3>2. PICK j \in DOMAIN o.buckets[b] : j = x[2]
      BY <1>1, <2>2
    <3>3. Val(o, x) = o.buckets[b][j] /\ j \in InBucket(o, b, k)
      BY <1>3, <2>2, <3>1, <3>2 DEF Val, InBucket
    <3> QED BY <3>3 DEF Copies, TreeCopies
  <2> QED BY <2>1, <2>2, PlaceIs
<1> QED BY <1>2, <1>3

(* The number of copies of a block that has one place at most. *)
LEMMA CopiesCounted ==
    ASSUME NEW I, NEW D, NEW L \in Nat \ {0}, NEW V \in Nat, NEW o \in Oram(I, D, L, V), NEW k,
           Single(o, L, V, k)
    PROVE  /\ (\E x \in Places(L, V) : Val(o, x).id = k) => NumCopies(o, k) = 1
           /\ (\A x \in Places(L, V) : Val(o, x).id # k) => NumCopies(o, k) = 0
<1> DEFINE A == {p \in (DOMAIN o.buckets) \X (1 .. BLOCKS_PER_BUCKET) :
                    o.buckets[p[1]][p[2]].id = k}
           C == {j \in DOMAIN o.overflow : o.overflow[j].id = k}
<1>0. SlotsArePlaces(o, L, V)
  BY SlotIsPlace
<1>1. /\ DOMAIN o.buckets = 0 .. tree_path_num_nodes(L) - 1 /\ DOMAIN o.overflow = 1 .. V
      /\ \A b \in DOMAIN o.buckets :
            /\ DOMAIN o.buckets[b] = 1 .. BLOCKS_PER_BUCKET /\ b # -1
            /\ \A j \in 1 .. BLOCKS_PER_BUCKET :
                  <<b, j>> \in Places(L, V) /\ Val(o, <<b, j>>) = o.buckets[b][j]
      /\ \A j \in DOMAIN o.overflow :
            <<-1, j>> \in Places(L, V) /\ Val(o, <<-1, j>>) = o.overflow[j]
  BY <1>0 DEF SlotsArePlaces
<1>2. NumCopies(o, k) = Cardinality(A) + Cardinality(C)
  BY DEF NumCopies
<1>3. ASSUME NEW p \in A PROVE p \in Places(L, V) /\ Val(o, p).id = k /\ p[1] # -1
  <2>1. PICK b \in DOMAIN o.buckets, j \in 1 .. BLOCKS_PER_BUCKET : p = <<b, j>>
    OBVIOUS
  <2> QED BY <1>1, <1>3, <2>1
<1>4. ASSUME NEW j \in C PROVE <<-1, j>> \in Places(L, V) /\ Val(o, <<-1, j>>).id = k
  BY <1>1
<1>5. ASSUME \A x \in Places(L, V) : Val(o, x).id # k PROVE NumCopies(o, k) = 0
  <2>1. A = {} /\ C = {}
    BY <1>3, <1>4, <1>5
  <2> HIDE DEF A, C
  <2> QED BY <1>2, <2>1, FS_EmptySet
<1>6. ASSUME NEW x \in Places(L, V), Val(o, x).id = k PROVE NumCopies(o, k) = 1
  <2>1. \A p \in A : p = x
    BY <1>3, <1>6 DEF Single
  <2>2. \A j \in C : <<-1, j>> = x
    BY <1>4, <1>6 DEF Single
  <2>3. CASE x[1] = -1 /\ x[2] \in 1 .. V
    <3>1. A = {}
      BY <1>3, <2>1, <2>3
    <3>2. C = {x[2]}
      <4>1. x[2] \in C
        BY <1>1, <1>6, <2>3 DEF Val
      <4>2. \A j \in C : j = x[2]
        BY <2>2
      <4> HIDE DEF C
      <4> QED BY <4>1, <4>2
    <3> HIDE DEF A, C
    <3>3. Cardinality({}) = 0 /\ \A y : Cardinality({y}) = 1
      BY FS_EmptySet, FS_Singleton
    <3>4. Cardinality(A) = 0 /\ Cardinality(C) = 1
      BY <3>1, <3>2, <3>3
    <3> QED BY <1>2, <3>4
  <2>4. CASE /\ x[1] \in 0 .. tree_path_num_nodes(L) - 1 /\ x[1] # -1
             /\ x[2] \in 1 .. BLOCKS_PER_BUCKET
    <3>1. A = {x}
      <4>1. x \in (DOMAIN o.buckets) \X (1 .. BLOCKS_PER_BUCKET)
        BY <1>1, <2>4, PlaceIs
      <4>2. o.buckets[x[1]][x[2]].id = k
        BY <1>6, <2>4 DEF Val
      <4>3. x \in A
        BY <4>1, <4>2
      <4> HIDE DEF A
      <4> QED BY <2>1, <4>3
    <3>2. C = {}
      BY <2>2, <2>4
    <3> HIDE DEF A, C
    <3>3. Cardinality({}) = 0 /\ \A y : Cardinality({y}) = 1
      BY FS_EmptySet, FS_Singleton
    <3>4. Cardinality(A) = 1 /\ Cardinality(C) = 0
      BY <3>1, <3>2, <3>3
    <3> QED BY <1>2, <3>4
  <2> QED BY <2>3, <2>4, PlaceIs
<1> QED BY <1>5, <1>6

(* The invariant in the terms of the model. *)
LEMMA IInvOnItsPath == OramIInv => OnItsPath
<1> SUFFICES ASSUME OramIInv PROVE OnItsPath
  OBVIOUS
<1>1. ASSUME NEW I, NEW D, NEW L \in Nat \ {0}, NEW V \in Nat, NEW o \in Oram(I, D, L, V),
             InPlace(o, L, V), NEW b \in DOMAIN o.buckets, NEW j \in DOMAIN o.buckets[b],
             o.buckets[b][j].id # NoBlock
      PROVE  lower_bound(b) <= o.buckets[b][j].position /\ o.buckets[b][j].position <= upper_bound(b)
  <2>0. SlotsArePlaces(o, L, V)
    BY SlotIsPlace
  <2>1. <<b, j>> \in Places(L, V) /\ Val(o, <<b, j>>) = o.buckets[b][j] /\ b # -1
    BY <2>0 DEF SlotsArePlaces
  <2>2. is_valid(b, Val(o, <<b, j>>).position)
    BY <1>1, <2>1 DEF InPlace
  <2> QED BY <2>1, <2>2 DEF is_valid
<1>2. /\ PATH_LENGTH \in Nat \ {0} /\ PATH_LENGTH_0 \in Nat \ {0} /\ OVERFLOW \in Nat
      /\ OVERFLOW_0 \in Nat
  BY PathOramAssumption
<1>3. /\ oram \in Oram(Blocks, OramData, PATH_LENGTH, OVERFLOW) /\ InPlace(oram, PATH_LENGTH, OVERFLOW)
      /\ posmap \in Oram(MapBlocks, MapData, PATH_LENGTH_0, OVERFLOW_0)
      /\ InPlace(posmap, PATH_LENGTH_0, OVERFLOW_0)
  BY DEF OramIInv, MapState, BlockState
<1>4. ASSUME NEW b \in DOMAIN oram.buckets, NEW j \in DOMAIN oram.buckets[b],
             oram.buckets[b][j].id # NoBlock
      PROVE  lower_bound(b) <= oram.buckets[b][j].position /\ oram.buckets[b][j].position <= upper_bound(b)
  BY <1>1, <1>2, <1>3, <1>4
<1>5. ASSUME NEW b \in DOMAIN posmap.buckets, NEW j \in DOMAIN posmap.buckets[b],
             posmap.buckets[b][j].id # NoBlock
      PROVE  /\ lower_bound(b) <= posmap.buckets[b][j].position
             /\ posmap.buckets[b][j].position <= upper_bound(b)
  BY <1>1, <1>2, <1>3, <1>5
<1> QED BY <1>4, <1>5 DEF OnItsPath

(* Both ORAMs hold a block once, at the position that the map holds. *)
LEMMA IInvOneCopy == OramIInv => OneCopy
<1> SUFFICES ASSUME OramIInv PROVE OneCopy
  OBVIOUS
<1>1. /\ PATH_LENGTH \in Nat \ {0} /\ PATH_LENGTH_0 \in Nat \ {0} /\ OVERFLOW \in Nat
      /\ OVERFLOW_0 \in Nat
  BY PathOramAssumption
<1>2. /\ oram \in Oram(Blocks, OramData, PATH_LENGTH, OVERFLOW)
      /\ posmap \in Oram(MapBlocks, MapData, PATH_LENGTH_0, OVERFLOW_0)
      /\ MapInv(posmap, scan, created, unmapped) /\ created \in 0 .. Cardinality(MapBlocks)
      /\ \A id \in Blocks \ (lost \cup unmapped) : BlockOK(oram, posmap, id)
      /\ created \in MapBlocks => \A x \in OramPlaces : Val(oram, x).id = NoBlock
  BY DEF OramIInv, MapState, BlockState, CreateInv
<1>3. ASSUME NEW mb \in MapBlocks, covered(mb) \cap unmapped = {}
      PROVE  /\ NumCopies(posmap, mb) = IF mb < created THEN 1 ELSE 0
             /\ \A c \in Copies(posmap, mb) : c.position = 2 * scan[mb]
  <2>1. CASE mb < created
    <3>1. MapOK(posmap, scan, mb)
      BY <1>2, <1>3, <2>1 DEF MapInv
    <3>2. /\ Single(posmap, PATH_LENGTH_0, OVERFLOW_0, mb)
          /\ \E x \in Places(PATH_LENGTH_0, OVERFLOW_0) : Val(posmap, x).id = mb
          /\ \A x \in Places(PATH_LENGTH_0, OVERFLOW_0) :
                Val(posmap, x).id = mb => Val(posmap, x).position = 2 * scan[mb]
      BY <3>1 DEF MapOK, AtPosition, MapPlaces
    <3>3. NumCopies(posmap, mb) = 1
      BY <1>1, <1>2, <3>2, CopiesCounted
    <3>4. ASSUME NEW c \in Copies(posmap, mb) PROVE c.position = 2 * scan[mb]
      <4>1. PICK x \in Places(PATH_LENGTH_0, OVERFLOW_0) : Val(posmap, x) = c /\ Val(posmap, x).id = mb
        BY <1>1, <1>2, CopiesIs
      <4> QED BY <3>2, <4>1
    <3> QED BY <2>1, <3>3, <3>4
  <2>2. CASE ~(mb < created)
    <3>1. \A x \in Places(PATH_LENGTH_0, OVERFLOW_0) : Val(posmap, x).id # mb
      BY <1>2, <2>2 DEF MapInv, MapPlaces
    <3>2. Single(posmap, PATH_LENGTH_0, OVERFLOW_0, mb)
      BY <3>1, NoneIsSingle
    <3>3. NumCopies(posmap, mb) = 0
      BY <1>1, <1>2, <3>1, <3>2, CopiesCounted
    <3>4. Copies(posmap, mb) = {}
      BY <1>1, <1>2, <3>1, CopiesIs
    <3> QED BY <2>2, <3>3, <3>4
  <2> QED BY <2>1, <2>2
<1>4. ASSUME NEW id \in Blocks \ (lost \cup unmapped)
      PROVE  /\ NumCopies(oram, id) <= 1
             /\ \A c \in Copies(oram, id) : MapEntry(id) = {c.position \div 2}
  <2> DEFINE mb == id \div ENTRIES_PER_BLOCK
             i == id % ENTRIES_PER_BLOCK
  <2>1. /\ Single(oram, PATH_LENGTH, OVERFLOW, id)
        /\ \A x \in OramPlaces, y \in MapPlaces :
              Val(oram, x).id = id /\ Val(posmap, y).id = mb
              => Val(oram, x).position = 2 * Val(posmap, y).data[i]
    BY <1>2 DEF BlockOK
  <2>2. NumCopies(oram, id) <= 1
    <3>1. CASE \E x \in Places(PATH_LENGTH, OVERFLOW) : Val(oram, x).id = id
      <4>1. NumCopies(oram, id) = 1
        BY <1>1, <1>2, <2>1, <3>1, CopiesCounted
      <4> QED BY <4>1
    <3>2. CASE \A x \in Places(PATH_LENGTH, OVERFLOW) : Val(oram, x).id # id
      <4>1. NumCopies(oram, id) = 0
        BY <1>1, <1>2, <2>1, <3>2, CopiesCounted
      <4> QED BY <4>1
    <3> QED BY <3>1, <3>2
  <2>3. ASSUME NEW c \in Copies(oram, id) PROVE MapEntry(id) = {c.position \div 2}
    <3>1. PICK x \in OramPlaces : Val(oram, x) = c /\ Val(oram, x).id = id
      BY <1>1, <1>2, CopiesIs DEF OramPlaces
    <3>2. mb \in MapBlocks /\ id \in covered(mb) /\ i \in 0 .. ENTRIES_PER_BLOCK - 1 /\ id # NoBlock
      BY MapBlocksIs, StashAssumption
    <3>3. mb < created
      <4>1. created \notin MapBlocks
        BY <1>2, <3>1, <3>2
      <4>2. PICK M \in Nat : MapBlocks = 0 .. M - 1 /\ Cardinality(MapBlocks) = M
        BY MapBlocksIs
      <4> HIDE DEF mb
      <4> QED BY <1>2, <3>2, <4>1, <4>2
    <3>4. covered(mb) \cap unmapped = {}
      <4>1. covered(mb) \cap unmapped = {} \/ covered(mb) \subseteq unmapped
        BY <1>2, <3>2 DEF MapInv
      <4> QED BY <3>2, <4>1
    <3> HIDE DEF mb, i
    <3>5. MapOK(posmap, scan, mb)
      BY <1>2, <3>2, <3>3, <3>4 DEF MapInv
    <3>6. PICK y \in MapPlaces : /\ Val(posmap, y).id = mb /\ Val(posmap, y).data \in GoodData
                                 /\ \A z \in MapPlaces : Val(posmap, z).id = mb => z = y
      BY <3>5 DEF MapOK, Single, MapPlaces
    <3>7. c.position = 2 * Val(posmap, y).data[i]
      BY <2>1, <3>1, <3>6
    <3>8. PICK p \in Nat : p = Val(posmap, y).data[i]
      <4>1. Val(posmap, y).data[i] \in Positions(PATH_LENGTH)
        BY <3>2, <3>6 DEF GoodData
      <4> QED BY <1>1, <4>1, PositionsType
    <3>9. c.position \div 2 = p
      <4>1. (2 * p) \div 2 = p
        OBVIOUS
      <4> QED BY <3>7, <3>8, <4>1
    <3>10. Val(posmap, y) \in Copies(posmap, mb)
      BY <1>1, <1>2, <3>6, CopiesIs DEF MapPlaces
    <3>11. ASSUME NEW e \in Copies(posmap, mb) PROVE e = Val(posmap, y)
      <4>1. PICK z \in MapPlaces : Val(posmap, z) = e /\ Val(posmap, z).id = mb
        BY <1>1, <1>2, CopiesIs DEF MapPlaces
      <4> QED BY <3>6, <4>1
    <3>12. MapEntry(id) = {e.data[i] : e \in Copies(posmap, mb)}
      BY DEF MapEntry, mb, i
    <3> QED BY <3>8, <3>9, <3>10, <3>11, <3>12
  <2> QED BY <2>2, <2>3
<1> QED BY <1>3, <1>4 DEF OneCopy

(* Whatever random positions are drawn and whichever accesses find a stash  *)
(* full: every block that was never given up exists once at most, on the    *)
(* path of the position that the position map holds, the blocks of the      *)
(* position map likewise for the scanned table, and no access follows a     *)
(* position outside of the tree before a stash of the position map has      *)
(* overflowed.                                                              *)
THEOREM OramInvHolds == Spec => []OramInv
<1>1. OramIInv => OramInv
  BY IInvOnItsPath, IInvOneCopy DEF OramIInv, OramInv
<1> QED BY <1>1, OramIInvHolds, PTL

-----------------------------------------------------------------------------
(* The array that an ORAM holds, given the blocks that were given up. *)
Held(copies) == (CHOOSE c \in copies : TRUE).data
ContentOf(o, bad) ==
    [id \in Blocks |-> IF id \in bad \/ Copies(o, id) = {} THEN Unset ELSE Held(Copies(o, id))]

(* The refinement mapping, as a function of the state. *)
LEMMA ContentIs == Content = ContentOf(oram, Damaged) /\ Damaged = lost \cup unmapped
  BY DEF Content, ContentOf, Held, Damaged

MainOram == Oram(Blocks, OramData, PATH_LENGTH, OVERFLOW)

(* A block that an access does not touch reads as before. *)
LEMMA SameContent ==
    ASSUME NEW o \in MainOram, NEW o2 \in MainOram, NEW k, SameFor(o, o2, PATH_LENGTH, OVERFLOW, k)
    PROVE  Copies(o2, k) = Copies(o, k)
<1>1. PATH_LENGTH \in Nat \ {0} /\ OVERFLOW \in Nat
  BY PathOramAssumption
<1>2. ASSUME NEW u \in MainOram, NEW v \in MainOram, Copied(u, v, PATH_LENGTH, OVERFLOW, k),
             NEW c \in Copies(u, k)
      PROVE  c \in Copies(v, k)
  <2>1. PICK x \in Places(PATH_LENGTH, OVERFLOW) : Val(u, x) = c /\ Val(u, x).id = k
    BY <1>1, CopiesIs DEF MainOram
  <2>2. PICK y \in Places(PATH_LENGTH, OVERFLOW) : Val(v, y) = c
    BY <1>2, <2>1 DEF Copied
  <2>3. Val(v, y).id = k
    BY <2>1, <2>2
  <2>4. Val(v, y) \in Copies(v, k)
    BY <1>1, <2>3, CopiesIs DEF MainOram
  <2> QED BY <2>2, <2>4
<1>3. Copied(o, o2, PATH_LENGTH, OVERFLOW, k) /\ Copied(o2, o, PATH_LENGTH, OVERFLOW, k)
  BY DEF SameFor
<1> QED BY <1>2, <1>3

(* A block whose copies all hold d, and of which there is one, reads as d. *)
LEMMA ContentAt ==
    ASSUME NEW o \in MainOram, NEW bad, NEW id \in Blocks, id \notin bad, NEW d,
           \A x \in OramPlaces : Val(o, x).id = id => Val(o, x).data = d,
           (\A x \in OramPlaces : Val(o, x).id # id) => d = Unset
    PROVE  ContentOf(o, bad)[id] = d
<1>1. PATH_LENGTH \in Nat \ {0} /\ OVERFLOW \in Nat
  BY PathOramAssumption
<1>2. ASSUME NEW c \in Copies(o, id) PROVE c.data = d
  <2>1. PICK x \in OramPlaces : Val(o, x) = c /\ Val(o, x).id = id
    BY <1>1, CopiesIs DEF MainOram, OramPlaces
  <2> QED BY <2>1
<1>3. CASE Copies(o, id) = {}
  <2>1. \A x \in OramPlaces : Val(o, x).id # id
    BY <1>1, <1>3, CopiesIs DEF MainOram, OramPlaces
  <2> QED BY <1>3, <2>1 DEF ContentOf
<1>4. CASE Copies(o, id) # {}
  <2>1. (CHOOSE c \in Copies(o, id) : TRUE) \in Copies(o, id)
    BY <1>4
  <2>2. ContentOf(o, bad)[id] = (CHOOSE c \in Copies(o, id) : TRUE).data
    BY <1>4 DEF ContentOf, Held
  <2> QED BY <1>2, <2>1, <2>2
<1> QED BY <1>3, <1>4

(* A read that finds its block gives what the array holds. *)
LEMMA ReadContent ==
    ASSUME NEW o \in MainOram, NEW bad, NEW id \in Blocks, id \notin bad, NEW r,
           ReadFinds(r, o, PATH_LENGTH, OVERFLOW, id, Unset)
    PROVE  ContentOf(o, bad)[id] = r.data
<1>1. /\ \A x \in OramPlaces : Val(o, x).id = id => Val(o, x).data = r.data
      /\ (\A x \in OramPlaces : Val(o, x).id # id) => r.data = Unset
  BY DEF ReadFinds, OramPlaces
<1> QED BY <1>1, ContentAt

(* A block that was put is what the array then holds. *)
LEMMA PutContent ==
    ASSUME NEW a, a.o \in MainOram, NEW bad, NEW id \in Blocks, id \notin bad, NEW new, NEW d,
           AccessPuts(a, PATH_LENGTH, OVERFLOW, id, new, d)
    PROVE  ContentOf(a.o, bad)[id] = d
<1>1. ASSUME NEW x \in OramPlaces, Val(a.o, x).id = id PROVE Val(a.o, x).data = d
  <2>1. Val(a.o, x) = [id |-> id, position |-> 2 * new, data |-> d]
    BY <1>1 DEF AccessPuts, OramPlaces
  <2> QED BY <2>1
<1>2. \E x \in OramPlaces : Val(a.o, x).id = id
  BY DEF AccessPuts, OramPlaces
<1>3. PICK o \in MainOram : o = a.o
  OBVIOUS
<1>4. /\ \A x \in OramPlaces : Val(o, x).id = id => Val(o, x).data = d
      /\ (\A x \in OramPlaces : Val(o, x).id # id) => d = Unset
  BY <1>1, <1>2, <1>3
<1>5. ContentOf(o, bad)[id] = d
  BY <1>4, ContentAt
<1> QED BY <1>3, <1>5

(* Giving up blocks changes how those read, and no others. *)
LEMMA GiveUpContent ==
    ASSUME NEW o, NEW o2, NEW bad, NEW bad2, bad \in SUBSET bad2,
           \A k \in Blocks : k \notin bad2 => Copies(o2, k) = Copies(o, k)
    PROVE  ContentOf(o2, bad2) = [b \in Blocks |-> IF b \in bad2 THEN Unset ELSE ContentOf(o, bad)[b]]
<1>1. ASSUME NEW b \in Blocks
      PROVE  ContentOf(o2, bad2)[b] = IF b \in bad2 THEN Unset ELSE ContentOf(o, bad)[b]
  BY DEF ContentOf
<1>2. ContentOf(o2, bad2) = [b \in Blocks |-> ContentOf(o2, bad2)[b]]
  BY DEF ContentOf
<1> QED BY <1>1, <1>2

(* Two arrays differ at id at most. *)
OnlyAt(mem, mem2, id) == mem2 = [mem EXCEPT ![id] = mem2[id]]

(* The blocks other than id read as before, and so does id when it has been *)
(* given up.                                                                *)
LEMMA OthersContent ==
    ASSUME NEW o, NEW o2, NEW bad, NEW id \in Blocks,
           \A k \in Blocks : k # id => Copies(o2, k) = Copies(o, k)
    PROVE  /\ id \in bad => ContentOf(o2, bad) = ContentOf(o, bad)
           /\ OnlyAt(ContentOf(o, bad), ContentOf(o2, bad), id)
<1>1. \A b \in Blocks : b # id \/ b \in bad => ContentOf(o2, bad)[b] = ContentOf(o, bad)[b]
  BY DEF ContentOf
<1>2. /\ ContentOf(o2, bad) = [b \in Blocks |-> ContentOf(o2, bad)[b]]
      /\ ContentOf(o, bad) = [b \in Blocks |-> ContentOf(o, bad)[b]]
  BY DEF ContentOf
<1> QED BY <1>1, <1>2 DEF OnlyAt

(* A new ORAM, or one that was cleared, has no copy of any block. *)
LEMMA NewContent == \A id \in Blocks : Copies(new_oram(PATH_LENGTH, OVERFLOW), id) = {}
<1> SUFFICES ASSUME NEW id \in Blocks PROVE Copies(new_oram(PATH_LENGTH, OVERFLOW), id) = {}
  OBVIOUS
<1>1. PATH_LENGTH \in Nat \ {0} /\ OVERFLOW \in Nat
  BY PathOramAssumption
<1>2. PICK o \in MainOram : o = new_oram(PATH_LENGTH, OVERFLOW)
  BY NewOramEmpty DEF MainOram
<1>3. \A x \in Places(PATH_LENGTH, OVERFLOW) : Val(o, x).id # id
  BY <1>2, NewOramEmpty, MapBlocksIs, StashAssumption DEF OramPlaces
<1>4. ASSUME NEW c \in Copies(o, id) PROVE FALSE
  <2>1. \E x \in Places(PATH_LENGTH, OVERFLOW) : Val(o, x) = c /\ Val(o, x).id = id
    BY <1>1, CopiesIs DEF MainOram
  <2> QED BY <1>3, <2>1
<1> QED BY <1>2, <1>4

(* An access is a Get, a Put or a Fail of the array. *)
LEMMA AccessImplements ==
    ASSUME OramIInv, OramIInv', NEW id \in Blocks, Outcome(id)
    PROVE  Array!Get(id) \/ Array!Fail(id) \/ \E v \in Vals : Array!Put(id, v)
<1>1. /\ oram \in MainOram /\ Content = ContentOf(oram, Damaged)
      /\ oram' \in MainOram /\ Content' = ContentOf(oram', Damaged')
  <2>1. oram \in MainOram /\ oram' \in MainOram
    BY DEF OramIInv, BlockState, MainOram
  <2>2. Content' = ContentOf(oram', Damaged')
    BY DEF Content, ContentOf, Held
  <2> QED BY <2>1, <2>2, ContentIs
<1>2. Damaged' \subseteq Blocks
  BY DEF OramIInv, TypeOK, Damaged
<1>3. ASSUME Damaged \in SUBSET Damaged', id \in Damaged', ret' = "error",
             \A k \in Blocks : k \notin Damaged' => Copies(oram', k) = Copies(oram, k)
      PROVE  Array!Fail(id)
  <2>1. Content' = [b \in Blocks |-> IF b \in Damaged' THEN Unset ELSE Content[b]]
    BY <1>1, <1>3, GiveUpContent
  <2> QED BY <1>2, <1>3, <2>1 DEF Array!Fail, Array!GiveUp
<1>4. CASE oram' = oram /\ Damaged \in SUBSET Damaged' /\ id \in Damaged' /\ ret' = "error"
  BY <1>3, <1>4
<1>5. CASE \E r, a, new : \E f \in Accessors :
             /\ AccessOK(a, oram, PATH_LENGTH, OVERFLOW, Blocks, OramData, id)
             /\ oram' = a.o /\ r.data \in OramData
             /\ Damaged' = IF a.abort THEN Damaged \cup {id} ELSE Damaged
             /\ ret' = IF a.abort THEN "error" ELSE result(f, r.data)
             /\ id \notin Damaged => ReadFinds(r, oram, PATH_LENGTH, OVERFLOW, id, Unset)
             /\ id \notin Damaged' =>
                   AccessPuts(a, PATH_LENGTH, OVERFLOW, id, new, accessor(f, r.data))
  <2>1. PICK r, a, new : \E f \in Accessors :
          /\ AccessOK(a, oram, PATH_LENGTH, OVERFLOW, Blocks, OramData, id)
          /\ oram' = a.o /\ r.data \in OramData
          /\ Damaged' = IF a.abort THEN Damaged \cup {id} ELSE Damaged
          /\ ret' = IF a.abort THEN "error" ELSE result(f, r.data)
          /\ id \notin Damaged => ReadFinds(r, oram, PATH_LENGTH, OVERFLOW, id, Unset)
          /\ id \notin Damaged' =>
                AccessPuts(a, PATH_LENGTH, OVERFLOW, id, new, accessor(f, r.data))
    BY <1>5
  <2>2. PICK f \in Accessors :
          /\ AccessOK(a, oram, PATH_LENGTH, OVERFLOW, Blocks, OramData, id)
          /\ oram' = a.o /\ r.data \in OramData
          /\ Damaged' = IF a.abort THEN Damaged \cup {id} ELSE Damaged
          /\ ret' = IF a.abort THEN "error" ELSE result(f, r.data)
          /\ id \notin Damaged => ReadFinds(r, oram, PATH_LENGTH, OVERFLOW, id, Unset)
          /\ id \notin Damaged' =>
                AccessPuts(a, PATH_LENGTH, OVERFLOW, id, new, accessor(f, r.data))
    BY <2>1
  <2>3. a.abort \in BOOLEAN /\ \A k \in Blocks \ {id} : SameFor(oram, oram', PATH_LENGTH, OVERFLOW, k)
    BY <2>2 DEF AccessOK
  <2>4. \A k \in Blocks : k # id => Copies(oram', k) = Copies(oram, k)
    BY <1>1, <2>3, SameContent
  <2>5. CASE a.abort
    BY <1>3, <2>2, <2>4, <2>5
  <2>6. CASE ~a.abort
    <3>1. Damaged' = Damaged /\ ret' = result(f, r.data)
      BY <2>2, <2>6
    <3>2. /\ id \in Damaged => Content' = Content
          /\ Content' = [Content EXCEPT ![id] = Content'[id]]
      <4>1. /\ id \in Damaged => ContentOf(oram', Damaged) = ContentOf(oram, Damaged)
            /\ OnlyAt(ContentOf(oram, Damaged), ContentOf(oram', Damaged), id)
        BY <2>4, OthersContent
      <4> QED BY <1>1, <3>1, <4>1 DEF OnlyAt
    <3>3. ASSUME id \notin Damaged
          PROVE  Content[id] = r.data /\ Content'[id] = accessor(f, r.data)
      <4>1. Content[id] = r.data
        BY <1>1, <2>2, <3>3, ReadContent
      <4>2. ContentOf(a.o, Damaged)[id] = accessor(f, r.data)
        BY <1>1, <2>2, <3>1, <3>3, PutContent
      <4> QED BY <1>1, <2>2, <3>1, <4>1, <4>2
    <3>4. CASE f.op = "put"
      <4>1. f \in [op : {"put"}, val : Vals]
        BY <3>4 DEF Accessors
      <4>2. f.val \in Vals /\ ret' = "ok" /\ accessor(f, r.data) = f.val
        BY <3>1, <3>4, <4>1 DEF result, accessor
      <4>3. Content' = IF id \in Damaged THEN Content ELSE [Content EXCEPT ![id] = f.val]
        BY <3>2, <3>3, <4>2
      <4>4. Array!Put(id, f.val)
        BY <3>1, <4>2, <4>3 DEF Array!Put
      <4> QED BY <4>2, <4>4
    <3>5. CASE f.op # "put"
      <4>1. ret' = r.data /\ accessor(f, r.data) = r.data
        BY <3>1, <3>5 DEF result, accessor
      <4>2. Content' = Content
        <5>1. CASE id \in Damaged
          BY <3>2, <5>1
        <5>2. CASE id \notin Damaged
          <6>1. Content'[id] = Content[id]
            BY <3>3, <4>1, <5>2
          <6>2. Content = [b \in Blocks |-> Content[b]]
            BY DEF Content
          <6> QED BY <3>2, <6>1, <6>2
        <5> QED BY <5>1, <5>2
      <4>3. IF id \in Damaged THEN ret' \in Vals \cup {Unset} ELSE ret' = Content[id]
        BY <2>2, <3>3, <4>1 DEF OramData
      <4>4. Array!Get(id)
        BY <3>1, <4>2, <4>3 DEF Array!Get
      <4> QED BY <4>4
    <3> QED BY <3>4, <3>5
  <2> QED BY <2>3, <2>5, <2>6
<1> QED BY <1>4, <1>5 DEF Outcome

(* Steps of the ORAM are steps of the array. *)
LEMMA NextImplements ==
    ASSUME OramIInv, OramIInv', [Next]_vars
    PROVE  [Array!Next]_<<Content, ret, Damaged>>
<1>1. CASE \E d \in [0 .. ENTRIES_PER_BLOCK - 1 -> Positions(PATH_LENGTH)],
              new \in Positions(PATH_LENGTH_0) : oram_position_map_create(d, new)
  <2>1. oram' = oram /\ lost' = lost /\ unmapped \in SUBSET unmapped' /\ ret' = "ok"
    BY <1>1, CreateKeeps DEF GoodData
  <2>2. Damaged \in SUBSET Damaged' /\ Damaged' \subseteq Blocks
    BY <2>1 DEF Damaged, OramIInv, TypeOK
  <2>3. Content = ContentOf(oram, Damaged) /\ Content' = ContentOf(oram', Damaged')
    BY DEF Content, ContentOf, Held
  <2>4. Content' = [b \in Blocks |-> IF b \in Damaged' THEN Unset ELSE Content[b]]
    BY <2>1, <2>2, <2>3, GiveUpContent
  <2>5. Array!Setup
    BY <2>1, <2>2, <2>4 DEF Array!Setup, Array!GiveUp
  <2> QED BY <2>5 DEF Array!Next
<1>2. CASE \E id \in Blocks, new \in Positions(PATH_LENGTH), new_0 \in Positions(PATH_LENGTH_0) :
              access(id, new, new_0)
  <2>1. PICK id \in Blocks : Outcome(id)
    BY <1>2, AccessInv
  <2>2. Array!Get(id) \/ Array!Fail(id) \/ \E v \in Vals : Array!Put(id, v)
    BY <2>1, AccessImplements
  <2> QED BY <2>2 DEF Array!Next
<1>3. CASE oram_clear
  <2>1. oram' = new_oram(PATH_LENGTH, OVERFLOW) /\ lost' = {} /\ unmapped' = unmapped /\ ret' = "ok"
    BY <1>3 DEF oram_clear
  <2>2. Damaged' \subseteq Damaged
    BY <2>1 DEF Damaged
  <2>3. Content' = [b \in Blocks |-> Unset]
    BY <2>1, NewContent DEF Content, ContentOf, Held
  <2>4. Array!Clear
    BY <2>1, <2>2, <2>3 DEF Array!Clear
  <2> QED BY <2>4 DEF Array!Next
<1>4. CASE UNCHANGED vars
  BY <1>4 DEF vars, Content, Damaged
<1> QED BY <1>1, <1>2, <1>3, <1>4 DEF Next

(* The ORAM is an array: oram_get gives what oram_put stored last,          *)
(* oram_clear empties it, and an access that fails gives up the accessed    *)
(* block or the blocks that share its block of the position map, and no     *)
(* others.                                                                  *)
THEOREM OramImplementsArray == Spec => ImplementsArray
<1>1. Init => Array!Init
  <2> SUFFICES ASSUME Init PROVE Array!Init
    OBVIOUS
  <2>1. oram = new_oram(PATH_LENGTH, OVERFLOW) /\ Damaged = {} /\ ret = "none"
    BY DEF Init, Damaged
  <2>2. Content = [b \in Blocks |-> Unset]
    BY <2>1, NewContent DEF Content
  <2> QED BY <2>1, <2>2 DEF Array!Init
<1>2. OramIInv /\ OramIInv' /\ [Next]_vars => [Array!Next]_<<Content, ret, Damaged>>
  BY NextImplements
<1> QED BY <1>1, <1>2, OramIInvHolds, PTL DEF Spec, ImplementsArray, Array!Spec
===============================================================================
