---------------------------- MODULE NumberFacts ----------------------------
(***************************************************************************)
(* Facts about numbers that the proofs of the components share: % for a    *)
(* divisor that is a constant of the specification and not a literal (most *)
(* are about the start of a page, x - x % p, the address that erase_page   *)
(* computes, delta.c:17), and induction.                                   *)
(***************************************************************************)
EXTENDS Integers, TLAPS, WellFoundedInduction

(* Division with remainder. *)
LEMMA DivMod ==
  ASSUME NEW p \in Nat \ {0}, NEW x \in Int
  PROVE  /\ x % p \in 0 .. p - 1
         /\ x \div p \in Int
         /\ x = p * (x \div p) + (x % p)
BY Z3

(* Multiplication by a positive number is strictly monotone, *)
LEMMA ProductGap ==
  ASSUME NEW p \in Nat \ {0}, NEW a \in Int, NEW b \in Int, a < b
  PROVE  p * a + p <= p * b
<1>1. p * (a + 1) <= p * b
  BY a + 1 <= b, Z3
<1>2. p * (a + 1) = p * a + p
  BY Z3
<1> QED
  BY <1>1, <1>2

(* and so is its inverse. *)
LEMMA ProductOrder ==
  ASSUME NEW p \in Nat \ {0}, NEW a \in Int, NEW b \in Int, p * a < p * b
  PROVE  a < b
<1> SUFFICES ASSUME b <= a
             PROVE  FALSE
  BY Z3
<1>1. p * b <= p * a
  BY Z3
<1> QED
  BY <1>1, Z3

(* A quotient and a remainder below the divisor are the division's. *)
LEMMA RemainderUnique ==
  ASSUME NEW p \in Nat \ {0}, NEW q \in Int, NEW r \in 0 .. p - 1
  PROVE  (p * q + r) % p = r
<1> DEFINE x == p * q + r
           k == x \div p
           m == x % p
<1>1. m \in 0 .. p - 1 /\ k \in Int /\ x = p * k + m
  <2>1. x \in Int
    BY Z3
  <2> QED
    BY <2>1, DivMod
<1> HIDE DEF k, m
<1>2. ~(k < q)
  <2> SUFFICES ASSUME k < q
               PROVE  FALSE
    OBVIOUS
  <2>1. p * k + p <= p * q
    BY <1>1, ProductGap
  <2> QED
    BY <2>1, <1>1, Z3
<1>3. ~(q < k)
  <2> SUFFICES ASSUME q < k
               PROVE  FALSE
    OBVIOUS
  <2>1. p * q + p <= p * k
    BY <1>1, ProductGap
  <2> QED
    BY <2>1, <1>1, Z3
<1>4. q = k
  BY <1>1, <1>2, <1>3, Z3
<1>5. p * q = p * k
  BY <1>4
<1>6. m = r
  BY <1>1, <1>5, Z3
<1> QED
  BY <1>6 DEF m

(* A page that holds an address at or above an aligned bound lies above it, *)
LEMMA PageAbove ==
  ASSUME NEW p \in Nat \ {0}, NEW x \in Int, NEW s \in Int,
         s % p = 0, s <= x
  PROVE  s <= x - (x % p)
BY Z3

(* and one that holds an address below an aligned bound lies below it.     *)
LEMMA PageBelow ==
  ASSUME NEW p \in Nat \ {0}, NEW x \in Int, NEW s \in Int,
         s % p = 0, x < s
  PROVE  x - (x % p) + p <= s
<1> DEFINE k == x \div p
           m == x % p
           j == s \div p
<1>1. m \in 0 .. p - 1 /\ k \in Int /\ x = p * k + m
  BY DivMod
<1>2. j \in Int /\ s = p * j
  BY DivMod
<1> HIDE DEF k, m, j
<1>3. p * k < p * j
  BY <1>1, <1>2, Z3
<1>4. k < j
  BY <1>1, <1>2, <1>3, ProductOrder
<1>5. p * k + p <= p * j
  BY <1>1, <1>2, <1>4, ProductGap
<1>6. x - m + p <= s
  BY <1>1, <1>2, <1>5, Z3
<1> QED
  BY <1>6 DEF m

(* Inside the page that starts at s, the remainder is the offset.          *)
LEMMA OffsetInPage ==
  ASSUME NEW p \in Nat \ {0}, NEW s \in Int, s % p = 0, NEW r \in 0 .. p - 1
  PROVE  (s + r) % p = r
<1>1. s = p * (s \div p) /\ s \div p \in Int
  BY DivMod
<1>2. (p * (s \div p) + r) % p = r
  BY <1>1, RemainderUnique
<1> QED
  BY <1>1, <1>2

(* The sum of two aligned numbers is aligned.                              *)
LEMMA AlignedSum ==
  ASSUME NEW p \in Nat \ {0}, NEW s \in Int, NEW t \in Int,
         s % p = 0, t % p = 0
  PROVE  (s + t) % p = 0
<1> DEFINE i == s \div p
           j == t \div p
<1>1. i \in Int /\ s = p * i
  BY DivMod
<1>2. j \in Int /\ t = p * j
  BY DivMod
<1> HIDE DEF i, j
<1>3. s + t = p * (i + j) + 0
  BY <1>1, <1>2, Z3
<1>4. (p * (i + j) + 0) % p = 0
  BY <1>1, <1>2, RemainderUnique
<1> QED
  BY <1>3, <1>4

-----------------------------------------------------------------------------
(***************************************************************************)
(* Induction over the natural numbers, said of a set instead of an         *)
(* operator: it follows from the order of Nat being well-founded.          *)
(***************************************************************************)
LEMMA LessIsWellFounded ==
  \E R : IsWellFoundedOn(R, Nat) /\ \A x, y \in Nat : << y, x >> \in R <=> y < x
<1>1. \A x, y \in Nat : << y, x >> \in OpToRel(<, Nat) <=> y < x
  BY DEF OpToRel
<1> QED
  BY <1>1, NatLessThanWellFounded

LEMMA LeastNumber ==
  ASSUME NEW T, T \subseteq Nat, T # {}
  PROVE  \E m \in T : \A n \in T : m <= n
<1>1. PICK R : IsWellFoundedOn(R, Nat) /\ \A x, y \in Nat : << y, x >> \in R <=> y < x
  BY LessIsWellFounded
<1>2. \E x \in T : \A y \in T : ~(<< y, x >> \in R)
  BY <1>1, WFMin, Zenon
<1>3. \A x, y \in Nat : << y, x >> \in R <=> y < x
  BY <1>1, Zenon
<1>4. \E x \in T : \A y \in T : ~(y < x)
  BY <1>2, <1>3, Zenon
<1> QED
  BY <1>4

LEMMA Induction ==
  ASSUME NEW S, 0 \in S, \A n \in Nat : n \in S => n + 1 \in S
  PROVE  Nat \subseteq S
<1>1. ASSUME NEW k \in Nat, k \notin S
      PROVE  FALSE
  <2>1. PICK m \in Nat \ S : \A n \in Nat \ S : m <= n
    BY <1>1, LeastNumber
  <2>2. m # 0 /\ m - 1 \in Nat
    BY <2>1
  <2>3. m - 1 \in S
    BY <2>1, <2>2
  <2> QED
    BY <2>1, <2>2, <2>3
<1> QED
  BY <1>1

(* A function on Nat that is defined by its value at 0 and from one number *)
(* to the next.                                                            *)
Iterates(g, D, a, F) ==
  /\ g \in [Nat -> D] /\ g[0] = a
  /\ \A n \in Nat : g[n + 1] = F[n][g[n]]

LEMMA PrimitiveRecursion ==
  ASSUME NEW D, NEW a \in D, NEW F \in [Nat -> [D -> D]]
  PROVE  \E g : Iterates(g, D, a, F)
<1> DEFINE Part(n) == {g \in [0 .. n -> D] :
                         g[0] = a /\ \A i \in 0 .. n - 1 : g[i + 1] = F[i][g[i]]}
<1>1. ASSUME NEW n \in Nat
      PROVE  Part(n) # {}
  <2> DEFINE S == {k \in Nat : Part(k) # {}}
  <2>1. 0 \in S
    <3>1. [i \in 0 .. 0 |-> a] \in Part(0)
      OBVIOUS
    <3> QED
      BY <3>1
  <2>2. ASSUME NEW k \in Nat, k \in S
        PROVE  k + 1 \in S
    <3>1. PICK g \in Part(k) : TRUE
      BY <2>2
    <3> DEFINE h == [i \in 0 .. k + 1 |-> IF i <= k THEN g[i] ELSE F[k][g[k]]]
    <3>2. h \in [0 .. k + 1 -> D]
      BY <3>1
    <3>3. h[0] = a
      BY <3>1
    <3>4. \A i \in 0 .. k : h[i + 1] = F[i][h[i]]
      BY <3>1
    <3>5. h \in Part(k + 1)
      BY <3>2, <3>3, <3>4
    <3> QED
      BY <3>5
  <2> QED
    <3> HIDE DEF S
    <3>1. Nat \subseteq S
      BY <2>1, <2>2, Induction
    <3> QED
      BY <3>1 DEF S
<1>2. ASSUME NEW n \in Nat, NEW m \in 0 .. n, NEW g \in Part(m), NEW h \in Part(n)
      PROVE  g[m] = h[m]
  <2> DEFINE S == {k \in Nat : k <= m => g[k] = h[k]}
  <2>1. 0 \in S
    OBVIOUS
  <2>2. ASSUME NEW k \in Nat, k \in S
        PROVE  k + 1 \in S
    BY <2>2
  <2> QED
    <3> HIDE DEF S
    <3>1. Nat \subseteq S
      BY <2>1, <2>2, Induction
    <3> QED
      BY <3>1 DEF S
<1> DEFINE G == [n \in Nat |-> (CHOOSE g \in Part(n) : TRUE)[n]]
<1>3. ASSUME NEW n \in Nat
      PROVE  G[n] \in D /\ \A m \in 0 .. n, h \in Part(n) : G[m] = h[m]
  <2>1. ASSUME NEW m \in Nat
        PROVE  (CHOOSE g \in Part(m) : TRUE) \in Part(m)
    <3>1. \E g : g \in Part(m)
      BY <1>1
    <3> QED
      BY <3>1, Zenon
  <2> HIDE DEF Part
  <2>2. \A m \in Nat : G[m] = (CHOOSE g \in Part(m) : TRUE)[m]
    OBVIOUS
  <2> HIDE DEF G
  <2>3. \A m \in 0 .. n, h \in Part(n) : G[m] = h[m]
    BY <1>2, <2>1, <2>2
  <2>4. PICK h : h \in Part(n)
    BY <1>1
  <2>5. h[n] \in D
    BY <2>4 DEF Part
  <2> QED
    BY <2>3, <2>4, <2>5
<1>4. G \in [Nat -> D]
  BY <1>3
<1>5. G[0] = a
  <2>1. PICK h : h \in Part(0)
    BY <1>1
  <2>2. h[0] = a /\ G[0] = h[0]
    BY <1>3, <2>1
  <2> QED
    BY <2>2
<1>6. ASSUME NEW n \in Nat
      PROVE  G[n + 1] = F[n][G[n]]
  <2>1. PICK h : h \in Part(n + 1)
    <3> HIDE DEF Part
    <3> QED
      BY <1>1, n + 1 \in Nat
  <2>2. h[n + 1] = F[n][h[n]]
    BY <2>1
  <2>3. G[n + 1] = h[n + 1] /\ G[n] = h[n]
    <3> HIDE DEF Part, G
    <3> QED
      BY <1>3, <2>1
  <2> QED
    BY <2>2, <2>3
<1> HIDE DEF G
<1>7. Iterates(G, D, a, F)
  BY <1>4, <1>5, <1>6 DEF Iterates
<1> QED
  BY <1>7

=============================================================================
