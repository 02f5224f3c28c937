--------------------------- MODULE LpLockerProofs ---------------------------
(***************************************************************************)
(* LpLocker and RewardVault for every pool, every amount, every order of   *)
(* trades, every vesting period and number of slots. A lock stays worth its*)
(* principal and the last check of collect_fees never refuses fees; a      *)
(* deposit to a reward vault always finds a slot and vests when its bucket *)
(* ends.                                                                   *)
(***************************************************************************)
EXTENDS LpLocker, RewardVault, FiniteSums, WellFoundedInduction, FiniteSetTheorems, TLAPS

-----------------------------------------------------------------------------
(* Products.                                                               *)
LEMMA ProductTyped == ASSUME NEW a \in Nat, NEW b \in Nat PROVE a * b \in Nat
  OBVIOUS

(* Products keep the order of their factors.                               *)
LEMMA ProductGrows ==
  ASSUME NEW a \in Nat, NEW b \in Nat, NEW c \in Nat, NEW d \in Nat, a <= b, c <= d
  PROVE  a * c <= b * d
<1>1. a * c <= b * c
  OBVIOUS
<1>2. b * c <= b * d
  OBVIOUS
<1> QED
  BY <1>1, <1>2

(* A common factor cancels.                                                *)
LEMMA FactorCancels ==
  ASSUME NEW a \in Nat, NEW b \in Nat, NEW c \in Nat \ {0}, a * c <= b * c
  PROVE  a <= b
  OBVIOUS

(* Squares order their roots.                                              *)
LEMMA RootsOrdered ==
  ASSUME NEW a \in Nat, NEW b \in Nat, a * a < (b + 1) * (b + 1)
  PROVE  a <= b
<1> SUFFICES ASSUME b + 1 <= a PROVE FALSE
  OBVIOUS
<1> QED
  BY ProductGrows

(* A square of a product is the product of the squares.                    *)
LEMMA SquareOfProduct ==
  ASSUME NEW a \in Nat, NEW b \in Nat
  PROVE  (a * b) * (a * b) = (a * a) * (b * b)
  OBVIOUS

-----------------------------------------------------------------------------
(* Division rounds down, or up.                                            *)
LEMMA FloorBounds ==
  ASSUME NEW a \in Nat, NEW b \in Nat, NEW c \in Nat \ {0}
  PROVE  /\ MulDivFloor(a, b, c) \in Nat
         /\ MulDivFloor(a, b, c) * c <= a * b
         /\ a * b < (MulDivFloor(a, b, c) + 1) * c
<1>1. a * b \in Nat
  OBVIOUS
<1> DEFINE n == a * b
<1>2. n \in Nat
  BY <1>1
<1> HIDE DEF n
<1>3. n \div c \in Nat /\ (n \div c) * c <= n /\ n < (n \div c + 1) * c
  BY <1>2
<1> QED
  BY <1>3 DEF n, MulDivFloor

(* Division that rounds up.                                                *)
LEMMA CeilBounds ==
  ASSUME NEW a \in Nat, NEW b \in Nat, NEW c \in Nat \ {0}
  PROVE  /\ MulDivCeil(a, b, c) \in Nat
         /\ a * b <= MulDivCeil(a, b, c) * c
         /\ MulDivCeil(a, b, c) * c < a * b + c
<1> DEFINE n == a * b  m == n + c - 1
<1>1. n \in Nat /\ m \in Nat
  OBVIOUS
<1> HIDE DEF n
<1>2. m \div c \in Nat /\ (m \div c) * c <= m /\ m < (m \div c + 1) * c
  BY <1>1
<1>3. (m \div c + 1) * c = (m \div c) * c + c
  BY <1>2
<1> QED
  BY <1>1, <1>2, <1>3 DEF n, MulDivCeil

(* A nonempty set of naturals has a smallest.                              *)
LEMMA SmallestNat ==
  ASSUME NEW S, S \subseteq Nat, S # {}
  PROVE  \E r \in S : \A k \in S : r <= k
<1> DEFINE Less == OpToRel(<, Nat)
<1>1. IsWellFoundedOn(Less, Nat)
  BY NatLessThanWellFounded
<1>2. \A k, r \in Nat : k < r => <<k, r>> \in Less
  BY DEF OpToRel
<1> HIDE DEF Less
<1>3. PICK r \in S : \A k \in S : ~ (<<k, r>> \in Less)
  BY <1>1, WFMin
<1>4. ASSUME NEW k \in S, ~(r <= k) PROVE FALSE
  <2>1. k \in Nat /\ r \in Nat
    OBVIOUS
  <2>2. k < r
    BY <1>4, <2>1
  <2>3. <<k, r>> \in Less
    BY <1>2, <2>1, <2>2
  <2> QED
    BY <1>3, <2>3
<1> QED
  BY <1>4

(* isqrt: the root, rounded down.                                          *)
LEMMA RootBounds ==
  ASSUME NEW n \in Nat
  PROVE  /\ Isqrt(n) \in Nat
         /\ Isqrt(n) * Isqrt(n) <= n
         /\ n < (Isqrt(n) + 1) * (Isqrt(n) + 1)
<1> DEFINE Above == {m \in Nat : n < (m + 1) * (m + 1)}
<1>1. n \in Above
  <2>1. n + 1 <= (n + 1) * (n + 1)
    BY ProductGrows
  <2> QED
    BY <2>1
<1>2. PICK r \in Above : \A k \in Above : r <= k
  <2>1. Above \subseteq Nat /\ Above # {}
    BY <1>1
  <2> HIDE DEF Above
  <2> QED
    BY <2>1, SmallestNat
<1>3. r * r <= n
  <2>1. CASE r = 0
    BY <2>1
  <2>2. CASE r # 0
    <3>1. r - 1 \in Nat /\ r - 1 \notin Above
      BY <1>2, <2>2
    <3>2. ~(n < (r - 1 + 1) * (r - 1 + 1))
      BY <3>1
    <3> QED
      BY <3>2, <1>2
  <2> QED
    BY <2>1, <2>2
<1>4. r <= r * r
  <2>1. CASE r = 0
    BY <2>1
  <2>2. CASE r # 0
    <3>1. 1 * r <= r * r
      BY <1>2, <2>2, ProductGrows
    <3> QED
      BY <3>1, <1>2
  <2> QED
    BY <2>1, <2>2
<1>5. r \in 0..n /\ r * r <= n /\ n < (r + 1) * (r + 1)
  BY <1>2, <1>3, <1>4
<1>6. Isqrt(n) \in 0..n /\ Isqrt(n) * Isqrt(n) <= n /\ n < (Isqrt(n) + 1) * (Isqrt(n) + 1)
  BY <1>5 DEF Isqrt
<1> QED
  BY <1>6


-----------------------------------------------------------------------------
(* isqrt's loop: one step of Newton's method.                              *)

(* Four times a product is at most the square of the sum.                  *)
LEMMA FourProducts ==
  ASSUME NEW a \in Nat, NEW b \in Nat
  PROVE  4 * (a * b) <= (a + b) * (a + b)
<1>1. (a + b) * (a + b) = 4 * (a * b) + (a - b) * (a - b)
  OBVIOUS
<1>2. (a - b) * (a - b) >= 0
  OBVIOUS
<1>3. a * b \in Nat /\ (a + b) * (a + b) \in Nat /\ (a - b) * (a - b) \in Int
  OBVIOUS
<1> QED
  BY <1>1, <1>2, <1>3

(* Half of a natural number, rounded down.                                 *)
LEMMA HalfBounds ==
  ASSUME NEW a \in Nat
  PROVE  a \div 2 \in Nat /\ 2 * (a \div 2) <= a /\ a <= 2 * (a \div 2) + 1
OBVIOUS

(* A step never goes under the root, and goes down from anything above it. *)
LEMMA NewtonStep ==
  ASSUME NEW n \in Nat \ {0}, NEW x \in Nat \ {0}
  PROVE  LET r == Isqrt(n)
             y == (x + n \div x) \div 2
         IN  /\ r \in Nat /\ y \in Nat
             /\ r <= y
             /\ r < x => y < x
<1> DEFINE r == Isqrt(n)
           q == n \div x
           y == (x + q) \div 2
<1>1. r \in Nat /\ r * r <= n /\ n < (r + 1) * (r + 1)
  BY RootBounds
<1>2. q \in Nat /\ q * x <= n /\ n < (q + 1) * x
  OBVIOUS
<1> HIDE DEF r, q
<1>3. y \in Nat /\ 2 * y <= x + q /\ x + q <= 2 * y + 1
  BY <1>2, HalfBounds
<1> HIDE DEF y
<1>4. r <= y
  <2> DEFINE s == x + q + 1
  <2>1. 4 * (x * (q + 1)) <= s * s
    <3>1. q + 1 \in Nat /\ x + (q + 1) = s
      BY <1>2
    <3>2. 4 * (x * (q + 1)) <= (x + (q + 1)) * (x + (q + 1))
      BY <3>1, FourProducts
    <3> QED
      BY <3>1, <3>2
  <2>2. x * (q + 1) = (q + 1) * x
    BY <1>2
  <2>3. (2 * r) * (2 * r) = 4 * (r * r)
    BY <1>1
  <2>4. s \in Nat /\ s * s \in Nat /\ (q + 1) * x \in Nat /\ r * r \in Nat
    BY <1>1, <1>2
  <2>5. (2 * r) * (2 * r) < s * s
    <3> DEFINE a == (q + 1) * x  b == r * r  c == s * s
    <3>1. a \in Nat /\ b \in Nat /\ c \in Nat /\ b <= n /\ n < a /\ 4 * a <= c
      BY <1>1, <1>2, <2>1, <2>2, <2>4
    <3> HIDE DEF a, b, c
    <3>2. 4 * b < c
      BY <3>1
    <3> QED
      BY <2>3, <3>2 DEF b, c
  <2>6. 2 * r < s
    <3>1. 2 * r \in Nat /\ s - 1 \in Nat /\ s - 1 + 1 = s
      BY <1>1, <1>2, <2>4
    <3>2. (2 * r) * (2 * r) < (s - 1 + 1) * (s - 1 + 1)
      BY <2>5, <3>1
    <3> HIDE DEF s
    <3>3. 2 * r <= s - 1
      BY <3>1, <3>2, RootsOrdered
    <3> QED
      BY <2>4, <3>1, <3>3
  <2> QED
    BY <1>1, <1>2, <1>3, <2>6
<1>5. ASSUME r < x PROVE y < x
  <2>1. (r + 1) * (r + 1) <= x * x
    BY <1>1, <1>5, ProductGrows
  <2>2. q < x
    <3> SUFFICES ASSUME x <= q PROVE FALSE
      BY <1>2
    <3>1. x * x <= q * x
      BY <1>2, ProductGrows
    <3>2. x * x \in Nat /\ q * x \in Nat /\ (r + 1) * (r + 1) \in Nat
      BY <1>1, <1>2
    <3> QED
      BY <1>1, <1>2, <2>1, <3>1, <3>2
  <2> QED
    BY <1>2, <1>3, <2>2
<1> QED
  BY <1>1, <1>3, <1>4, <1>5 DEF r, q, y

(* What the loop returns from each x: the root from anything not below it. *)
(* (Below it the first step goes up, and the loop ends where it is.)       *)
LoopEnds(n, top) == [x \in 1..top |-> IF x <= Isqrt(n) THEN x ELSE Isqrt(n)]
Descends(f, n, top) ==
  f = [x \in 1..top |-> LET y == (x + n \div x) \div 2 IN IF y >= x THEN x ELSE f[y]]

LEMMA LoopEndsDescends ==
  ASSUME NEW n \in Nat \ {0}, NEW top \in Nat
  PROVE  Descends(LoopEnds(n, top), n, top)
<1> DEFINE r == Isqrt(n)
           f == LoopEnds(n, top)
           next(x) == (x + n \div x) \div 2
<1>0. r \in Nat /\ r # 0
  BY RootBounds
<1>1. ASSUME NEW x \in 1..top
      PROVE  f[x] = IF next(x) >= x THEN x ELSE f[next(x)]
  <2>1. x \in Nat \ {0}
    OBVIOUS
  <2>2. next(x) \in Nat /\ r <= next(x) /\ (r < x => next(x) < x)
    BY <2>1, NewtonStep
  <2>3. f[x] = IF x <= r THEN x ELSE r
    BY DEF LoopEnds
  <2> DEFINE y == next(x)
  <2> HIDE DEF y, r
  <2>4. CASE x <= r
    BY <1>0, <2>1, <2>2, <2>3, <2>4 DEF y
  <2>5. CASE ~(x <= r)
    <3>1. y < x /\ y \in 1..top /\ r <= y
      BY <1>0, <2>1, <2>2, <2>5 DEF y
    <3>2. f[y] = IF y <= r THEN y ELSE r
      BY <3>1 DEF LoopEnds, r
    <3>3. f[y] = r
      BY <1>0, <3>1, <3>2
    <3>4. ~(next(x) >= x)
      BY <2>1, <3>1 DEF y
    <3> QED
      BY <2>3, <2>5, <3>3, <3>4 DEF y
  <2> QED
    BY <2>4, <2>5
<1>2. f = [x \in 1..top |-> f[x]]
  BY DEF LoopEnds
<1>3. f = [x \in 1..top |-> IF next(x) >= x THEN x ELSE f[next(x)]]
  <2> HIDE DEF f, next
  <2> QED
    BY <1>1, <1>2
<1> QED
  BY <1>3 DEF Descends

(* There is but one function that descends so.                             *)
LEMMA DescentIsOne ==
  ASSUME NEW n \in Nat \ {0}, NEW top \in Nat, NEW f, Descends(f, n, top)
  PROVE  \A x \in 1..top : f[x] = LoopEnds(n, top)[x]
<1> DEFINE g == LoopEnds(n, top)
           next(x) == (x + n \div x) \div 2
           Wrong == {x \in 1..top : f[x] # g[x]}
<1>1. \A x \in 1..top : /\ f[x] = IF next(x) >= x THEN x ELSE f[next(x)]
                        /\ g[x] = IF next(x) >= x THEN x ELSE g[next(x)]
                        /\ next(x) \in Nat \ {0}
  <2>1. Descends(g, n, top)
    BY LoopEndsDescends
  <2>2. f = [x \in 1..top |-> IF next(x) >= x THEN x ELSE f[next(x)]]
    BY DEF Descends
  <2>3. g = [x \in 1..top |-> IF next(x) >= x THEN x ELSE g[next(x)]]
    <3> HIDE DEF g
    <3> QED
      BY <2>1 DEF Descends
  <2>4. ASSUME NEW x \in 1..top PROVE next(x) \in Nat \ {0}
    <3>1. Isqrt(n) \in Nat /\ Isqrt(n) # 0
      BY RootBounds
    <3>2. x \in Nat \ {0}
      OBVIOUS
    <3>3. next(x) \in Nat /\ Isqrt(n) <= next(x)
      BY <3>2, NewtonStep
    <3> QED
      BY <3>1, <3>3
  <2> HIDE DEF next, g
  <2>5. ASSUME NEW x \in 1..top
        PROVE  /\ f[x] = IF next(x) >= x THEN x ELSE f[next(x)]
               /\ g[x] = IF next(x) >= x THEN x ELSE g[next(x)]
    <3> DEFINE F(z) == IF next(z) >= z THEN z ELSE f[next(z)]
               G(z) == IF next(z) >= z THEN z ELSE g[next(z)]
    <3>1. f = [z \in 1..top |-> F(z)] /\ g = [z \in 1..top |-> G(z)]
      BY <2>2, <2>3
    <3> HIDE DEF F, G
    <3>2. f[x] = F(x) /\ g[x] = G(x)
      BY <3>1
    <3> QED
      BY <3>2 DEF F, G
  <2> QED
    BY <2>4, <2>5
<1>2. ASSUME NEW x \in 1..top, \A z \in 1..top : z < x => f[z] = g[z]
      PROVE  f[x] = g[x]
  <2> DEFINE y == next(x)
  <2>1. /\ f[x] = IF y >= x THEN x ELSE f[y]
        /\ g[x] = IF y >= x THEN x ELSE g[y]
        /\ y \in Nat \ {0}
    BY <1>1
  <2> HIDE DEF y, g
  <2>2. CASE y >= x
    BY <2>1, <2>2
  <2>3. CASE ~(y >= x)
    <3>1. y \in 1..top /\ y < x
      BY <2>1, <2>3
    <3>2. f[y] = g[y]
      BY <1>2, <3>1
    <3> QED
      BY <2>1, <2>3, <3>2
  <2> QED
    BY <2>2, <2>3
<1> HIDE DEF g
<1>3. Wrong = {}
  <2> SUFFICES ASSUME Wrong # {} PROVE FALSE
    OBVIOUS
  <2>1. Wrong \subseteq Nat
    OBVIOUS
  <2> HIDE DEF Wrong
  <2>2. PICK x \in Wrong : \A z \in Wrong : x <= z
    BY <2>1, SmallestNat
  <2>3. \A z \in 1..top : z < x => f[z] = g[z]
    BY <2>1, <2>2 DEF Wrong
  <2>4. x \in 1..top
    BY <2>2 DEF Wrong
  <2>5. f[x] = g[x]
    BY <1>2, <2>3, <2>4
  <2> QED
    BY <2>2, <2>5 DEF Wrong
<1> QED
  BY <1>3 DEF g

(* Whatever the loop starts from, so it is not below the root, it ends, at *)
(* the root rounded down.                                                  *)
LEMMA LoopEndsAtRoot ==
  ASSUME NEW n \in Nat \ {0}, NEW top \in Nat, NEW x \in 1..top, Isqrt(n) <= x
  PROVE  NewtonDown(n, top)[x] = Isqrt(n)
<1>1. NewtonDown(n, top) = CHOOSE f : Descends(f, n, top)
  BY DEF NewtonDown, Descends
<1>2. Descends(NewtonDown(n, top), n, top)
  BY <1>1, LoopEndsDescends
<1>3. NewtonDown(n, top)[x] = LoopEnds(n, top)[x]
  BY <1>2, DescentIsOne
<1>4. Isqrt(n) \in Nat /\ x \in Nat
  BY RootBounds
<1>5. LoopEnds(n, top)[x] = Isqrt(n)
  BY <1>4 DEF LoopEnds
<1> QED
  BY <1>3, <1>5

(* The powers of two up to some exponent exist: had a first exponent none, *)
(* those below it would go one further.                                    *)
Doubles(f, k) == f = [i \in 0..k |-> IF i = 0 THEN 1 ELSE 2 * f[i - 1]]

LEMMA DoublingExists == \A k \in Nat : \E f : Doubles(f, k)
<1> DEFINE Wrong == {k \in Nat : ~\E f : Doubles(f, k)}
<1> SUFFICES ASSUME Wrong # {} PROVE FALSE
  OBVIOUS
<1>1. Wrong \subseteq Nat
  OBVIOUS
<1> HIDE DEF Wrong
<1>2. PICK r \in Wrong : \A k \in Wrong : r <= k
  BY <1>1, SmallestNat
<1>3. r \in Nat /\ ~\E f : Doubles(f, r)
  BY <1>2 DEF Wrong
<1>4. CASE r = 0
  <2> DEFINE g == [i \in 0..0 |-> 1]
  <2>1. \A i \in 0..0 : i = 0
    OBVIOUS
  <2>2. g = [i \in 0..0 |-> IF i = 0 THEN 1 ELSE 2 * g[i - 1]]
    BY <2>1
  <2> QED
    BY <1>3, <1>4, <2>2 DEF Doubles
<1>5. CASE r # 0
  <2>1. r - 1 \in Nat /\ r - 1 \notin Wrong
    BY <1>2, <1>3, <1>5
  <2>2. PICK f : Doubles(f, r - 1)
    BY <2>1 DEF Wrong
  <2> DEFINE g == [i \in 0..r |-> IF i = r THEN 2 * f[r - 1] ELSE f[i]]
  <2>3. ASSUME NEW i \in 0..r PROVE g[i] = IF i = 0 THEN 1 ELSE 2 * g[i - 1]
    <3>1. CASE i = r
      <4>1. i # 0 /\ i - 1 \in 0..r /\ i - 1 # r
        BY <1>3, <1>5, <3>1
      <4>2. g[i] = 2 * f[r - 1] /\ g[i - 1] = f[r - 1]
        BY <3>1, <4>1
      <4> QED
        BY <4>1, <4>2
    <3>2. CASE i # r
      <4>1. i \in 0..(r - 1) /\ g[i] = f[i]
        BY <1>3, <3>2
      <4>2. f[i] = IF i = 0 THEN 1 ELSE 2 * f[i - 1]
        BY <2>2, <4>1 DEF Doubles
      <4>3. i # 0 => g[i - 1] = f[i - 1]
        BY <1>3, <3>2
      <4> QED
        BY <4>1, <4>2, <4>3
    <3> QED
      BY <3>1, <3>2
  <2>4. g = [i \in 0..r |-> g[i]]
    OBVIOUS
  <2> HIDE DEF g
  <2>5. g = [i \in 0..r |-> IF i = 0 THEN 1 ELSE 2 * g[i - 1]]
    BY <2>3, <2>4
  <2> QED
    BY <1>3, <2>5 DEF Doubles
<1> QED
  BY <1>4, <1>5

LEMMA PowersDouble ==
  ASSUME NEW n \in Nat
  PROVE  /\ PowersOfTwo(n)[0] = 1
         /\ \A i \in 1..n : PowersOfTwo(n)[i] = 2 * PowersOfTwo(n)[i - 1]
<1> DEFINE p == PowersOfTwo(n)
<1>1. p = CHOOSE f : Doubles(f, n)
  BY DEF PowersOfTwo, Doubles
<1>2. Doubles(p, n)
  BY <1>1, DoublingExists
<1> HIDE DEF p
<1>3. \A i \in 0..n : p[i] = IF i = 0 THEN 1 ELSE 2 * p[i - 1]
  BY <1>2 DEF Doubles
<1>4. p[0] = 1
  BY <1>3
<1>5. \A i \in 1..n : p[i] = 2 * p[i - 1]
  BY <1>3
<1> QED
  BY <1>4, <1>5 DEF p

(* A power is a natural number greater than its exponent.                  *)
LEMMA PowersExceed ==
  ASSUME NEW n \in Nat
  PROVE  \A i \in 0..n : PowersOfTwo(n)[i] \in Nat /\ i < PowersOfTwo(n)[i]
<1> DEFINE p == PowersOfTwo(n)
           Wrong == {i \in 0..n : ~(p[i] \in Nat /\ i < p[i])}
<1> SUFFICES ASSUME Wrong # {} PROVE FALSE
  OBVIOUS
<1>1. Wrong \subseteq Nat
  OBVIOUS
<1>2. p[0] = 1 /\ \A i \in 1..n : p[i] = 2 * p[i - 1]
  BY PowersDouble
<1> HIDE DEF p, Wrong
<1>3. PICK r \in Wrong : \A k \in Wrong : r <= k
  BY <1>1, SmallestNat
<1>4. r \in 0..n /\ ~(p[r] \in Nat /\ r < p[r])
  BY <1>3 DEF Wrong
<1>5. r # 0
  BY <1>2, <1>4
<1>6. r - 1 \in 0..n /\ r \in 1..n /\ r - 1 \notin Wrong
  BY <1>3, <1>4, <1>5
<1>7. p[r - 1] \in Nat /\ r - 1 < p[r - 1]
  BY <1>6 DEF Wrong
<1>8. p[r] = 2 * p[r - 1]
  BY <1>2, <1>6
<1> QED
  BY <1>4, <1>5, <1>7, <1>8

(* The product of two powers is the power of the sum.                      *)
LEMMA PowersMultiply ==
  ASSUME NEW n \in Nat, NEW i \in 0..n
  PROVE  \A j \in 0..(n - i) :
           PowersOfTwo(n)[i] * PowersOfTwo(n)[j] = PowersOfTwo(n)[i + j]
<1> DEFINE p == PowersOfTwo(n)
           Wrong == {j \in 0..(n - i) : p[i] * p[j] # p[i + j]}
<1> SUFFICES ASSUME Wrong # {} PROVE FALSE
  OBVIOUS
<1>1. Wrong \subseteq Nat
  OBVIOUS
<1>2. p[0] = 1 /\ \A k \in 1..n : p[k] = 2 * p[k - 1]
  BY PowersDouble
<1>3. \A k \in 0..n : p[k] \in Nat
  BY PowersExceed
<1> HIDE DEF p, Wrong
<1>4. PICK j \in Wrong : \A k \in Wrong : j <= k
  BY <1>1, SmallestNat
<1>5. j \in 0..(n - i) /\ p[i] * p[j] # p[i + j]
  BY <1>4 DEF Wrong
<1>6. j # 0
  BY <1>2, <1>3, <1>5
<1>7. j - 1 \in 0..(n - i) /\ j - 1 \notin Wrong
  BY <1>4, <1>5, <1>6
<1>8. p[i] * p[j - 1] = p[i + (j - 1)]
  BY <1>7 DEF Wrong
<1>9. /\ j \in 1..n /\ j - 1 \in 0..n
      /\ i + j \in 1..n /\ i + j - 1 = i + (j - 1) /\ i + (j - 1) \in 0..n
  BY <1>5, <1>6
<1>10. p[j] = 2 * p[j - 1] /\ p[i + j] = 2 * p[i + (j - 1)]
  BY <1>2, <1>9
<1> DEFINE a == p[i]  b == p[j - 1]
<1>11. a \in Nat /\ b \in Nat
  BY <1>3, <1>9
<1> HIDE DEF a, b
<1>12. a * (2 * b) = 2 * (a * b)
  BY <1>11
<1> QED
  BY <1>5, <1>8, <1>10, <1>12 DEF a, b

(* How many bits a number has: as many as the first power above it says.   *)
LEMMA BitsBound ==
  ASSUME NEW n \in Nat \ {0}
  PROVE  Bits(n) \in 1..n /\ n < PowersOfTwo(n)[Bits(n)]
<1> DEFINE p == PowersOfTwo(n)
           Above == {b \in 0..n : n < p[b]}
<1>1. p[0] = 1 /\ \A i \in 0..n : p[i] \in Nat /\ i < p[i]
  BY PowersDouble, PowersExceed
<1> HIDE DEF p
<1>2. n \in Above /\ Above \subseteq Nat
  BY <1>1
<1> HIDE DEF Above
<1>3. PICK b \in Above : \A k \in Above : b <= k
  BY <1>2, SmallestNat
<1>4. b \in 0..n /\ n < p[b]
  BY <1>3 DEF Above
<1>5. b # 0
  BY <1>1, <1>4
<1>6. b - 1 \in 0..n /\ b - 1 \notin Above
  BY <1>3, <1>4, <1>5
<1>7. p[b - 1] <= n
  BY <1>1, <1>6 DEF Above
<1>8. b \in 1..n /\ p[b - 1] <= n /\ n < p[b]
  BY <1>4, <1>5, <1>7
<1>9. Bits(n) = CHOOSE c \in 1..n : p[c - 1] <= n /\ n < p[c]
  BY DEF Bits, p
<1>10. Bits(n) \in 1..n /\ n < p[Bits(n)]
  BY <1>8, <1>9
<1> QED
  BY <1>10 DEF p

(* The power of half the bits, rounded up, is not below the root.          *)
LEMMA StartAboveRoot ==
  ASSUME NEW n \in Nat, n >= 2
  PROVE  LET start == PowersOfTwo(n)[(Bits(n) + 1) \div 2]
         IN  start \in Nat \ {0} /\ Isqrt(n) <= start
<1> DEFINE p == PowersOfTwo(n)
           b == Bits(n)
           m == (b + 1) \div 2
<1>1. b \in 1..n /\ n < p[b]
  BY BitsBound
<1>2. /\ p[0] = 1 /\ \A i \in 1..n : p[i] = 2 * p[i - 1]
      /\ \A i \in 0..n : p[i] \in Nat /\ i < p[i]
  BY PowersDouble, PowersExceed
<1>3. \A i \in 0..n : \A j \in 0..(n - i) : p[i] * p[j] = p[i + j]
  BY PowersMultiply
<1> HIDE DEF p, b
<1>4. m \in Nat /\ 2 * m <= b + 1 /\ b + 1 <= 2 * m + 1
  BY <1>1, HalfBounds
<1> HIDE DEF m
<1>5. m \in 1..n
  BY <1>1, <1>4
<1>6. p[m] \in Nat /\ 0 < p[m] /\ p[m - 1] \in Nat /\ p[m - 1] <= p[m]
  BY <1>2, <1>5
<1>7. p[b] <= p[m] * p[m]
  <2>1. CASE 2 * m = b
    <3>1. m \in 0..n /\ m \in 0..(n - m) /\ m + m = b
      BY <1>1, <1>5, <2>1
    <3>2. p[m] * p[m] = p[b]
      BY <1>3, <3>1
    <3> QED
      BY <1>1, <1>2, <3>2
  <2>2. CASE 2 * m = b + 1
    <3>1. m \in 0..n /\ m - 1 \in 0..(n - m) /\ m + (m - 1) = b
      BY <1>1, <1>5, <2>2
    <3>2. p[m] * p[m - 1] = p[b]
      BY <1>3, <3>1
    <3>3. p[m] * p[m - 1] <= p[m] * p[m]
      BY <1>6, ProductGrows
    <3> QED
      BY <3>2, <3>3
  <2> QED
    BY <1>1, <1>4, <2>1, <2>2
<1>8. Isqrt(n) <= p[m]
  <2> DEFINE r == Isqrt(n)
             s == p[m]
  <2>1. r \in Nat /\ r * r <= n /\ s \in Nat /\ n < s * s
    <3>1. r \in Nat /\ r * r <= n
      BY RootBounds
    <3>2. p[b] \in Nat /\ n < p[b]
      BY <1>1, <1>2
    <3>3. s \in Nat /\ p[b] <= s * s /\ s * s \in Nat
      BY <1>6, <1>7
    <3> HIDE DEF s, r
    <3> QED
      BY <3>1, <3>2, <3>3
  <2> HIDE DEF r, s
  <2>2. s * s <= (s + 1) * (s + 1) /\ s * s \in Nat /\ r * r \in Nat /\ (s + 1) * (s + 1) \in Nat
    BY <2>1, ProductGrows
  <2>3. r * r < (s + 1) * (s + 1)
    BY <2>1, <2>2
  <2>4. r <= s
    BY <2>1, <2>3, RootsOrdered
  <2> QED
    BY <2>4 DEF r, s
<1> QED
  BY <1>6, <1>8 DEF p, b, m

(* isqrt (lp_locker's lib.rs, locker.ts): Newton's method, from the power  *)
(* of two the code starts with, ends for every number, at its square root  *)
(* rounded down.                                                           *)
THEOREM NewtonIsExact == \A n \in Nat : NewtonSqrt(n) = Isqrt(n)
<1> SUFFICES ASSUME NEW n \in Nat PROVE NewtonSqrt(n) = Isqrt(n)
  OBVIOUS
<1>1. CASE n < 2
  <2>1. Isqrt(n) \in Nat /\ Isqrt(n) * Isqrt(n) <= n /\ n < (Isqrt(n) + 1) * (Isqrt(n) + 1)
    BY RootBounds
  <2>2. n \in {0, 1}
    BY <1>1
  <2> DEFINE r == Isqrt(n)
  <2> HIDE DEF r
  <2>3. r \in Nat /\ r * r <= n /\ n < (r + 1) * (r + 1)
    BY <2>1 DEF r
  <2>4. r < 2
    <3> SUFFICES ASSUME 2 <= r PROVE FALSE
      BY <2>3
    <3>1. 2 * 2 <= r * r
      BY <2>3, ProductGrows
    <3> QED
      BY <1>1, <2>3, <3>1
  <2>5. r = n
    <3>1. r \in {0, 1}
      BY <2>3, <2>4
    <3> QED
      BY <2>2, <2>3, <3>1
  <2> QED
    BY <1>1, <2>5 DEF NewtonSqrt, r
<1>2. CASE ~(n < 2)
  <2> DEFINE start == PowersOfTwo(n)[(Bits(n) + 1) \div 2]
  <2>1. start \in Nat \ {0} /\ Isqrt(n) <= start
    BY <1>2, StartAboveRoot
  <2>2. NewtonSqrt(n) = NewtonDown(n, start)[start]
    BY <1>2 DEF NewtonSqrt
  <2> HIDE DEF start
  <2>3. start \in 1..start /\ start \in Nat /\ n \in Nat \ {0}
    BY <1>2, <2>1
  <2> QED
    BY <2>1, <2>2, <2>3, LoopEndsAtRoot
<1> QED
  BY <1>1, <1>2

-----------------------------------------------------------------------------
(* A state of the pool and the lock in it: the reserves hold something,    *)
(* LP is in the vault or outside, and what is locked is worth the          *)
(* principal, less one for its rounding up, in the root of the reserves    *)
(* before that is rounded down (which makes it inductive).                 *)
PoolSound ==
  /\ pool_tokens \in [Sides -> Nat] /\ protocol_fees \in [Sides -> Nat]
  /\ lp_supply \in Nat \ {0}
  /\ \A s \in Sides : PoolReserve(s) > 0
(* LP tokens are in the vault or outside.                                  *)
LpCounted ==
  /\ lp_outside \in Nat /\ vault \in Nat /\ lp_outside + vault = lp_supply
  /\ lock \in [stage : {"none", "locked", "closed"}, locked_lp : Nat, principal : Nat,
               fee_lp_collected : Nat, unlock_at : Nat]
  /\ lock.stage = "locked" => lock.principal > 0
  /\ lock.stage = "none" => vault = 0
(* The vault's share of the pool is worth the principal, in whole roots.   *)
CoversFrom(lp, principal, product, supply) ==
  ((principal - 1) * supply) * ((principal - 1) * supply) < (lp * lp) * product
(* So it is of the lock.                                                   *)
Covered ==
  lock.stage = "locked" => CoversFrom(vault, lock.principal, PoolReserve(1) * PoolReserve(2), lp_supply)

(* The inductive invariant.                                                *)
IInv == LockerTypeOK /\ PoolSound /\ LpCounted /\ Covered

-----------------------------------------------------------------------------
(* While the product of the reserves does not fall in proportion to the    *)
(* square of the LP, what covered the principal covers it.                 *)
LEMMA SharesKeepCovering ==
  ASSUME NEW n \in Nat, NEW n1 \in Nat, NEW s \in Nat \ {0}, NEW s1 \in Nat \ {0},
         NEW v \in Nat, NEW p \in Nat \ {0},
         n * (s1 * s1) <= n1 * (s * s),
         CoversFrom(v, p, n, s)
  PROVE  CoversFrom(v, p, n1, s1)
<1> DEFINE t == (p - 1) * (p - 1)
           w == v * v
<1>1. t \in Nat /\ w \in Nat /\ s * s \in Nat /\ s1 * s1 \in Nat
  BY ProductTyped
<1>2. t * (s * s) < w * n
  <2>1. ((p - 1) * s) * ((p - 1) * s) = t * (s * s)
    BY SquareOfProduct
  <2> QED
    BY <2>1 DEF CoversFrom
<1>3. (t * (s1 * s1)) * (s * s) < (w * n1) * (s * s)
  <2> HIDE DEF t, w
  <2> DEFINE S == s * s  S1 == s1 * s1
  <2>1. S \in Nat /\ S1 \in Nat /\ S1 > 0 /\ t \in Nat /\ w \in Nat
    BY <1>1
  <2>2. n * S1 <= n1 * S /\ t * S < w * n
    BY <1>2
  <2> HIDE DEF S, S1
  <2>3. (t * S) * S1 < (w * n) * S1
    <3>1. t * S \in Nat /\ w * n \in Nat /\ t * S + 1 <= w * n
      BY <2>1, <2>2, ProductTyped
    <3>2. (t * S + 1) * S1 <= (w * n) * S1
      BY <2>1, <3>1, ProductGrows
    <3> QED
      BY <2>1, <3>1, <3>2
  <2>4. w * (n * S1) <= w * (n1 * S)
    BY <2>1, <2>2, ProductGrows, ProductTyped
  <2>5. (t * S1) * S = (t * S) * S1 /\ (w * n) * S1 = w * (n * S1) /\ (w * n1) * S = w * (n1 * S)
    BY <2>1
  <2>6. (t * S1) * S < (w * n1) * S
    <3>1. /\ (t * S) * S1 \in Nat /\ w * (n * S1) \in Nat /\ w * (n1 * S) \in Nat
      BY <2>1, ProductTyped
    <3> QED
      BY <2>3, <2>4, <2>5, <3>1
  <2> QED
    BY <2>6 DEF S, S1
<1>4. t * (s1 * s1) < w * n1
  <2> HIDE DEF t, w
  <2>1. s * s \in Nat \ {0} /\ t * (s1 * s1) \in Nat /\ w * n1 \in Nat
    BY <1>1, ProductTyped
  <2> DEFINE S == s * s  x == t * (s1 * s1)  y == w * n1
  <2>2. S \in Nat \ {0} /\ x \in Nat /\ y \in Nat /\ x * S < y * S
    BY <2>1, <1>3
  <2> HIDE DEF S, x, y
  <2>3. x < y
    <3> SUFFICES ASSUME y <= x PROVE FALSE
      BY <2>2
    <3>1. y * S <= x * S
      BY <2>2, ProductGrows
    <3> QED
      BY <2>2, <3>1, ProductTyped
  <2> QED
    BY <2>3 DEF x, y
<1>5. ((p - 1) * s1) * ((p - 1) * s1) = t * (s1 * s1)
  BY SquareOfProduct
<1> QED
  BY <1>4, <1>5 DEF CoversFrom

-----------------------------------------------------------------------------
(* What withdrawing leaves of every reserve: something, and no less than   *)
(* the share of the LP that is left.                                       *)
LEMMA WithdrawKeepsShares ==
  ASSUME PoolSound, NEW lp \in Nat, lp < lp_supply, NEW s \in Sides
  PROVE  /\ PoolReserve(s) \in Nat \ {0}
         /\ AfterWithdraw(lp)[s] \in Nat \ {0}
         /\ PoolReserve(s) * (lp_supply - lp) <= AfterWithdraw(lp)[s] * lp_supply
<1> DEFINE r == PoolReserve(s)
           out == MulDivFloor(lp, r, lp_supply)
<1>1. r \in Nat \ {0} /\ lp_supply \in Nat \ {0} /\ lp_supply - lp \in Nat \ {0}
  BY DEF PoolSound, PoolReserve
<1>2. AfterWithdraw(lp)[s] = r - out
  BY DEF AfterWithdraw
<1> HIDE DEF r
<1>3. out \in Nat /\ out * lp_supply <= lp * r
  BY <1>1, FloorBounds
<1> HIDE DEF out
<1>4. r * (lp_supply - lp) = r * lp_supply - lp * r /\ (r - out) * lp_supply = r * lp_supply - out * lp_supply
  BY <1>1, <1>3
<1>5. r * (lp_supply - lp) <= (r - out) * lp_supply
  <2>1. r * lp_supply \in Nat /\ lp * r \in Nat /\ out * lp_supply \in Nat
    BY <1>1, <1>3, ProductTyped
  <2> QED
    BY <1>3, <1>4, <2>1
<1>6. r - out > 0
  <2> SUFFICES ASSUME r - out <= 0 PROVE FALSE
    BY <1>1, <1>3
  <2>1. (r - out) * lp_supply <= 0
    BY <1>1, <1>3
  <2>2. 1 * 1 <= r * (lp_supply - lp)
    BY <1>1, ProductGrows
  <2> QED
    BY <1>1, <1>3, <1>5, <2>1, <2>2
<1> QED
  BY <1>1, <1>2, <1>3, <1>5, <1>6 DEF r

(* The root of the reserves: rounded down, and positive.                   *)
LEMMA SqrtKBounds ==
  ASSUME PoolSound
  PROVE  /\ PoolReserve(1) \in Nat \ {0} /\ PoolReserve(2) \in Nat \ {0}
         /\ PoolReserve(1) * PoolReserve(2) \in Nat \ {0}
         /\ SqrtK \in Nat \ {0}
         /\ SqrtK * SqrtK <= PoolReserve(1) * PoolReserve(2)
         /\ PoolReserve(1) * PoolReserve(2) < (SqrtK + 1) * (SqrtK + 1)
<1>1. PoolReserve(1) \in Nat \ {0} /\ PoolReserve(2) \in Nat \ {0}
  BY DEF PoolSound, PoolReserve, Sides
<1> DEFINE n == PoolReserve(1) * PoolReserve(2)
<1>2. n \in Nat \ {0}
  BY <1>1, ProductGrows, ProductTyped
<1> HIDE DEF n
<1>3. Isqrt(n) \in Nat /\ Isqrt(n) * Isqrt(n) <= n /\ n < (Isqrt(n) + 1) * (Isqrt(n) + 1)
  BY <1>2, RootBounds
<1>4. Isqrt(n) # 0
  BY <1>2, <1>3
<1> QED
  BY <1>1, <1>2, <1>3, <1>4 DEF n, SqrtK

(* fee_lp: what is over the principal, and how much LP makes it up.        *)
LEMMA FeesBounds ==
  ASSUME PoolSound, LpCounted, lock.stage = "locked"
  PROVE  /\ Fees \in Nat
         /\ Fees > 0 =>
              \E over \in Nat : /\ (lock.principal + over) * lp_supply <= vault * SqrtK
                               /\ Fees * SqrtK <= over * lp_supply
                               /\ Fees < vault /\ Fees < lp_supply
<1> DEFINE k == SqrtK  s == lp_supply  p == lock.principal
           value == Worth(vault, k, s)
           fee == MulDivFloor(value - p, s, k)
<1>1. k \in Nat \ {0} /\ s \in Nat \ {0} /\ p \in Nat \ {0} /\ vault \in Nat /\ vault <= s
  BY SqrtKBounds DEF PoolSound, LpCounted
<1>2. Fees = IF value <= p THEN 0 ELSE fee
  BY DEF Fees, FeeLp
<1> HIDE DEF k, s, p
<1>3. value \in Nat /\ value * s <= vault * k
  BY <1>1, FloorBounds DEF Worth
<1> HIDE DEF value
<1>4. CASE value <= p
  BY <1>2, <1>4
<1>5. CASE ~(value <= p)
  <2> DEFINE over == value - p
  <2>1. over \in Nat \ {0} /\ value = p + over
    BY <1>1, <1>3, <1>5
  <2>2. fee \in Nat /\ fee * k <= over * s
    BY <1>1, <2>1, FloorBounds
  <2> HIDE DEF over, fee
  <2>3. fee < vault
    <3> SUFFICES ASSUME vault <= fee PROVE FALSE
      BY <1>1, <2>2
    <3>1. vault * k <= fee * k
      BY <1>1, <2>2, ProductGrows
    <3>2. over * s < value * s
      <4>1. value * s = p * s + over * s
        BY <1>1, <2>1
      <4>2. 1 * 1 <= p * s /\ over * s \in Nat /\ p * s \in Nat
        BY <1>1, <2>1, ProductGrows, ProductTyped
      <4> QED
        BY <4>1, <4>2
    <3>3. vault * k \in Nat /\ fee * k \in Nat /\ over * s \in Nat /\ value * s \in Nat
      BY <1>1, <1>3, <2>1, <2>2, ProductTyped
    <3> QED
      BY <1>3, <2>2, <3>1, <3>2, <3>3
  <2>4. (p + over) * s <= vault * k
    BY <1>3, <2>1
  <2>5. Fees = fee
    BY <1>2, <1>5
  <2> QED
    BY <1>1, <2>1, <2>2, <2>3, <2>4, <2>5 DEF k, s, p
<1> QED
  BY <1>4, <1>5

-----------------------------------------------------------------------------
(* Reserves that keep their shares keep the product's.                     *)
LEMMA SharesMultiply ==
  ASSUME NEW a \in Nat, NEW b \in Nat, NEW a1 \in Nat, NEW b1 \in Nat,
         NEW s \in Nat, NEW s1 \in Nat, a * s1 <= a1 * s, b * s1 <= b1 * s
  PROVE  (a * b) * (s1 * s1) <= (a1 * b1) * (s * s)
<1>1. (a * s1) * (b * s1) <= (a1 * s) * (b1 * s)
  BY ProductGrows, ProductTyped
<1>2. (a * s1) * (b * s1) = (a * b) * (s1 * s1) /\ (a1 * s) * (b1 * s) = (a1 * b1) * (s * s)
  OBVIOUS
<1> QED
  BY <1>1, <1>2

(* After a withdrawal of f LP out of s, for which v of them gave what is   *)
(* over p, the root of the reserves has fallen by at most what was over:   *)
(* so rounding it down loses nothing that what is left, v - f, needs.      *)
LEMMA RootFallsByFees ==
  ASSUME NEW a \in Nat, NEW b \in Nat, NEW a1 \in Nat, NEW b1 \in Nat,
         NEW s \in Nat \ {0}, NEW f \in Nat, f < s, NEW over \in Nat,
         a * (s - f) <= a1 * s, b * (s - f) <= b1 * s,
         NEW k \in Nat \ {0}, k * k <= a * b, f * k <= over * s,
         NEW q \in Nat, a1 * b1 < (q + 1) * (q + 1)
  PROVE  k - over <= q
<1> SUFFICES ASSUME over <= k PROVE k - over <= q
  OBVIOUS
<1> DEFINE j == k - over  s1 == s - f
<1>1. j \in Nat /\ s1 \in Nat \ {0}
  OBVIOUS
<1>2. j * s <= k * s1
  <2>1. j * s = k * s - over * s /\ k * s1 = k * s - f * k
    BY <1>1
  <2>2. k * s \in Nat /\ over * s \in Nat /\ f * k \in Nat
    BY ProductTyped
  <2> QED
    BY <2>1, <2>2
<1>3. a * s1 <= a1 * s /\ b * s1 <= b1 * s
  OBVIOUS
<1> HIDE DEF j, s1
<1>4. (j * s) * (j * s) <= (k * s1) * (k * s1)
  BY <1>1, <1>2, ProductGrows, ProductTyped
<1>5. (k * k) * (s1 * s1) <= (a * b) * (s1 * s1)
  BY <1>1, ProductGrows, ProductTyped
<1>6. (a * b) * (s1 * s1) <= (a1 * b1) * (s * s)
  BY <1>1, <1>3, SharesMultiply
<1>7. (j * j) * (s * s) <= (a1 * b1) * (s * s)
  <2>1. (j * s) * (j * s) = (j * j) * (s * s) /\ (k * s1) * (k * s1) = (k * k) * (s1 * s1)
    BY <1>1, SquareOfProduct
  <2>2. /\ (j * j) * (s * s) \in Nat /\ (k * k) * (s1 * s1) \in Nat
        /\ (a * b) * (s1 * s1) \in Nat /\ (a1 * b1) * (s * s) \in Nat
    BY <1>1, ProductTyped
  <2> QED
    BY <1>4, <1>5, <1>6, <2>1, <2>2
<1>8. j * j <= a1 * b1
  <2>1. s * s \in Nat \ {0} /\ j * j \in Nat /\ a1 * b1 \in Nat
    BY <1>1, ProductTyped
  <2> QED
    BY <1>7, <2>1, FactorCancels
<1>9. j * j < (q + 1) * (q + 1)
  <2>1. j * j \in Nat /\ a1 * b1 \in Nat /\ (q + 1) * (q + 1) \in Nat
    BY <1>1, ProductTyped
  <2> QED
    BY <1>8, <2>1
<1>10. j <= q
  BY <1>1, <1>9, RootsOrdered
<1> QED
  BY <1>10 DEF j

(* What is left after a collection is worth the principal.                 *)
LEMMA LeftIsWorthPrincipal ==
  ASSUME NEW s \in Nat \ {0}, NEW f \in Nat, NEW v \in Nat, f < v, v <= s,
         NEW p \in Nat, NEW over \in Nat, NEW k \in Nat, NEW q \in Nat,
         (p + over) * s <= v * k, f * k <= over * s, k - over <= q
  PROVE  p * (s - f) <= (v - f) * q
<1> DEFINE s1 == s - f  v1 == v - f
<1>1. s1 \in Nat \ {0} /\ v1 \in Nat \ {0} /\ v1 <= s1
  OBVIOUS
<1>2. v1 * k >= p * s + over * s - f * k
  <2>1. v1 * k = v * k - f * k /\ (p + over) * s = p * s + over * s
    OBVIOUS
  <2>2. v * k \in Nat /\ f * k \in Nat /\ p * s \in Nat /\ over * s \in Nat
    BY ProductTyped
  <2> QED
    BY <2>1, <2>2
<1>3. s1 * k = s * k - f * k /\ s = s1 + f
  OBVIOUS
<1> HIDE DEF s1, v1
(* What the root that is left falls short of its share.                    *)
<1> DEFINE d == k * s1 - q * s
<1>4. d <= over * s - f * k
  <2>1. (k - over) * s <= q * s
    <3>1. CASE k - over < 0
      <4>1. (k - over) * s <= 0 * s
        BY <3>1
      <4>2. q * s \in Nat /\ (k - over) * s \in Int
        BY ProductTyped
      <4> QED
        BY <4>1, <4>2
    <3>2. CASE k - over >= 0
      BY <3>2, ProductGrows
    <3> QED
      BY <3>1, <3>2
  <2>2. (k - over) * s = k * s - over * s /\ k * s1 = k * s - f * k
    BY <1>1, <1>3
  <2>3. k * s \in Nat /\ over * s \in Nat /\ f * k \in Nat /\ q * s \in Nat
    BY ProductTyped
  <2> QED
    BY <2>1, <2>2, <2>3
<1>5. p * s <= v1 * k - d
  <2>1. v1 * k \in Nat /\ p * s \in Nat /\ over * s \in Nat /\ f * k \in Nat /\ k * s1 \in Nat /\ q * s \in Nat
    BY <1>1, ProductTyped
  <2> QED
    BY <1>2, <1>4, <2>1
<1>6. (p * s1) * s <= (v1 * q) * s
  <2> DEFINE c == v1 * k
  <2>0. c \in Nat /\ d \in Int /\ p * s \in Nat
    BY <1>1, ProductTyped
  <2>1. (v1 * q) * s = c * s1 - v1 * d
    <3>1. v1 * d = v1 * (k * s1) - v1 * (q * s)
      BY <1>1
    <3>2. v1 * (k * s1) = (v1 * k) * s1 /\ v1 * (q * s) = (v1 * q) * s
      BY <1>1
    <3>3. /\ v1 * d \in Int /\ (v1 * k) * s1 \in Nat /\ (v1 * q) * s \in Nat
      BY <1>1, <2>0, ProductTyped
    <3> QED
      BY <3>1, <3>2, <3>3
  <2>2. p * s <= c - d
    BY <1>5
  <2> HIDE DEF c, d
  <2>3. CASE d <= 0
    <3>1. v1 * d <= 0
      BY <1>1, <2>0, <2>3
    <3>2. (p * s) * s1 <= c * s1
      <4>1. s1 * (p * s) <= s1 * c
        <5>1. v1 * k >= p * s
          <6>1. p * s + over * s - f * k >= p * s
            <7>1. p * s \in Nat /\ over * s \in Nat /\ f * k \in Nat
              BY ProductTyped
            <7> QED
              BY <7>1
          <6>2. p * s \in Nat /\ over * s \in Nat /\ f * k \in Nat /\ v1 * k \in Nat
            BY <1>1, ProductTyped
          <6> QED
            BY <1>2, <6>1, <6>2
        <5>2. p * s <= c
          BY <5>1 DEF c
        <5> QED
          BY <1>1, <2>0, <5>2, ProductGrows
      <4>2. s1 * (p * s) = (p * s) * s1 /\ s1 * c = c * s1
        BY <1>1, <2>0
      <4> QED
        BY <4>1, <4>2
    <3>3. (p * s) * s1 = (p * s1) * s
      BY <1>1
    <3>4. c * s1 \in Nat /\ v1 * d \in Int /\ (p * s1) * s \in Nat
      BY <1>1, <2>0, ProductTyped
    <3> QED
      BY <2>1, <3>1, <3>2, <3>3, <3>4
  <2>4. CASE d > 0
    <3>1. d \in Nat /\ c - d \in Nat
      BY <2>0, <2>2, <2>4
    <3>2. v1 * d <= s1 * d
      BY <1>1, <3>1, ProductGrows
    <3>3. s1 * (p * s) <= s1 * (c - d)
      BY <1>1, <2>0, <2>2, <3>1, ProductGrows
    <3>4. s1 * (c - d) = c * s1 - s1 * d /\ s1 * (p * s) = (p * s1) * s
      BY <1>1, <2>0
    <3>5. c * s1 \in Nat /\ s1 * d \in Nat /\ v1 * d \in Nat /\ (p * s1) * s \in Nat
      BY <1>1, <2>0, <3>1, ProductTyped
    <3> QED
      BY <2>1, <3>2, <3>3, <3>4, <3>5
  <2> QED
    BY <2>0, <2>3, <2>4
<1>7. p * s1 <= v1 * q
  BY <1>1, <1>6, FactorCancels, ProductTyped
<1> QED
  BY <1>7 DEF s1, v1

-----------------------------------------------------------------------------
(* The two properties follow from the invariant.                           *)
LEMMA CoveredGives ==
  ASSUME IInv PROVE PrincipalCovered
<1> SUFFICES ASSUME lock.stage = "locked"
             PROVE  Worth(vault, SqrtK, lp_supply) >= lock.principal - 2
  BY DEF PrincipalCovered
<1> DEFINE k == SqrtK  s == lp_supply  p == lock.principal  n == PoolReserve(1) * PoolReserve(2)
           worth == Worth(vault, k, s)
<1>1. /\ k \in Nat \ {0} /\ s \in Nat \ {0} /\ p \in Nat \ {0} /\ vault \in Nat /\ vault <= s
      /\ n \in Nat /\ n < (k + 1) * (k + 1)
  BY SqrtKBounds DEF IInv, PoolSound, LpCounted
<1>2. ((p - 1) * s) * ((p - 1) * s) < (vault * vault) * n
  BY DEF IInv, Covered, CoversFrom
<1> HIDE DEF k, s, p, n
<1>3. worth \in Nat /\ vault * k < (worth + 1) * s
  BY <1>1, FloorBounds DEF Worth
<1> HIDE DEF worth
<1>4. (p - 1) * s <= vault * (k + 1)
  <2> DEFINE x == (p - 1) * s  y == vault * (k + 1)
  <2>1. x \in Nat /\ y \in Nat /\ (vault * vault) * n \in Nat
    BY <1>1, ProductTyped
  <2>2. (vault * vault) * n <= (vault * vault) * ((k + 1) * (k + 1))
    BY <1>1, ProductGrows, ProductTyped
  <2>3. (vault * vault) * ((k + 1) * (k + 1)) = y * y
    BY <1>1
  <2>4. x * x < (vault * vault) * n
    BY <1>2
  <2> HIDE DEF x, y
  <2>5. x * x < (y + 1) * (y + 1)
    <3>1. y * y <= (y + 1) * (y + 1)
      BY <2>1, ProductGrows
    <3>2. x * x \in Nat /\ y * y \in Nat /\ (y + 1) * (y + 1) \in Nat
      BY <2>1, ProductTyped
    <3> QED
      BY <2>1, <2>2, <2>3, <2>4, <3>1, <3>2
  <2>6. x <= y
    BY <2>1, <2>5, RootsOrdered
  <2> QED
    BY <2>6 DEF x, y
<1>5. (p - 2) * s <= vault * k
  <2>1. (p - 1) * s = (p - 2) * s + s /\ vault * (k + 1) = vault * k + vault
    BY <1>1
  <2>2. (p - 2) * s \in Int /\ vault * k \in Nat
    BY <1>1, ProductTyped
  <2> QED
    BY <1>1, <1>4, <2>1, <2>2
<1>6. worth >= p - 2
  <2> SUFFICES ASSUME worth + 1 <= p - 2 PROVE FALSE
    BY <1>1, <1>3
  <2>1. (worth + 1) * s <= (p - 2) * s
    BY <1>1, <1>3, ProductGrows
  <2>2. (worth + 1) * s \in Nat /\ (p - 2) * s \in Nat /\ vault * k \in Nat
    BY <1>1, <1>3, ProductTyped
  <2> QED
    BY <1>3, <1>5, <2>1, <2>2
<1> QED
  BY <1>6 DEF worth, p, k, s

(* What is left after collecting fees: the root, and what it makes the LP  *)
(* that is left worth.                                                     *)
LEMMA LeftAfterFees ==
  ASSUME IInv, lock.stage = "locked", Fees > 0
  PROVE  /\ Fees \in Nat /\ Fees < vault /\ Fees < lp_supply
         /\ AfterWithdraw(Fees)[1] \in Nat \ {0} /\ AfterWithdraw(Fees)[2] \in Nat \ {0}
         /\ LET q == Isqrt(AfterWithdraw(Fees)[1] * AfterWithdraw(Fees)[2])
            IN  /\ q \in Nat /\ q * q <= AfterWithdraw(Fees)[1] * AfterWithdraw(Fees)[2]
                /\ lock.principal * (lp_supply - Fees) <= (vault - Fees) * q
<1> DEFINE a1 == AfterWithdraw(Fees)[1]  b1 == AfterWithdraw(Fees)[2]
           a == PoolReserve(1)  b == PoolReserve(2)
           k == SqrtK  s == lp_supply  p == lock.principal  f == Fees  q == Isqrt(a1 * b1)
<1>1. /\ k \in Nat \ {0} /\ s \in Nat \ {0} /\ p \in Nat \ {0} /\ vault \in Nat /\ vault <= s
      /\ a \in Nat /\ b \in Nat /\ k * k <= a * b
  BY SqrtKBounds DEF IInv, PoolSound, LpCounted
<1>2. PICK over \in Nat : (p + over) * s <= vault * k /\ f * k <= over * s /\ f < vault /\ f < s
  BY FeesBounds DEF IInv
<1>3. f \in Nat
  BY FeesBounds DEF IInv
<1>4. a1 \in Nat \ {0} /\ b1 \in Nat \ {0} /\ a * (s - f) <= a1 * s /\ b * (s - f) <= b1 * s
  BY <1>2, <1>3, WithdrawKeepsShares DEF IInv, Sides
<1> HIDE DEF a1, b1, a, b, k, s, p, f
<1>5. a1 * b1 \in Nat
  BY <1>4, ProductTyped
<1>6. q \in Nat /\ q * q <= a1 * b1 /\ a1 * b1 < (q + 1) * (q + 1)
  BY <1>5, RootBounds
<1> HIDE DEF q
<1>7. k - over <= q
  BY <1>1, <1>2, <1>3, <1>4, <1>6, RootFallsByFees
<1>8. p * (s - f) <= (vault - f) * q
  BY <1>1, <1>2, <1>3, <1>6, <1>7, LeftIsWorthPrincipal
<1> QED
  BY <1>2, <1>3, <1>4, <1>6, <1>8 DEF a1, b1, p, s, f, q

(* So the last check passes.                                               *)
LEMMA NeverRefuses ==
  ASSUME IInv PROVE FeesNeverRefused
<1> SUFFICES ASSUME lock.stage = "locked", Fees > 0
             PROVE  WorthAfter(Fees) >= lock.principal
  BY DEF FeesNeverRefused
<1> DEFINE q == Isqrt(AfterWithdraw(Fees)[1] * AfterWithdraw(Fees)[2])
           v1 == vault - Fees  s1 == lp_supply - Fees  p == lock.principal
           worth == Worth(v1, q, s1)
<1>1. v1 \in Nat /\ s1 \in Nat \ {0} /\ q \in Nat /\ p \in Nat /\ p * s1 <= v1 * q
  BY LeftAfterFees DEF IInv, PoolSound, LpCounted
<1>2. WorthAfter(Fees) = worth
  BY DEF WorthAfter
<1> HIDE DEF q, v1, s1, p
<1>3. worth \in Nat /\ v1 * q < (worth + 1) * s1
  BY <1>1, FloorBounds DEF Worth
<1> HIDE DEF worth
<1>4. p <= worth
  <2> SUFFICES ASSUME worth + 1 <= p PROVE FALSE
    BY <1>1, <1>3
  <2>1. (worth + 1) * s1 <= p * s1
    BY <1>1, <1>3, ProductGrows
  <2>2. (worth + 1) * s1 \in Nat /\ p * s1 \in Nat /\ v1 * q \in Nat
    BY <1>1, <1>3, ProductTyped
  <2> QED
    BY <1>1, <1>3, <2>1, <2>2
<1> QED
  BY <1>1, <1>2, <1>3, <1>4 DEF p

-----------------------------------------------------------------------------
(* The invariant holds at the start.                                       *)
LEMMA InitIInv == LockerInit => IInv
<1> SUFFICES ASSUME LockerInit PROVE IInv
  OBVIOUS
<1> USE LockerAssumption DEF LockerInit
<1>1. LockerTypeOK
  BY DEF LockerTypeOK, NoLock, Sides
<1>2. PoolSound
  BY DEF PoolSound, PoolReserve
<1>3. LpCounted
  BY DEF LpCounted, NoLock
<1>4. Covered
  BY DEF Covered, NoLock
<1> QED
  BY <1>1, <1>2, <1>3, <1>4 DEF IInv

(* lock: the principal is above what the LP is worth by less than one.     *)
LEMMA LockLpKeeps ==
  ASSUME IInv, NEW amount \in ToLock, NEW end \in Ends \cup {Forever}, LockLp(amount, end)
  PROVE  IInv'
<1> DEFINE k == SqrtK  s == lp_supply  n == PoolReserve(1) * PoolReserve(2)
           p == MulDivCeil(amount, k, s)
<1>1. amount \in Nat \ {0} /\ end \in Nat
  BY LockerAssumption DEF Forever
<1>2. k \in Nat \ {0} /\ s \in Nat \ {0} /\ n \in Nat /\ k * k <= n
  BY SqrtKBounds DEF IInv, PoolSound
<1>3. /\ UNCHANGED <<poolVars, lpNow>> /\ vault' = amount /\ lp_outside' = lp_outside - amount /\ amount <= lp_outside
      /\ lock.stage = "none"
      /\ lock' = [stage |-> "locked", locked_lp |-> amount, principal |-> p, fee_lp_collected |-> 0, unlock_at |-> end]
  BY DEF LockLp
<1>4. lock.stage = "none" => vault = 0
  BY DEF IInv, LpCounted
<1> HIDE DEF k, s, n
<1>5. p \in Nat /\ amount * k <= p * s /\ p * s < amount * k + s
  BY <1>1, <1>2, CeilBounds
<1> HIDE DEF p
<1>6. p > 0
  <2>1. 1 * 1 <= amount * k
    BY <1>1, <1>2, ProductGrows
  <2> QED
    BY <1>1, <1>2, <1>5, <2>1, ProductTyped
<1>7. CoversFrom(amount, p, n, s)
  <2>1. (p - 1) * s < amount * k
    <3>1. (p - 1) * s = p * s - s
      BY <1>2, <1>5
    <3>2. p * s \in Nat /\ amount * k \in Nat
      BY <1>1, <1>2, <1>5, ProductTyped
    <3> QED
      BY <1>2, <1>5, <3>1, <3>2
  <2> DEFINE x == (p - 1) * s  y == amount * k
  <2>2. x \in Nat /\ y \in Nat
    BY <1>1, <1>2, <1>5, <1>6, ProductTyped
  <2>3. y * y <= (amount * amount) * n
    <3>1. y * y = (amount * amount) * (k * k)
      BY <1>1, <1>2, SquareOfProduct
    <3>2. (amount * amount) * (k * k) <= (amount * amount) * n
      BY <1>1, <1>2, ProductGrows, ProductTyped
    <3> QED
      BY <3>1, <3>2
  <2>4. x < y
    BY <2>1
  <2>5. (amount * amount) * n \in Nat
    BY <1>1, <1>2, ProductTyped
  <2>6. CoversFrom(amount, p, n, s) <=> x * x < (amount * amount) * n
    BY DEF CoversFrom
  <2> HIDE DEF x, y
  <2>7. x * x < y * y
    <3>1. (x + 1) * (x + 1) <= y * y
      BY <2>2, <2>4, ProductGrows
    <3>2. (x + 1) * (x + 1) = x * x + 2 * x + 1
      BY <2>2
    <3>3. x * x \in Nat /\ y * y \in Nat
      BY <2>2, ProductTyped
    <3> QED
      BY <2>2, <3>1, <3>2, <3>3
  <2>8. x * x \in Nat /\ y * y \in Nat
    BY <2>2, ProductTyped
  <2> QED
    BY <2>3, <2>5, <2>6, <2>7, <2>8
<1>8. PoolSound'
  BY <1>3 DEF IInv, PoolSound, PoolReserve, poolVars
<1>9. LpCounted'
  BY <1>1, <1>3, <1>4, <1>5, <1>6 DEF IInv, LpCounted, poolVars
<1>10. Covered'
  <2>1. (PoolReserve(1) * PoolReserve(2))' = n /\ lp_supply' = s
    BY <1>3 DEF n, s, PoolReserve, poolVars
  <2>2. lock'.principal = p /\ vault' = amount
    BY <1>3
  <2> QED
    BY <1>7, <2>1, <2>2 DEF Covered, CoversFrom
<1>11. LockerTypeOK'
  BY <1>1, <1>3, <1>5 DEF IInv, LockerTypeOK, poolVars
<1> QED
  BY <1>8, <1>9, <1>10, <1>11 DEF IInv

(* A withdrawal leaves a sound pool with the same fees of the protocol.    *)
LEMMA WithdrawSound ==
  ASSUME PoolSound, NEW lp \in Nat, lp < lp_supply, Withdraw(lp), UNCHANGED protocol_fees
  PROVE  /\ PoolSound'
         /\ \A s \in Sides : PoolReserve(s)' = AfterWithdraw(lp)[s]
         /\ pool_tokens' \in [Sides -> Nat] /\ lp_supply' = lp_supply - lp
<1>1. \A s \in Sides : AfterWithdraw(lp)[s] \in Nat \ {0} /\ protocol_fees[s] \in Nat
  BY WithdrawKeepsShares DEF PoolSound
<1>2. /\ pool_tokens' = [s \in Sides |-> protocol_fees[s] + AfterWithdraw(lp)[s]]
      /\ lp_supply' = lp_supply - lp
  BY DEF Withdraw
<1>3. \A s \in Sides : PoolReserve(s)' = AfterWithdraw(lp)[s]
  BY <1>1, <1>2 DEF PoolReserve
<1>4. pool_tokens' \in [Sides -> Nat]
  BY <1>1, <1>2
<1>5. lp_supply' \in Nat \ {0}
  BY <1>2 DEF PoolSound
<1> QED
  BY <1>1, <1>2, <1>3, <1>4, <1>5 DEF PoolSound

(* collect_fees: what is left is worth the principal.                      *)
LEMMA CollectKeeps ==
  ASSUME IInv, CollectFees PROVE IInv'
<1>1. /\ lock.stage = "locked" /\ Fees > 0 /\ Withdraw(Fees)
      /\ vault' = vault - Fees /\ lock' = [lock EXCEPT !.fee_lp_collected = @ + Fees]
      /\ UNCHANGED <<protocol_fees, paused, poolOps, lp_outside, lpNow>>
  BY DEF CollectFees
<1> DEFINE a1 == AfterWithdraw(Fees)[1]  b1 == AfterWithdraw(Fees)[2]  n1 == a1 * b1  q == Isqrt(n1)
           v1 == vault - Fees  s1 == lp_supply - Fees  p == lock.principal
<1>2. /\ Fees \in Nat /\ v1 \in Nat /\ s1 \in Nat \ {0} /\ p \in Nat \ {0} /\ n1 \in Nat
      /\ q \in Nat /\ q * q <= n1 /\ p * s1 <= v1 * q
  <2>1. LpCounted /\ PoolSound
    BY DEF IInv
  <2>2. /\ Fees \in Nat /\ Fees < vault /\ Fees < lp_supply /\ a1 \in Nat /\ b1 \in Nat
        /\ q \in Nat /\ q * q <= n1 /\ p * s1 <= v1 * q
    BY <1>1, LeftAfterFees
  <2>3. n1 \in Nat
    BY <2>2, ProductTyped
  <2> QED
    BY <1>1, <2>1, <2>2, <2>3 DEF LpCounted, PoolSound
<1>3. /\ PoolSound' /\ pool_tokens' \in [Sides -> Nat] /\ lp_supply' = s1
      /\ (PoolReserve(1) * PoolReserve(2))' = n1
  <2>1. PoolSound /\ Fees < lp_supply
    BY <1>2 DEF IInv, PoolSound
  <2>2. /\ PoolSound' /\ pool_tokens' \in [Sides -> Nat] /\ lp_supply' = s1
        /\ \A s \in Sides : PoolReserve(s)' = AfterWithdraw(Fees)[s]
    BY <1>1, <1>2, <2>1, WithdrawSound
  <2> QED
    BY <2>2 DEF Sides
<1>4. /\ lock' \in [stage : {"none", "locked", "closed"}, locked_lp : Nat, principal : Nat,
                    fee_lp_collected : Nat, unlock_at : Nat]
      /\ lock'.stage = "locked" /\ lock'.principal = p
  BY <1>1, <1>2 DEF IInv, LpCounted
<1>5. LpCounted'
  BY <1>1, <1>2, <1>3, <1>4 DEF IInv, LpCounted, PoolSound
<1>6. LockerTypeOK'
  BY <1>1, <1>2, <1>3, <1>4, <1>5 DEF IInv, LockerTypeOK, PoolSound, LpCounted
<1>7. Covered'
  <2> HIDE DEF n1, q, v1, s1, p
  <2>1. ((p - 1) * s1) * ((p - 1) * s1) < (v1 * v1) * n1
    <3> DEFINE x == (p - 1) * s1  y == v1 * q
    <3>1. x \in Nat /\ y \in Nat /\ x < y
      <4>1. (p - 1) * s1 = p * s1 - s1
        BY <1>2
      <4>2. p * s1 \in Nat /\ v1 * q \in Nat /\ (p - 1) * s1 \in Nat
        BY <1>2, ProductTyped
      <4> QED
        BY <1>2, <4>1, <4>2
    <3>2. y * y <= (v1 * v1) * n1
      <4>1. y * y = (v1 * v1) * (q * q)
        BY <1>2, SquareOfProduct
      <4>2. (v1 * v1) * (q * q) <= (v1 * v1) * n1
        BY <1>2, ProductGrows, ProductTyped
      <4> QED
        BY <4>1, <4>2
    <3>3. (v1 * v1) * n1 \in Nat
      BY <1>2, ProductTyped
    <3> HIDE DEF x, y
    <3>4. (x + 1) * (x + 1) <= y * y
      BY <3>1, ProductGrows
    <3>5. (x + 1) * (x + 1) = x * x + 2 * x + 1 /\ x * x \in Nat /\ y * y \in Nat
      BY <3>1, ProductTyped
    <3>6. x * x < (v1 * v1) * n1
      BY <3>1, <3>2, <3>3, <3>4, <3>5
    <3> QED
      BY <3>6 DEF x
  <2>2. vault' = v1
    BY <1>1 DEF v1
  <2>3. CoversFrom(v1, p, n1, s1)
    BY <2>1 DEF CoversFrom
  <2> QED
    BY <1>3, <1>4, <2>2, <2>3 DEF Covered, CoversFrom
<1> QED
  BY <1>3, <1>5, <1>6, <1>7 DEF IInv

(* What others do to the pool keeps every reserve's share of the LP.       *)
LEMMA PoolStepKeeps ==
  ASSUME IInv, PoolSound', UNCHANGED <<vault, lock>>,
         lp_supply' > 0,
         (PoolReserve(1) * PoolReserve(2)) * (lp_supply' * lp_supply')
           <= (PoolReserve(1) * PoolReserve(2))' * (lp_supply * lp_supply)
  PROVE  Covered'
<1> SUFFICES ASSUME lock.stage = "locked"
             PROVE  CoversFrom(vault, lock.principal, (PoolReserve(1) * PoolReserve(2))', lp_supply')
  BY DEF Covered, CoversFrom
<1> DEFINE n == PoolReserve(1) * PoolReserve(2)  s == lp_supply
           n1 == (PoolReserve(1) * PoolReserve(2))'  s1 == lp_supply'  p == lock.principal
<1>1. CoversFrom(vault, p, n, s)
  BY DEF IInv, Covered
<1>2. /\ n \in Nat /\ n1 \in Nat /\ s \in Nat \ {0} /\ s1 \in Nat \ {0} /\ p \in Nat \ {0} /\ vault \in Nat
      /\ n * (s1 * s1) <= n1 * (s * s)
  <2>1. PoolReserve(1)' \in Nat /\ PoolReserve(2)' \in Nat /\ lp_supply' \in Nat \ {0}
    BY DEF PoolSound, PoolReserve, Sides
  <2>2. n1 \in Nat
    BY <2>1, ProductTyped
  <2> QED
    BY <2>1, <2>2, SqrtKBounds DEF IInv, PoolSound, LpCounted
<1> HIDE DEF n, n1, s, s1, p
<1>3. CoversFrom(vault, p, n1, s1)
  BY <1>1, <1>2, SharesKeepCovering
<1> QED
  BY <1>3 DEF p, n1, s1

(* A swap: the product of the reserves does not fall, since the fee stays. *)
LEMMA SwapKeeps ==
  ASSUME IInv, NEW from \in Sides, NEW amount \in SwapIn, Swap(from, amount)
  PROVE  IInv'
<1> DEFINE to == 3 - from
           fee == MulDivCeil(amount, 1, TRADE_FEE)
           net == amount - fee
           ri == PoolReserve(from)  ro == PoolReserve(to)
           out == MulDivFloor(net, ro, ri + net)
           share == fee \div PROTOCOL_FEE
           ri1 == ri + amount - share  ro1 == ro - out
<1>1. from \in Sides /\ to \in Sides /\ from # to /\ Sides = {from, to}
  BY DEF Sides
<1>2. /\ pool_tokens' = [pool_tokens EXCEPT ![from] = @ + amount, ![to] = @ - out]
      /\ protocol_fees' = [protocol_fees EXCEPT ![from] = @ + share]
      /\ UNCHANGED <<lp_supply, paused, lockVars, lpNow>> /\ poolOps' = poolOps + 1
  BY DEF Swap, PoolOp
<1>3. /\ pool_tokens \in [Sides -> Nat] /\ protocol_fees \in [Sides -> Nat] /\ lp_supply \in Nat \ {0}
      /\ ri \in Nat \ {0} /\ ro \in Nat \ {0}
  BY <1>1 DEF IInv, PoolSound, PoolReserve
<1>4. amount \in Nat \ {0} /\ fee \in Nat /\ fee <= amount
  <2>1. amount \in Nat \ {0} /\ TRADE_FEE \in Nat \ {0}
    BY LockerAssumption
  <2>2. fee \in Nat /\ fee * TRADE_FEE < amount * 1 + TRADE_FEE
    BY <2>1, CeilBounds
  <2> HIDE DEF fee
  <2>3. fee <= amount
    <3> SUFFICES ASSUME amount + 1 <= fee PROVE FALSE
      BY <2>1, <2>2
    <3>1. (amount + 1) * TRADE_FEE <= fee * TRADE_FEE
      BY <2>1, <2>2, ProductGrows
    <3>2. (amount + 1) * TRADE_FEE = amount * TRADE_FEE + TRADE_FEE
      BY <2>1
    <3>3. amount * 1 <= amount * TRADE_FEE
      BY <2>1, ProductGrows
    <3>4. fee * TRADE_FEE \in Nat /\ amount * TRADE_FEE \in Nat
      BY <2>1, <2>2, ProductTyped
    <3> QED
      BY <2>1, <2>2, <3>1, <3>2, <3>3, <3>4
  <2> QED
    BY <2>1, <2>2, <2>3
<1>5. share \in Nat /\ share <= fee
  <2> HIDE DEF fee
  <2>1. PROTOCOL_FEE \in Nat \ {0}
    BY LockerAssumption
  <2>2. share \in Nat /\ share * PROTOCOL_FEE <= fee
    BY <1>4, <2>1
  <2> HIDE DEF share
  <2>3. share * 1 <= share * PROTOCOL_FEE
    BY <2>1, <2>2, ProductGrows
  <2> QED
    BY <1>4, <2>1, <2>2, <2>3, ProductTyped
<1>6. pool_tokens[from] - protocol_fees[from] = ri /\ pool_tokens[to] - protocol_fees[to] = ro
  BY DEF PoolReserve
<1> HIDE DEF to, fee, ri, ro, share
<1>7. net \in Nat /\ out \in Nat /\ out * (ri + net) <= net * ro
  <2>1. net \in Nat
    BY <1>4
  <2> HIDE DEF net
  <2>2. ri + net \in Nat \ {0}
    BY <1>3, <2>1
  <2> QED
    BY <1>3, <2>1, <2>2, FloorBounds
<1> HIDE DEF out
<1>8. ri * ro <= (ri + net) * (ro - out) /\ ro - out > 0
  <2>1. (ri + net) * (ro - out) = (ri * ro + net * ro) - out * (ri + net)
    BY <1>3, <1>7
  <2>2. ri * ro \in Nat /\ net * ro \in Nat /\ out * (ri + net) \in Nat
    BY <1>3, <1>7, ProductTyped
  <2>3. ri * ro <= (ri + net) * (ro - out)
    BY <1>7, <2>1, <2>2
  <2>4. ro - out > 0
    <3> SUFFICES ASSUME ro - out <= 0 PROVE FALSE
      BY <1>3, <1>7
    <3>1. (ri + net) * (ro - out) <= 0
      BY <1>3, <1>7
    <3>2. 1 * 1 <= ri * ro
      BY <1>3, ProductGrows
    <3> QED
      BY <1>3, <1>7, <2>2, <2>3, <3>1, <3>2
  <2> QED
    BY <2>3, <2>4
<1>9. PoolReserve(from)' = ri1 /\ PoolReserve(to)' = ro1
  BY <1>1, <1>2, <1>3, <1>4, <1>5, <1>6, <1>7 DEF PoolReserve
<1>10. /\ ri1 \in Nat \ {0} /\ ro1 \in Nat \ {0} /\ ri + net <= ri1
       /\ pool_tokens' \in [Sides -> Nat] /\ protocol_fees' \in [Sides -> Nat]
  <2>1. /\ ri1 \in Nat \ {0} /\ ro1 \in Nat \ {0} /\ ri + net <= ri1
    BY <1>3, <1>4, <1>5, <1>7, <1>8
  <2>2. pool_tokens[to] - out \in Nat
    BY <1>1, <1>3, <1>6, <1>7, <1>8
  <2> QED
    BY <1>1, <1>2, <1>3, <1>4, <1>5, <2>1, <2>2
<1>11. PoolSound'
  BY <1>1, <1>2, <1>3, <1>9, <1>10 DEF PoolSound
<1>12. LpCounted' /\ LockerTypeOK'
  BY <1>2, <1>10 DEF IInv, LpCounted, LockerTypeOK, lockVars
<1>13. ri * ro <= ri1 * ro1
  <2>1. (ri + net) * ro1 <= ri1 * ro1
    BY <1>3, <1>7, <1>10, ProductGrows
  <2>2. ri * ro \in Nat /\ (ri + net) * ro1 \in Nat /\ ri1 * ro1 \in Nat
    BY <1>3, <1>7, <1>10, ProductTyped
  <2> QED
    BY <1>8, <2>1, <2>2
<1>14. PoolReserve(1) * PoolReserve(2) = ri * ro /\ (PoolReserve(1) * PoolReserve(2))' = ri1 * ro1
  <2>1. (from = 1 /\ to = 2) \/ (from = 2 /\ to = 1)
    BY DEF Sides, to
  <2>2. ri * ro = ro * ri /\ ri1 * ro1 = ro1 * ri1
    BY <1>3, <1>10
  <2>3. PoolReserve(from) = ri /\ PoolReserve(to) = ro
    BY DEF ri, ro
  <2>4. CASE from = 1 /\ to = 2
    BY <1>9, <2>3, <2>4
  <2>5. CASE from = 2 /\ to = 1
    BY <1>9, <2>2, <2>3, <2>5
  <2> QED
    BY <2>1, <2>4, <2>5
<1>15. Covered'
  <2>1. (ri * ro) * (lp_supply * lp_supply) <= (ri1 * ro1) * (lp_supply * lp_supply)
    BY <1>3, <1>10, <1>13, ProductGrows, ProductTyped
  <2>2. lp_supply' = lp_supply /\ UNCHANGED <<vault, lock>>
    BY <1>2 DEF lockVars
  <2> QED
    BY <1>3, <1>11, <1>14, <2>1, <2>2, PoolStepKeeps
<1> QED
  BY <1>11, <1>12, <1>15 DEF IInv

(* Liquidity added: every reserve grows by its share, rounded up.          *)
LEMMA DepositKeeps ==
  ASSUME IInv, NEW lp \in LpMoved, Deposit(lp) PROVE IInv'
<1> DEFINE s1 == lp_supply + lp
           added(s) == MulDivCeil(lp, PoolReserve(s), lp_supply)
<1>1. lp \in Nat \ {0} /\ lp_supply \in Nat \ {0} /\ s1 \in Nat \ {0}
  BY LockerAssumption DEF IInv, PoolSound
<1>2. /\ pool_tokens' = [s \in Sides |-> pool_tokens[s] + added(s)]
      /\ lp_supply' = s1 /\ lp_outside' = lp_outside + lp /\ poolOps' = poolOps + 1
      /\ UNCHANGED <<protocol_fees, paused, vault, lock, lpNow>>
  BY DEF Deposit, PoolOp
<1>3. ASSUME NEW s \in Sides
      PROVE  /\ PoolReserve(s) \in Nat \ {0} /\ added(s) \in Nat
             /\ PoolReserve(s)' = PoolReserve(s) + added(s)
             /\ PoolReserve(s) * s1 <= (PoolReserve(s) + added(s)) * lp_supply
  <2> DEFINE r == PoolReserve(s)  x == MulDivCeil(lp, r, lp_supply)
  <2>0. added(s) = x
    OBVIOUS
  <2> HIDE DEF added
  <2>1. r \in Nat \ {0} /\ pool_tokens[s] \in Nat /\ protocol_fees[s] \in Nat
    BY DEF IInv, PoolSound, PoolReserve
  <2>2. r = pool_tokens[s] - protocol_fees[s]
    BY DEF PoolReserve
  <2>3. /\ pool_tokens'[s] = pool_tokens[s] + x /\ protocol_fees'[s] = protocol_fees[s]
        /\ PoolReserve(s)' = pool_tokens'[s] - protocol_fees'[s]
    <3>1. pool_tokens'[s] = pool_tokens[s] + added(s)
      BY <1>2
    <3>2. protocol_fees'[s] = protocol_fees[s]
      BY <1>2
    <3>3. PoolReserve(s)' = pool_tokens'[s] - protocol_fees'[s]
      BY DEF PoolReserve
    <3> QED
      BY <2>0, <3>1, <3>2, <3>3
  <2> HIDE DEF r
  <2>4. x \in Nat /\ lp * r <= x * lp_supply
    BY <1>1, <2>1, CeilBounds
  <2> HIDE DEF x
  <2>5. r * s1 = r * lp_supply + lp * r /\ (r + x) * lp_supply = r * lp_supply + x * lp_supply
    BY <1>1, <2>1, <2>4
  <2>6. r * lp_supply \in Nat /\ lp * r \in Nat /\ x * lp_supply \in Nat
    BY <1>1, <2>1, <2>4, ProductTyped
  <2>7. r * s1 <= (r + x) * lp_supply
    BY <2>4, <2>5, <2>6
  <2>8. PoolReserve(s)' = r + x
    BY <2>0, <2>1, <2>2, <2>3, <2>4
  <2> QED
    BY <2>0, <2>1, <2>4, <2>7, <2>8 DEF r
<1> HIDE DEF added
<1>4. pool_tokens' \in [Sides -> Nat]
  BY <1>2, <1>3 DEF IInv, PoolSound
<1>5. PoolSound'
  BY <1>1, <1>2, <1>3, <1>4 DEF IInv, PoolSound
<1>6. LpCounted' /\ LockerTypeOK'
  BY <1>1, <1>2, <1>4 DEF IInv, LpCounted, LockerTypeOK
<1>7. (PoolReserve(1) * PoolReserve(2)) * (lp_supply' * lp_supply')
        <= (PoolReserve(1) * PoolReserve(2))' * (lp_supply * lp_supply)
  <2> DEFINE a == PoolReserve(1)  b == PoolReserve(2)  a1 == a + added(1)  b1 == b + added(2)
  <2>1. /\ a \in Nat /\ b \in Nat /\ a1 \in Nat /\ b1 \in Nat
        /\ a * s1 <= a1 * lp_supply /\ b * s1 <= b1 * lp_supply
        /\ PoolReserve(1)' = a1 /\ PoolReserve(2)' = b1
    BY <1>3 DEF Sides
  <2> HIDE DEF a, b, a1, b1
  <2>2. (a * b) * (s1 * s1) <= (a1 * b1) * (lp_supply * lp_supply)
    BY <1>1, <2>1, SharesMultiply
  <2> QED
    BY <1>2, <2>1, <2>2 DEF a, b
<1>8. Covered'
  BY <1>1, <1>2, <1>5, <1>7, PoolStepKeeps
<1> QED
  BY <1>5, <1>6, <1>8 DEF IInv

(* Liquidity removed: every reserve keeps the share of the LP that stays.  *)
LEMMA OthersWithdrawKeeps ==
  ASSUME IInv, NEW lp \in LpMoved, OthersWithdraw(lp) PROVE IInv'
<1> DEFINE s1 == lp_supply - lp
<1>1. /\ lp <= lp_outside /\ lp < lp_supply /\ Withdraw(lp) /\ lp_outside' = lp_outside - lp
      /\ UNCHANGED <<protocol_fees, paused, vault, lock, lpNow>> /\ poolOps' = poolOps + 1
  BY DEF OthersWithdraw, PoolOp
<1>2. lp \in Nat \ {0} /\ lp_supply \in Nat \ {0} /\ s1 \in Nat \ {0} /\ PoolSound
  BY <1>1, LockerAssumption DEF IInv, PoolSound
<1>3. /\ PoolSound' /\ pool_tokens' \in [Sides -> Nat] /\ lp_supply' = s1
      /\ \A s \in Sides : PoolReserve(s)' = AfterWithdraw(lp)[s]
  BY <1>1, <1>2, WithdrawSound
<1>4. LpCounted' /\ LockerTypeOK'
  BY <1>1, <1>2, <1>3 DEF IInv, LpCounted, LockerTypeOK
<1>5. (PoolReserve(1) * PoolReserve(2)) * (lp_supply' * lp_supply')
        <= (PoolReserve(1) * PoolReserve(2))' * (lp_supply * lp_supply)
  <2> DEFINE a == PoolReserve(1)  b == PoolReserve(2)
             a1 == AfterWithdraw(lp)[1]  b1 == AfterWithdraw(lp)[2]
  <2>1. /\ a \in Nat /\ b \in Nat /\ a1 \in Nat /\ b1 \in Nat
        /\ a * s1 <= a1 * lp_supply /\ b * s1 <= b1 * lp_supply
    BY <1>1, <1>2, WithdrawKeepsShares DEF Sides
  <2>2. PoolReserve(1)' = a1 /\ PoolReserve(2)' = b1
    BY <1>3 DEF Sides
  <2> HIDE DEF a, b, a1, b1
  <2>3. (a * b) * (s1 * s1) <= (a1 * b1) * (lp_supply * lp_supply)
    BY <1>2, <2>1, SharesMultiply
  <2> QED
    BY <1>3, <2>2, <2>3 DEF a, b
<1>6. Covered'
  BY <1>1, <1>2, <1>3, <1>5, PoolStepKeeps
<1> QED
  BY <1>3, <1>4, <1>6 DEF IInv

(* The protocol's fees were never in the reserves.                         *)
LEMMA CollectProtocolFeesKeeps ==
  ASSUME IInv, CollectProtocolFees PROVE IInv'
<1>1. /\ pool_tokens' = [s \in Sides |-> pool_tokens[s] - protocol_fees[s]]
      /\ protocol_fees' = [s \in Sides |-> 0] /\ poolOps' = poolOps + 1
      /\ UNCHANGED <<lp_supply, paused, lockVars, lpNow>>
  BY DEF CollectProtocolFees, PoolOp
<1>2. \A s \in Sides : /\ PoolReserve(s) \in Nat \ {0} /\ PoolReserve(s) = pool_tokens[s] - protocol_fees[s]
                       /\ PoolReserve(s)' = PoolReserve(s)
  BY <1>1 DEF IInv, PoolSound, PoolReserve
<1>3. pool_tokens' \in [Sides -> Nat] /\ protocol_fees' \in [Sides -> Nat]
  BY <1>1, <1>2
<1>4. PoolSound'
  BY <1>1, <1>2, <1>3 DEF IInv, PoolSound
<1>5. LpCounted' /\ LockerTypeOK'
  BY <1>1, <1>3 DEF IInv, LpCounted, LockerTypeOK, lockVars
<1>6. Covered'
  BY <1>1, <1>2 DEF IInv, Covered, CoversFrom, lockVars, Sides
<1> QED
  BY <1>4, <1>5, <1>6 DEF IInv

(* LP given to the lock covers all the more.                               *)
LEMMA GiveLpKeeps ==
  ASSUME IInv, NEW lp \in LpMoved, GiveLp(lp) PROVE IInv'
<1>1. /\ lp <= lp_outside /\ vault' = vault + lp /\ lp_outside' = lp_outside - lp /\ poolOps' = poolOps + 1
      /\ lock.stage = "locked" /\ UNCHANGED <<pool_tokens, protocol_fees, lp_supply, paused, lock, lpNow>>
  BY DEF GiveLp, PoolOp
<1>2. lp \in Nat /\ vault \in Nat
  BY LockerAssumption DEF IInv, LpCounted
<1>3. PoolSound'
  BY <1>1 DEF IInv, PoolSound, PoolReserve
<1>4. LpCounted' /\ LockerTypeOK'
  BY <1>1, <1>2 DEF IInv, LpCounted, LockerTypeOK
<1>5. Covered'
  <2> DEFINE n == PoolReserve(1) * PoolReserve(2)
             x == ((lock.principal - 1) * lp_supply) * ((lock.principal - 1) * lp_supply)
  <2>1. n \in Nat /\ x \in Nat /\ x < (vault * vault) * n
    <3>1. n \in Nat
      BY SqrtKBounds DEF IInv
    <3>2. lock.principal - 1 \in Nat /\ lp_supply \in Nat
      BY <1>1 DEF IInv, LpCounted, PoolSound
    <3>3. x \in Nat
      BY <3>2, ProductTyped
    <3> QED
      BY <1>1, <3>1, <3>3 DEF IInv, Covered, CoversFrom
  <2>2. UNCHANGED <<n, x>>
    BY <1>1 DEF PoolReserve
  <2> HIDE DEF n, x
  <2>3. (vault * vault) * n <= ((vault + lp) * (vault + lp)) * n
    BY <1>2, <2>1, ProductGrows, ProductTyped
  <2>4. (vault * vault) * n \in Nat /\ ((vault + lp) * (vault + lp)) * n \in Nat
    BY <1>2, <2>1, ProductTyped
  <2>5. x < ((vault + lp) * (vault + lp)) * n
    BY <2>1, <2>3, <2>4
  <2>6. Covered' <=> (lock'.stage = "locked" => x' < (vault' * vault') * n')
    BY DEF Covered, CoversFrom, n, x
  <2> QED
    BY <1>1, <2>2, <2>5, <2>6
<1> QED
  BY <1>3, <1>4, <1>5 DEF IInv

(* What touches neither the reserves nor a lock that is held.              *)
LEMMA QuietKeeps ==
  ASSUME IInv, Unlock \/ PauseOrResume \/ LpTick \/ UNCHANGED lockerVars PROVE IInv'
<1>1. CASE Unlock
  <2>1. /\ UNCHANGED <<poolVars, lpNow>> /\ vault' = 0 /\ lp_outside' = lp_outside + vault
        /\ lock' = [NoLock EXCEPT !.stage = "closed"]
    BY <1>1 DEF Unlock
  <2>2. lock'.stage = "closed" /\ lock' \in [stage : {"none", "locked", "closed"}, locked_lp : Nat,
                                             principal : Nat, fee_lp_collected : Nat, unlock_at : Nat]
    BY <2>1 DEF NoLock
  <2>3. LpCounted'
    BY <2>1, <2>2 DEF IInv, LpCounted, poolVars
  <2> QED
    BY <2>1, <2>2, <2>3 DEF IInv, LockerTypeOK, PoolSound, PoolReserve, LpCounted, Covered, poolVars
<1>2. CASE PauseOrResume
  BY <1>2 DEF IInv, LockerTypeOK, PoolSound, PoolReserve, LpCounted, Covered, CoversFrom,
              PauseOrResume, PoolOp, lockVars
<1>3. CASE LpTick
  BY <1>3 DEF IInv, LockerTypeOK, PoolSound, PoolReserve, LpCounted, Covered, CoversFrom,
              LpTick, poolVars, lockVars
<1>4. CASE UNCHANGED lockerVars
  BY <1>4 DEF IInv, LockerTypeOK, PoolSound, PoolReserve, LpCounted, Covered, CoversFrom,
              lockerVars, poolVars, lockVars
<1> QED
  BY <1>1, <1>2, <1>3, <1>4

-----------------------------------------------------------------------------
(* IInv is inductive: one lemma above for every action.                    *)
LEMMA NextKeeps == IInv /\ [LockerNext]_lockerVars => IInv'
<1> SUFFICES ASSUME IInv, [LockerNext]_lockerVars PROVE IInv'
  OBVIOUS
<1>1. ASSUME NEW amount \in ToLock, NEW end \in Ends \cup {Forever}, LockLp(amount, end) PROVE IInv'
  BY <1>1, LockLpKeeps
<1>2. ASSUME CollectFees PROVE IInv'
  BY <1>2, CollectKeeps
<1>3. ASSUME NEW from \in Sides, NEW amount \in SwapIn, Swap(from, amount) PROVE IInv'
  BY <1>3, SwapKeeps
<1>4. ASSUME NEW lp \in LpMoved, Deposit(lp) \/ OthersWithdraw(lp) \/ GiveLp(lp) PROVE IInv'
  BY <1>4, DepositKeeps, OthersWithdrawKeeps, GiveLpKeeps
<1>5. ASSUME CollectProtocolFees PROVE IInv'
  BY <1>5, CollectProtocolFeesKeeps
<1>6. ASSUME Unlock \/ PauseOrResume \/ LpTick \/ UNCHANGED lockerVars PROVE IInv'
  BY <1>6, QuietKeeps
<1> QED
  BY <1>1, <1>2, <1>3, <1>4, <1>5, <1>6 DEF LockerNext

(* The invariant holds in every state of every pool.                       *)
LEMMA LockerInvariant == LockerSpec => []IInv
<1> QED
  BY InitIInv, NextKeeps, PTL DEF LockerSpec

(* Every state of the lock and of the pool has its type: no amount of LP   *)
(* in the vault, and no reserve of the pool, ever falls below zero.        *)
THEOREM LockerTyped == LockerSpec => []LockerTypeOK
<1>1. IInv => LockerTypeOK
  BY DEF IInv
<1> QED
  BY <1>1, LockerInvariant, PTL

(* Whatever is traded, added or removed, in any amounts and any order, a   *)
(* lock stays worth its principal but for two units of rounding, and the   *)
(* last check of collect_fees (PrincipalViolated) never refuses fees.      *)
THEOREM PrincipalAlwaysKept == LockerSpec => []LockKeepsPrincipal
<1>1. IInv => LockKeepsPrincipal
  BY CoveredGives, NeverRefuses DEF LockKeepsPrincipal
<1> QED
  BY <1>1, LockerInvariant, PTL

-----------------------------------------------------------------------------
(* RewardVault: a deposit always finds a slot. Live slots unlock in        *)
(* different buckets, and with the period one bucket shorter than the slots,*)
(* no more of them are still to come than there are slots.                 *)

(* When bucket k unlocks, and the slots in use.                            *)
UnlockOf(k) == (k + 1) * VEST_BUCKET + VEST_SECONDS
Live(s) == tranches[s].amount > 0

(* Slots in use unlock at the end of buckets that had begun.               *)
BucketsBegun ==
    \A s \in Slots : Live(s) =>
        \E k \in Nat : k * VEST_BUCKET <= now /\ tranches[s].unlock_at = UnlockOf(k)

(* No two slots in use unlock at the same time.                            *)
OneSlotPerBucket ==
    \A r, s \in Slots : Live(r) /\ Live(s) /\ tranches[r].unlock_at = tranches[s].unlock_at => r = s

(* The inductive invariant of the slots.                                   *)
SlotInv ==
    /\ tranches \in [Slots -> [amount : Nat, unlock_at : Nat]]
    /\ now \in Nat
    /\ BucketsBegun
    /\ OneSlotPerBucket

(* Division rounds down.                                                   *)
LEMMA DivBounds ==
    ASSUME NEW a \in Nat, NEW b \in Nat \ {0}
    PROVE  /\ a \div b \in Nat
           /\ (a \div b) * b <= a
           /\ a < (a \div b + 1) * b
  OBVIOUS

(* Products of naturals grow with a factor.                                *)
LEMMA TimesGrows ==
    ASSUME NEW m \in Int, NEW n \in Int, m <= n, NEW b \in Nat
    PROVE  m * b <= n * b
  OBVIOUS

(* What a deposit at `time` unlocks with.                                  *)
LEMMA UnlockIsOf ==
    ASSUME NEW time \in Nat
    PROVE  /\ time \div VEST_BUCKET \in Nat
           /\ BucketUnlock(time) = UnlockOf(time \div VEST_BUCKET)
           /\ BucketUnlock(time) \in Nat
           /\ (time \div VEST_BUCKET) * VEST_BUCKET <= time
           /\ time < (time \div VEST_BUCKET + 1) * VEST_BUCKET
  BY DivBounds, VestingAssumption DEF BucketUnlock, UnlockOf

(* release leaves the slots it does not empty as they are.                 *)
LEMMA ReleaseKeeps ==
    ASSUME SlotInv
    PROVE  /\ AfterRelease \in [Slots -> [amount : Nat, unlock_at : Nat]]
           /\ \A s \in Slots : AfterRelease[s].amount > 0 =>
                 AfterRelease[s] = tranches[s] /\ tranches[s].amount > 0 /\ tranches[s].unlock_at > now
  BY DEF SlotInv, AfterRelease, Ripe, NoTranche

(* The empty vault satisfies it.                                           *)
LEMMA InitSlots == VaultInit => SlotInv
  BY VestingAssumption DEF VaultInit, SlotInv, BucketsBegun, OneSlotPerBucket, Live, NoTranche, Slots

(* release keeps it.                                                       *)
LEMMA ReleaseSlots ==
    ASSUME SlotInv, tranches' = AfterRelease, now' = now
    PROVE  SlotInv'
<1>1. tranches' \in [Slots -> [amount : Nat, unlock_at : Nat]] /\ now' \in Nat
  BY ReleaseKeeps DEF SlotInv
<1>2. \A s \in Slots : Live(s)' => tranches'[s] = tranches[s] /\ Live(s)
  BY ReleaseKeeps DEF Live
<1>3. BucketsBegun' /\ OneSlotPerBucket'
  BY <1>2 DEF SlotInv, BucketsBegun, OneSlotPerBucket, UnlockOf
<1> QED
  BY <1>1, <1>3 DEF SlotInv

(* add keeps it: it joins the slot that unlocks with it, or takes a free   *)
(* one when none does.                                                     *)
LEMMA DepositSlots ==
    ASSUME SlotInv, NEW amount \in Amounts, DepositReward(amount)
    PROVE  SlotInv'
<1> DEFINE u == BucketUnlock(now)
           k == now \div VEST_BUCKET
<1>1. amount \in Nat /\ amount > 0 /\ now \in Nat
  BY VestingAssumption DEF DepositReward, SlotInv
<1>2. k \in Nat /\ k * VEST_BUCKET <= now /\ u = UnlockOf(k) /\ u \in Nat
  BY <1>1, UnlockIsOf
<1>3. PICK slot \in FirstOf(Candidates(u)) :
          tranches' = [AfterRelease EXCEPT ![slot] = [amount |-> @.amount + amount, unlock_at |-> u]]
  BY DEF DepositReward
<1>4. slot \in Slots /\ (\A s \in Slots : s # slot /\ AfterRelease[s].amount > 0 => AfterRelease[s].unlock_at # u)
  <2>1. slot \in Candidates(u)
    BY DEF FirstOf
  <2>2. CASE \E s \in Slots : AfterRelease[s].amount > 0 /\ AfterRelease[s].unlock_at = u
    <3>1. AfterRelease[slot].amount > 0 /\ AfterRelease[slot].unlock_at = u /\ slot \in Slots
      BY <2>1, <2>2 DEF Candidates
    <3>2. ASSUME NEW s \in Slots, s # slot, AfterRelease[s].amount > 0
          PROVE  AfterRelease[s].unlock_at # u
      BY <3>1, <3>2, ReleaseKeeps DEF SlotInv, OneSlotPerBucket, Live
    <3> QED
      BY <3>1, <3>2
  <2>3. CASE ~ \E s \in Slots : AfterRelease[s].amount > 0 /\ AfterRelease[s].unlock_at = u
    BY <2>1, <2>3 DEF Candidates
  <2> QED
    BY <2>2, <2>3
<1>5. now' = now /\ now' \in Nat
  BY <1>1 DEF DepositReward
<1>6. tranches' \in [Slots -> [amount : Nat, unlock_at : Nat]]
  BY <1>1, <1>2, <1>3, <1>4, ReleaseKeeps
<1>7. tranches'[slot].unlock_at = u
  BY <1>3, <1>4, ReleaseKeeps
<1>8. \A s \in Slots : s # slot /\ Live(s)' =>
          Live(s) /\ tranches'[s].unlock_at = tranches[s].unlock_at /\ tranches[s].unlock_at # u
  BY <1>3, <1>4, ReleaseKeeps DEF Live
<1>9. BucketsBegun'
  <2> SUFFICES ASSUME NEW s \in Slots, Live(s)'
               PROVE  \E j \in Nat : j * VEST_BUCKET <= now' /\ tranches'[s].unlock_at = UnlockOf(j)
    BY DEF BucketsBegun, UnlockOf
  <2>1. CASE s = slot
    BY <1>2, <1>5, <1>7, <2>1
  <2>2. CASE s # slot
    BY <1>5, <1>8, <2>2 DEF SlotInv, BucketsBegun
  <2> QED
    BY <2>1, <2>2
<1>10. OneSlotPerBucket'
  BY <1>7, <1>8 DEF SlotInv, OneSlotPerBucket
<1> QED
  BY <1>5, <1>6, <1>9, <1>10 DEF SlotInv

(* Every step keeps it.                                                    *)
LEMMA NextSlots == SlotInv /\ [VaultNext]_vaultVars => SlotInv'
<1> SUFFICES ASSUME SlotInv, [VaultNext]_vaultVars
             PROVE  SlotInv'
  OBVIOUS
<1>1. CASE \E amount \in Amounts : DepositReward(amount)
  BY <1>1, DepositSlots
<1>2. CASE ClaimReward
  BY <1>2, ReleaseSlots DEF ClaimReward
<1>3. CASE VaultTick
  <2>1. tranches' = tranches /\ now' = now + 1
    BY <1>3 DEF VaultTick
  <2>2. \A k \in Nat : k * VEST_BUCKET <= now => k * VEST_BUCKET <= now + 1
    BY VestingAssumption DEF SlotInv
  <2> QED
    BY <2>1, <2>2 DEF SlotInv, BucketsBegun, OneSlotPerBucket, Live, UnlockOf
<1>4. CASE UNCHANGED vaultVars
  BY <1>4 DEF SlotInv, BucketsBegun, OneSlotPerBucket, Live, UnlockOf, vaultVars
<1> QED
  BY <1>1, <1>2, <1>3, <1>4 DEF VaultNext

(* With all slots in use and none to join, TRANCHES slots would unlock in  *)
(* TRANCHES - 1 buckets.                                                   *)
LEMMA SlotsSuffice == SlotInv => NeverFull
<1> SUFFICES ASSUME SlotInv, Candidates(BucketUnlock(now)) = {}
             PROVE  FALSE
  BY DEF NeverFull
<1> DEFINE q == now \div VEST_BUCKET
           Begun(s, k) == k * VEST_BUCKET <= now /\ AfterRelease[s].unlock_at = UnlockOf(k)
           bucket == [s \in Slots |-> CHOOSE k \in Nat : Begun(s, k)]
           Coming == (q - TRANCHES + 1) .. (q - 1)
<1>1. /\ q \in Nat /\ BucketUnlock(now) = UnlockOf(q)
      /\ q * VEST_BUCKET <= now /\ now < (q + 1) * VEST_BUCKET
  BY UnlockIsOf DEF SlotInv
<1>2. \A s \in Slots : /\ AfterRelease[s].amount > 0
                       /\ AfterRelease[s].unlock_at # UnlockOf(q)
                       /\ AfterRelease[s].unlock_at > now
  <2>1. \A s \in Slots : AfterRelease[s].amount \in Nat /\ AfterRelease[s].amount # 0
    BY ReleaseKeeps DEF Candidates
  <2>2. \A s \in Slots : AfterRelease[s].amount > 0
    BY <2>1
  <2> QED
    BY <1>1, <2>2, ReleaseKeeps DEF Candidates
<1>3. \A s \in Slots : bucket[s] \in Nat /\ Begun(s, bucket[s])
  <2> SUFFICES ASSUME NEW s \in Slots
               PROVE  \E k \in Nat : Begun(s, k)
    OBVIOUS
  <2> QED
    BY <1>2, ReleaseKeeps DEF SlotInv, BucketsBegun, Live
<1>4. \A s \in Slots : bucket[s] \in Coming
  <2> SUFFICES ASSUME NEW s \in Slots
               PROVE  bucket[s] \in Coming
    OBVIOUS
  <2> DEFINE k == bucket[s]
  <2>1. k \in Nat /\ k * VEST_BUCKET <= now /\ UnlockOf(k) > now /\ k # q
    BY <1>1, <1>2, <1>3
  <2>2. k < q + 1
    <3>1. CASE k >= q + 1
      <4>1. (q + 1) * VEST_BUCKET <= k * VEST_BUCKET
        BY <1>1, <2>1, <3>1, VestingAssumption, TimesGrows
      <4>2. (q + 1) * VEST_BUCKET \in Int /\ k * VEST_BUCKET \in Int /\ now \in Int
        BY <1>1, <2>1, VestingAssumption DEF SlotInv
      <4> QED
        BY <1>1, <2>1, <4>1, <4>2
    <3> QED
      BY <1>1, <2>1, <3>1
  <2>3. k + TRANCHES > q
    <3>1. CASE k + TRANCHES <= q
      <4>1. (k + TRANCHES) * VEST_BUCKET <= q * VEST_BUCKET
        BY <1>1, <2>1, <3>1, VestingAssumption, TimesGrows
      <4>2. (k + TRANCHES) * VEST_BUCKET = (k + 1) * VEST_BUCKET + (TRANCHES - 1) * VEST_BUCKET
        BY <2>1, VestingAssumption
      <4>3. UnlockOf(k) <= (k + TRANCHES) * VEST_BUCKET
        BY <2>1, <4>2, VestingAssumption DEF UnlockOf
      <4> QED
        BY <1>1, <2>1, <4>1, <4>3, VestingAssumption DEF SlotInv, UnlockOf
    <3> QED
      BY <1>1, <2>1, <3>1, VestingAssumption
  <2> QED
    BY <1>1, <2>1, <2>2, <2>3, VestingAssumption
<1>5. /\ IsFiniteSet(Slots) /\ Cardinality(Slots) = TRANCHES
      /\ IsFiniteSet(Coming) /\ Cardinality(Coming) < TRANCHES
  <2>1. 1 \in Int /\ TRANCHES \in Int /\ TRANCHES > 0 /\ q - TRANCHES + 1 \in Int /\ q - 1 \in Int
    BY <1>1, VestingAssumption
  <2>2. IsFiniteSet(1..TRANCHES) /\ Cardinality(1..TRANCHES) = IF 1 > TRANCHES THEN 0 ELSE TRANCHES - 1 + 1
    BY <2>1, FS_Interval
  <2>3. /\ IsFiniteSet(Coming)
        /\ Cardinality(Coming) = IF q - TRANCHES + 1 > q - 1 THEN 0 ELSE (q - 1) - (q - TRANCHES + 1) + 1
    BY <2>1, FS_Interval
  <2>4. Cardinality(1..TRANCHES) = TRANCHES
    BY <2>1, <2>2
  <2>5. Cardinality(Coming) < TRANCHES
    BY <1>1, <2>1, <2>3
  <2> QED
    BY <2>2, <2>3, <2>4, <2>5 DEF Slots
<1>6. PICK r \in Slots, s \in Slots : r # s /\ bucket[r] = bucket[s]
  <2>1. bucket \in [Slots -> Coming]
    BY <1>4
  <2> HIDE DEF bucket, Coming
  <2> QED
    BY <1>5, <2>1, FS_PigeonHole
<1>7. AfterRelease[r].unlock_at = AfterRelease[s].unlock_at
  BY <1>3, <1>6
<1> QED
  BY <1>2, <1>6, <1>7, ReleaseKeeps DEF SlotInv, OneSlotPerBucket, Live

(* add: VestingFull is never returned, for any vesting period and any      *)
(* number of slots that VestingAssumption allows.                          *)
THEOREM SlotsNeverFull == VaultSpec => []NeverFull
<1>1. SlotInv /\ [VaultNext]_vaultVars => SlotInv'
  BY NextSlots
<1>2. VaultSpec => []SlotInv
  BY InitSlots, <1>1, PTL DEF VaultSpec
<1> QED
  BY <1>2, SlotsSuffice, PTL

-----------------------------------------------------------------------------
(* RewardVault: every deposit vests on time. What is still locked after any*)
(* time from now on is the same by the slots as by the history of deposits.*)

(* The times of deposits, and what each slot holds.                        *)
Times == 0..MaxTime
AmountOf == [s \in Slots |-> tranches[s].amount]

(* What the slots that unlock after `time` hold, and what of the deposits  *)
(* unlocks after it.                                                       *)
StillLocked(time) ==
    FSum([s \in Slots |-> IF tranches[s].unlock_at > time THEN tranches[s].amount ELSE 0], Slots)
(* What of the deposits unlocks after `time`.                              *)
DepositedLate(time) ==
    FSum([t \in Times |-> IF BucketUnlock(t) > time THEN deposits[t] ELSE 0], Times)

(* From now on, slots and deposits unlock alike.                           *)
SchedulesAgree == \A time \in Nat : time >= now => StillLocked(time) = DepositedLate(time)

(* The inductive invariant.                                                *)
VestingInv ==
    /\ VaultTypeOK
    /\ SlotInv
    /\ held = claimable + FSum(AmountOf, Slots)
    /\ held = total_deposited - total_claimed
    /\ total_deposited = FSum(deposits, Times)
    /\ SchedulesAgree

(* Slots and times are finite.                                             *)
LEMMA SlotsFinite == IsFiniteSet(Slots) /\ IsFiniteSet(Times)
BY VestingAssumption, FS_Interval DEF Slots, Times

(* The sums the model writes with MapThenSumSet, as sums of functions.     *)
LEMMA SlotSumIs ==
    ASSUME NEW X \in SUBSET Slots
    PROVE  MapThenSumSet(LAMBDA s : tranches[s].amount, X) = FSum(AmountOf, X)
<1> DEFINE f == AmountOf
           Is(g) == g = [s \in SUBSET X |-> IF s = {} THEN 0 ELSE tranches[Some(s)].amount + g[Rest(s)]]
           h == CHOOSE g : Is(g)
           k == CHOOSE g : IsSum(f, X, g)
<1>1. MapThenSumSet(LAMBDA s : tranches[s].amount, X) = h[X]
  BY DEF MapThenSumSet, MapThenFoldSet, Some, Rest
<1>2. FSum(f, X) = k[X]
  BY Unfold
<1>3. IsFiniteSet(X)
  BY FS_Subset, SlotsFinite
<1>4. IsSum(f, X, k)
  BY <1>3, SumExists
<1>5. \A s \in SUBSET X : s # {} => f[Some(s)] = tranches[Some(s)].amount
  BY SomeMember DEF AmountOf
<1>6. Is(k)
  <2> HIDE DEF f, k
  <2> QED
    BY <1>4, <1>5 DEF IsSum
<1>7. Is(h)
  BY <1>6
<1>8. IsSum(f, X, h)
  <2> HIDE DEF f, h
  <2> QED
    BY <1>7, <1>5 DEF IsSum
<1> HIDE DEF f, h, k
<1>9. h[X] = k[X]
  BY <1>3, <1>4, <1>8, SumsAgree
<1> QED
  BY <1>1, <1>2, <1>9 DEF f

(* The property's sum is a FiniteSums sum.                                 *)
LEMMA DepositSumIs ==
    ASSUME NEW X \in SUBSET Times
    PROVE  MapThenSumSet(LAMBDA t : deposits[t], X) = FSum(deposits, X)
<1> DEFINE Is(g) == g = [s \in SUBSET X |-> IF s = {} THEN 0 ELSE deposits[Some(s)] + g[Rest(s)]]
           h == CHOOSE g : Is(g)
           k == CHOOSE g : IsSum(deposits, X, g)
<1>1. MapThenSumSet(LAMBDA t : deposits[t], X) = h[X]
  BY DEF MapThenSumSet, MapThenFoldSet, Some, Rest
<1>2. FSum(deposits, X) = k[X]
  BY Unfold
<1>3. IsFiniteSet(X)
  BY FS_Subset, SlotsFinite
<1>4. IsSum(deposits, X, k)
  BY <1>3, SumExists
<1>5. h = k
  BY DEF IsSum
<1> QED
  BY <1>1, <1>2, <1>5

(* release moves what is ripe: what stays locked and what it moves make up *)
(* what there was.                                                         *)
LEMMA RipeAndLocked ==
    ASSUME VestingInv
    PROVE  /\ Released \in Nat /\ StillLocked(now) \in Nat
           /\ FSum(AmountOf, Slots) = Released + StillLocked(now)
<1> DEFINE ripe == {s \in Slots : Ripe(tranches[s])}
           late == [s \in Slots |-> IF tranches[s].unlock_at > now THEN tranches[s].amount ELSE 0]
           early == [s \in Slots |-> IF s \in ripe THEN tranches[s].amount ELSE 0]
<1>1. IsFiniteSet(Slots) /\ now \in Nat /\ tranches \in [Slots -> [amount : Nat, unlock_at : Nat]]
  BY SlotsFinite DEF VestingInv, SlotInv
<1>2. \A s \in Slots : tranches[s].amount \in Nat /\ tranches[s].unlock_at \in Nat
  BY <1>1
<1>3. \A s \in Slots : early[s] \in Nat /\ late[s] \in Nat /\ AmountOf[s] = early[s] + late[s]
  <2> SUFFICES ASSUME NEW s \in Slots
               PROVE  early[s] \in Nat /\ late[s] \in Nat /\ AmountOf[s] = early[s] + late[s]
    OBVIOUS
  <2>1. s \in ripe <=> tranches[s].amount > 0 /\ ~(tranches[s].unlock_at > now)
    BY <1>1, <1>2 DEF Ripe
  <2>2. AmountOf[s] = tranches[s].amount
    BY DEF AmountOf
  <2>3. early[s] = IF s \in ripe THEN tranches[s].amount ELSE 0
    OBVIOUS
  <2>4. late[s] = IF tranches[s].unlock_at > now THEN tranches[s].amount ELSE 0
    OBVIOUS
  <2> HIDE DEF ripe, early, late
  <2> QED
    BY <1>1, <1>2, <2>1, <2>2, <2>3, <2>4
<1>4. \A s \in ripe : early[s] = AmountOf[s] /\ early[s] \in Int
  BY <1>3 DEF AmountOf
<1>5. \A s \in Slots \ ripe : early[s] = 0
  OBVIOUS
<1>6. ripe \subseteq Slots /\ IsFiniteSet(ripe)
  BY <1>1, FS_Subset
<1>7. Released = FSum(AmountOf, ripe)
  BY <1>6, SlotSumIs DEF Released
<1>8. StillLocked(now) = FSum(late, Slots)
  BY DEF StillLocked
<1> HIDE DEF ripe, early, late
<1>9. FSum(early, Slots) = FSum(AmountOf, ripe)
  <2>1. FSum(early, Slots) = FSum(early, ripe)
    BY <1>1, <1>4, <1>5, <1>6, SumSupport
  <2>2. FSum(early, ripe) = FSum(AmountOf, ripe)
    BY <1>4, <1>6, SumSame
  <2> QED
    BY <2>1, <2>2
<1>10. FSum(AmountOf, Slots) = FSum(early, Slots) + FSum(late, Slots)
  BY <1>1, <1>3, SumPlus
<1>11. FSum(early, Slots) \in Nat /\ FSum(late, Slots) \in Nat
  BY <1>1, <1>3, SumNat
<1> QED
  BY <1>7, <1>8, <1>9, <1>10, <1>11

(* The invariant says what the run checks.                                 *)
LEMMA VestingOnTime ==
    ASSUME VestingInv
    PROVE  VestsOnTime /\ VaultBalance
<1> DEFINE late == [t \in Times |-> IF BucketUnlock(t) > now THEN deposits[t] ELSE 0]
           due == [t \in Times |-> IF BucketUnlock(t) > now THEN 0 ELSE deposits[t]]
           By(time) == [t \in Times |-> IF t <= time THEN deposits[t] ELSE 0]
<1>1. /\ IsFiniteSet(Times) /\ IsFiniteSet(Slots) /\ now \in Nat
      /\ VEST_SECONDS \in Nat /\ VEST_BUCKET \in Nat /\ MaxTime \in Nat
      /\ deposits \in [Times -> Nat] /\ claimable \in Nat /\ total_claimed \in Nat
      /\ held \in Nat /\ total_deposited \in Nat
  BY SlotsFinite, VestingAssumption DEF VestingInv, VaultTypeOK, SlotInv, Times
<1>2. \A t \in Times : t \in Nat
  BY <1>1 DEF Times
<1>3. \A t \in Times : t + VEST_SECONDS < BucketUnlock(t) /\ BucketUnlock(t) <= t + VEST_SECONDS + VEST_BUCKET
  <2> SUFFICES ASSUME NEW t \in Times
               PROVE  t + VEST_SECONDS < BucketUnlock(t) /\ BucketUnlock(t) <= t + VEST_SECONDS + VEST_BUCKET
    OBVIOUS
  <2> DEFINE k == t \div VEST_BUCKET
  <2>1. k \in Nat /\ BucketUnlock(t) = (k + 1) * VEST_BUCKET + VEST_SECONDS
        /\ k * VEST_BUCKET <= t /\ t < (k + 1) * VEST_BUCKET
    BY <1>2, UnlockIsOf DEF UnlockOf
  <2> HIDE DEF k
  <2>2. (k + 1) * VEST_BUCKET = k * VEST_BUCKET + VEST_BUCKET /\ k * VEST_BUCKET \in Nat
    BY <1>1, <2>1
  <2> QED
    BY <1>1, <1>2, <2>1, <2>2
<1>4. \A t \in Times : deposits[t] \in Nat /\ BucketUnlock(t) \in Nat
  BY <1>1, <1>2, UnlockIsOf
<1>5. \A t \in Times : late[t] \in Nat /\ due[t] \in Nat /\ deposits[t] = late[t] + due[t]
  BY <1>4
<1>6. \A time \in Int : DepositedBy(time) = FSum(By(time), Times)
  <2> SUFFICES ASSUME NEW time \in Int PROVE DepositedBy(time) = FSum(By(time), Times)
    OBVIOUS
  <2> DEFINE X == {t \in Times : t <= time}
             f == By(time)
  <2>1. X \subseteq Times /\ IsFiniteSet(X)
    BY <1>1, FS_Subset
  <2>2. DepositedBy(time) = FSum(deposits, X)
    BY <2>1, DepositSumIs DEF DepositedBy, Times
  <2>3. \A t \in X : f[t] = deposits[t] /\ f[t] \in Int
    BY <1>4
  <2>4. \A t \in Times \ X : f[t] = 0
    OBVIOUS
  <2> HIDE DEF X, f
  <2>5. FSum(f, Times) = FSum(f, X)
    BY <1>1, <2>1, <2>3, <2>4, SumSupport
  <2>6. FSum(f, X) = FSum(deposits, X)
    BY <2>1, <2>3, SumSame
  <2> QED
    BY <2>2, <2>5, <2>6 DEF f
<1>7. total_claimed + claimable + Released = FSum(due, Times)
  <2>1. FSum(deposits, Times) = FSum(late, Times) + FSum(due, Times)
    <3> HIDE DEF late, due
    <3> QED
      BY <1>1, <1>5, SumPlus
  <2>2. FSum(late, Times) = StillLocked(now)
    <3>1. SchedulesAgree
      BY DEF VestingInv
    <3> QED
      BY <1>1, <3>1 DEF SchedulesAgree, DepositedLate
  <2>3. FSum(due, Times) \in Nat
    <3> HIDE DEF due
    <3> QED
      BY <1>1, <1>5, SumNat
  <2>4. /\ held = claimable + FSum(AmountOf, Slots) /\ held = total_deposited - total_claimed
        /\ total_deposited = FSum(deposits, Times)
    BY DEF VestingInv
  <2>5. Released \in Nat /\ StillLocked(now) \in Nat /\ FSum(AmountOf, Slots) = Released + StillLocked(now)
    BY RipeAndLocked
  <2> HIDE DEF late, due
  <2> QED
    BY <1>1, <2>1, <2>2, <2>3, <2>4, <2>5
<1>8. NothingEarly
  <2> DEFINE before == now - VEST_SECONDS
             f == By(before)
  <2>1. before \in Int
    BY <1>1
  <2>2. \A t \in Times : due[t] \in Int /\ f[t] \in Int /\ due[t] <= f[t]
    <3> SUFFICES ASSUME NEW t \in Times PROVE due[t] \in Int /\ f[t] \in Int /\ due[t] <= f[t]
      OBVIOUS
    <3>1. BucketUnlock(t) > now \/ t <= before
      BY <1>1, <1>2, <1>3, <1>4
    <3>2. due[t] = IF BucketUnlock(t) > now THEN 0 ELSE deposits[t]
      OBVIOUS
    <3>3. f[t] = IF t <= before THEN deposits[t] ELSE 0
      OBVIOUS
    <3> HIDE DEF before, due, f
    <3> QED
      BY <1>4, <3>1, <3>2, <3>3
  <2>3. DepositedBy(before) = FSum(f, Times)
    <3> HIDE DEF before
    <3> QED
      BY <1>6, <2>1
  <2> HIDE DEF due, f
  <2>4. FSum(due, Times) <= FSum(f, Times)
    BY <1>1, <2>2, SumMonotone
  <2> QED
    BY <1>7, <2>3, <2>4 DEF NothingEarly
<1>9. NothingWithheld
  <2> DEFINE before == now - VEST_SECONDS - VEST_BUCKET
             f == By(before)
  <2>1. before \in Int
    BY <1>1
  <2>2. \A t \in Times : due[t] \in Int /\ f[t] \in Int /\ f[t] <= due[t]
    <3> SUFFICES ASSUME NEW t \in Times PROVE due[t] \in Int /\ f[t] \in Int /\ f[t] <= due[t]
      OBVIOUS
    <3>1. ~(BucketUnlock(t) > now) \/ ~(t <= before)
      BY <1>1, <1>2, <1>3, <1>4
    <3>2. due[t] = IF BucketUnlock(t) > now THEN 0 ELSE deposits[t]
      OBVIOUS
    <3>3. f[t] = IF t <= before THEN deposits[t] ELSE 0
      OBVIOUS
    <3> HIDE DEF before, due, f
    <3> QED
      BY <1>4, <3>1, <3>2, <3>3
  <2>3. DepositedBy(before) = FSum(f, Times)
    <3> HIDE DEF before
    <3> QED
      BY <1>6, <2>1
  <2> HIDE DEF due, f
  <2>4. FSum(f, Times) <= FSum(due, Times)
    BY <1>1, <2>2, SumMonotone
  <2> QED
    BY <1>7, <2>3, <2>4 DEF NothingWithheld
<1>10. VaultBalance
  BY SlotSumIs DEF VestingInv, VaultBalance
<1> QED
  BY <1>8, <1>9, <1>10 DEF VestsOnTime

(* What AfterRelease holds is what was still locked, and it keeps what     *)
(* unlocks after any later time.                                           *)
LEMMA ReleasedSums ==
    ASSUME VestingInv
    PROVE  /\ FSum([s \in Slots |-> AfterRelease[s].amount], Slots) = StillLocked(now)
           /\ \A time \in Nat : time >= now =>
                 FSum([s \in Slots |-> IF AfterRelease[s].unlock_at > time THEN AfterRelease[s].amount ELSE 0], Slots)
                   = StillLocked(time)
<1>1. IsFiniteSet(Slots) /\ now \in Nat /\ tranches \in [Slots -> [amount : Nat, unlock_at : Nat]]
  BY SlotsFinite DEF VestingInv, SlotInv
<1>2. ASSUME NEW s \in Slots
      PROVE  \/ AfterRelease[s] = tranches[s] /\ (tranches[s].amount = 0 \/ tranches[s].unlock_at > now)
             \/ AfterRelease[s].amount = 0 /\ AfterRelease[s].unlock_at = 0 /\ tranches[s].unlock_at <= now
  BY <1>1 DEF AfterRelease, Ripe, NoTranche
<1>3. \A s \in Slots : tranches[s].amount \in Nat /\ tranches[s].unlock_at \in Nat
  BY <1>1
<1>4. FSum([s \in Slots |-> AfterRelease[s].amount], Slots) = StillLocked(now)
  <2> DEFINE f == [s \in Slots |-> AfterRelease[s].amount]
             g == [s \in Slots |-> IF tranches[s].unlock_at > now THEN tranches[s].amount ELSE 0]
  <2>1. \A s \in Slots : f[s] = g[s]
    <3> SUFFICES ASSUME NEW s \in Slots PROVE f[s] = g[s]
      OBVIOUS
    <3>1. f[s] = AfterRelease[s].amount /\ g[s] = IF tranches[s].unlock_at > now THEN tranches[s].amount ELSE 0
      OBVIOUS
    <3> HIDE DEF f, g
    <3> QED
      BY <1>1, <1>2, <1>3, <3>1
  <2> HIDE DEF f
  <2>2. FSum(f, Slots) = FSum(g, Slots)
    <3> HIDE DEF g
    <3> QED
      BY <1>1, <2>1, SumSame
  <2> QED
    BY <2>2 DEF f, StillLocked
<1>5. ASSUME NEW time \in Nat, time >= now
      PROVE  FSum([s \in Slots |-> IF AfterRelease[s].unlock_at > time THEN AfterRelease[s].amount ELSE 0], Slots)
               = StillLocked(time)
  <2> DEFINE f == [s \in Slots |-> IF AfterRelease[s].unlock_at > time THEN AfterRelease[s].amount ELSE 0]
             g == [s \in Slots |-> IF tranches[s].unlock_at > time THEN tranches[s].amount ELSE 0]
  <2>1. \A s \in Slots : f[s] = g[s]
    <3> SUFFICES ASSUME NEW s \in Slots PROVE f[s] = g[s]
      OBVIOUS
    <3>1. /\ f[s] = IF AfterRelease[s].unlock_at > time THEN AfterRelease[s].amount ELSE 0
          /\ g[s] = IF tranches[s].unlock_at > time THEN tranches[s].amount ELSE 0
      OBVIOUS
    <3> HIDE DEF f, g
    <3> QED
      BY <1>1, <1>2, <1>3, <1>5, <3>1
  <2> HIDE DEF f
  <2>2. FSum(f, Slots) = FSum(g, Slots)
    <3> HIDE DEF g
    <3> QED
      BY <1>1, <2>1, SumSame
  <2> QED
    BY <2>2 DEF f, StillLocked
<1> QED
  BY <1>4, <1>5

(* It holds at first.                                                      *)
LEMMA InitVesting == VaultInit => VestingInv
<1> SUFFICES ASSUME VaultInit PROVE VestingInv
  OBVIOUS
<1>1. IsFiniteSet(Slots) /\ IsFiniteSet(Times)
  BY SlotsFinite
<1>2. VaultTypeOK /\ SlotInv
  BY InitSlots, VestingAssumption DEF VaultInit, VaultTypeOK, NoTranche
<1>3. FSum(AmountOf, Slots) = 0
  <2>1. \A s \in Slots : AmountOf[s] = 0
    BY DEF AmountOf, VaultInit, NoTranche
  <2> QED
    BY <1>1, <2>1, SumZero
<1>4. FSum(deposits, Times) = 0
  <2>1. \A t \in Times : deposits[t] = 0
    BY DEF Times, VaultInit
  <2> QED
    BY <1>1, <2>1, SumZero
<1>5. ASSUME NEW time \in Nat
      PROVE  StillLocked(time) = DepositedLate(time)
  <2> DEFINE f == [s \in Slots |-> IF tranches[s].unlock_at > time THEN tranches[s].amount ELSE 0]
             g == [t \in Times |-> IF BucketUnlock(t) > time THEN deposits[t] ELSE 0]
  <2>1. \A s \in Slots : f[s] = 0
    BY DEF VaultInit, NoTranche
  <2>2. \A t \in Times : g[t] = 0
    BY DEF Times, VaultInit
  <2>3. StillLocked(time) = FSum(f, Slots) /\ DepositedLate(time) = FSum(g, Times)
    BY DEF StillLocked, DepositedLate
  <2> HIDE DEF f, g
  <2>4. FSum(f, Slots) = 0 /\ FSum(g, Times) = 0
    BY <1>1, <2>1, <2>2, SumZero
  <2> QED
    BY <2>3, <2>4
<1> QED
  BY <1>2, <1>3, <1>4, <1>5 DEF VestingInv, SchedulesAgree, VaultInit

(* Each step keeps it: a claim,                                            *)
LEMMA ClaimVests == ASSUME VestingInv, ClaimReward PROVE VestingInv'
<1>1. SlotInv'
  BY ReleaseSlots DEF VestingInv, ClaimReward
<1>2. /\ tranches' = AfterRelease /\ now' = now /\ deposits' = deposits
      /\ held' = held - (claimable + Released) /\ claimable' = 0
      /\ total_claimed' = total_claimed + (claimable + Released) /\ total_deposited' = total_deposited
  BY DEF ClaimReward
<1>3. Released \in Nat /\ StillLocked(now) \in Nat /\ FSum(AmountOf, Slots) = Released + StillLocked(now)
  BY RipeAndLocked
<1>4. AmountOf' = [s \in Slots |-> AfterRelease[s].amount]
  BY <1>2 DEF AmountOf
<1>5. FSum(AmountOf', Slots) = StillLocked(now)
  BY <1>4, ReleasedSums
<1>6. SchedulesAgree'
  <2> SUFFICES ASSUME NEW time \in Nat, time >= now PROVE StillLocked(time)' = DepositedLate(time)'
    BY <1>2 DEF SchedulesAgree, StillLocked, DepositedLate
  <2>1. StillLocked(time)' = StillLocked(time)
    BY <1>2, ReleasedSums DEF StillLocked
  <2>2. DepositedLate(time)' = DepositedLate(time)
    BY <1>2 DEF DepositedLate
  <2> QED
    BY <2>1, <2>2 DEF VestingInv, SchedulesAgree
<1>7. VaultTypeOK
  BY DEF VestingInv
<1>8. held = claimable + FSum(AmountOf, Slots) /\ held = total_deposited - total_claimed /\ total_deposited = FSum(deposits, Times)
  BY DEF VestingInv
<1>9. VaultTypeOK'
  <2>1. tranches' \in [Slots -> [amount : Nat, unlock_at : Nat]]
    BY <1>1 DEF SlotInv
  <2> QED
    <3>1. /\ claimable \in Nat /\ held \in Nat /\ total_deposited \in Nat /\ total_claimed \in Nat
          /\ now \in 0..MaxTime /\ deposits \in [0..MaxTime -> Nat]
      BY <1>7 DEF VaultTypeOK
    <3>2. total_claimed' \in Nat
      BY <1>2, <1>3, <3>1
    <3>3. held' \in Nat
      <4>1. held = claimable + (Released + StillLocked(now))
        BY <1>3, <1>8
      <4>2. held' = held - (claimable + Released)
        BY <1>2
      <4>3. held' = StillLocked(now)
        <5> HIDE DEF StillLocked, Released
        <5> QED
          BY <4>1, <4>2, <1>3, <3>1
      <4> QED
        BY <4>3, <1>3
    <3> QED
      BY <1>2, <2>1, <3>1, <3>2, <3>3 DEF VaultTypeOK
<1>10. held' = claimable' + FSum(AmountOf', Slots) /\ held' = total_deposited' - total_claimed'
  <2>1. claimable \in Nat /\ held \in Nat /\ total_deposited \in Nat /\ total_claimed \in Nat
    BY <1>7 DEF VaultTypeOK
  <2>2. held' = claimable' + FSum(AmountOf', Slots)
    BY <1>2, <1>3, <1>5, <1>8, <2>1
  <2>3. held' = total_deposited' - total_claimed'
    BY <1>2, <1>3, <1>8, <2>1
  <2> QED
    BY <2>2, <2>3
<1>11. total_deposited' = FSum(deposits', Times)
  BY <1>2, <1>8
<1> QED
  BY <1>1, <1>6, <1>9, <1>10, <1>11 DEF VestingInv

(* time passing,                                                           *)
LEMMA TickVests == ASSUME VestingInv, VaultTick PROVE VestingInv'
<1>1. now \in Nat /\ now' = now + 1 /\ now' \in 0..MaxTime
      /\ tranches' = tranches /\ deposits' = deposits /\ held' = held /\ claimable' = claimable
      /\ total_claimed' = total_claimed /\ total_deposited' = total_deposited
  BY VestingAssumption DEF VaultTick, totals, VestingInv, VaultTypeOK
<1>2. SlotInv'
  BY NextSlots DEF VestingInv, VaultNext
<1>3. AmountOf' = AmountOf
  BY <1>1 DEF AmountOf
<1>4. \A time \in Nat : StillLocked(time)' = StillLocked(time) /\ DepositedLate(time)' = DepositedLate(time)
  BY <1>1 DEF StillLocked, DepositedLate
<1>5. SchedulesAgree'
  BY <1>1, <1>4 DEF VestingInv, SchedulesAgree
<1>6. VaultTypeOK'
  BY <1>1 DEF VestingInv, VaultTypeOK
<1> QED
  BY <1>1, <1>2, <1>3, <1>5, <1>6 DEF VestingInv

(* a deposit into a slot of its bucket, a free or a ripe one,              *)
LEMMA DepositVests == ASSUME VestingInv, NEW amount \in Amounts, DepositReward(amount) PROVE VestingInv'
<1> DEFINE u == BucketUnlock(now)
           kept == [s \in Slots |-> AfterRelease[s].amount]
<1>1. /\ amount \in Nat /\ amount > 0 /\ now \in Times /\ now \in Nat
      /\ IsFiniteSet(Slots) /\ IsFiniteSet(Times)
  BY SlotsFinite, VestingAssumption DEF DepositReward, VestingInv, VaultTypeOK, SlotInv, Times
<1>2. SlotInv'
  BY DepositSlots DEF VestingInv
<1>3. VaultTypeOK /\ SlotInv
  BY DEF VestingInv
<1>4. /\ held' = held + amount /\ claimable' = claimable + Released
      /\ total_deposited' = total_deposited + amount /\ total_claimed' = total_claimed /\ now' = now
      /\ deposits' = [deposits EXCEPT ![now] = @ + amount]
  BY DEF DepositReward
<1>5. PICK slot \in FirstOf(Candidates(u)) :
          tranches' = [AfterRelease EXCEPT ![slot] = [amount |-> @.amount + amount, unlock_at |-> u]]
  BY DEF DepositReward
<1>6. slot \in Slots /\ (AfterRelease[slot].amount = 0 \/ AfterRelease[slot].unlock_at = u)
  BY DEF FirstOf, Candidates
<1>7. u \in Nat
  BY <1>1, UnlockIsOf
<1>8. AfterRelease \in [Slots -> [amount : Nat, unlock_at : Nat]]
  BY <1>3, ReleaseKeeps
<1>9. /\ \A s \in Slots : AfterRelease[s].amount \in Nat /\ AfterRelease[s].unlock_at \in Nat
      /\ tranches'[slot].amount = AfterRelease[slot].amount + amount /\ tranches'[slot].unlock_at = u
      /\ \A s \in Slots \ {slot} : tranches'[s] = AfterRelease[s]
  BY <1>5, <1>6, <1>8
<1> HIDE DEF u
<1>10. FSum(AmountOf', Slots) = StillLocked(now) + amount
  <2> DEFINE g == [s \in Slots |-> tranches'[s].amount]
  <2>1. AmountOf' = g
    BY DEF AmountOf
  <2>2. /\ \A s \in Slots : kept[s] \in Int /\ g[s] \in Int
        /\ \A s \in Slots \ {slot} : g[s] = kept[s]
        /\ g[slot] = kept[slot] + amount
    BY <1>1, <1>6, <1>9
  <2> HIDE DEF g, kept
  <2>3. FSum(g, Slots) = FSum(kept, Slots) + amount
    <3>1. \A s \in Slots : kept[s] \in Int
      BY <2>2
    <3>2. \A s \in Slots \ {slot} : g[s] = kept[s]
      BY <2>2
    <3>3. g[slot] = kept[slot] + amount /\ amount \in Int
      BY <1>1, <2>2
    <3> QED
      BY <1>1, <1>6, <3>1, <3>2, <3>3, SumGrows
  <2>4. FSum(kept, Slots) = StillLocked(now)
    BY ReleasedSums DEF kept
  <2> QED
    BY <2>1, <2>3, <2>4
<1>11. FSum(deposits', Times) = FSum(deposits, Times) + amount
  <2>1. deposits \in [Times -> Nat]
    BY <1>3 DEF VaultTypeOK, Times
  <2>2. /\ \A t \in Times : deposits[t] \in Int /\ deposits'[t] \in Int
        /\ \A t \in Times \ {now} : deposits'[t] = deposits[t]
        /\ deposits'[now] = deposits[now] + amount
    BY <1>1, <1>4, <2>1
  <2>3. \A t \in Times : deposits[t] \in Int
    BY <2>2
  <2>4. \A t \in Times \ {now} : deposits'[t] = deposits[t]
    BY <2>2
  <2>5. deposits'[now] = deposits[now] + amount /\ amount \in Int
    BY <1>1, <2>2
  <2> QED
    BY <1>1, <2>3, <2>4, <2>5, SumGrows
<1>12. ASSUME NEW time \in Nat, time >= now
       PROVE  StillLocked(time)' = DepositedLate(time)'
  <2> DEFINE f == [s \in Slots |-> IF AfterRelease[s].unlock_at > time THEN AfterRelease[s].amount ELSE 0]
             g == [s \in Slots |-> IF tranches'[s].unlock_at > time THEN tranches'[s].amount ELSE 0]
             d == [t \in Times |-> IF BucketUnlock(t) > time THEN deposits[t] ELSE 0]
             e == [t \in Times |-> IF BucketUnlock(t) > time THEN deposits'[t] ELSE 0]
             more == IF u > time THEN amount ELSE 0
  <2>1. FSum(f, Slots) = StillLocked(time) /\ StillLocked(time)' = FSum(g, Slots)
    BY <1>12, ReleasedSums DEF StillLocked
  <2>2. FSum(d, Times) = DepositedLate(time) /\ DepositedLate(time)' = FSum(e, Times)
    BY DEF DepositedLate
  <2>3. /\ \A s \in Slots : f[s] \in Int /\ g[s] \in Int
        /\ \A s \in Slots \ {slot} : g[s] = f[s]
    BY <1>1, <1>6, <1>7, <1>9
  <2>4. g[slot] = f[slot] + more
    <3>1. /\ g[slot] = IF tranches'[slot].unlock_at > time THEN tranches'[slot].amount ELSE 0
          /\ f[slot] = IF AfterRelease[slot].unlock_at > time THEN AfterRelease[slot].amount ELSE 0
      BY <1>6
    <3> HIDE DEF f, g
    <3> QED
      BY <1>1, <1>6, <1>7, <1>9, <3>1
  <2>5. \A t \in Times : deposits[t] \in Nat /\ BucketUnlock(t) \in Nat
    <3>1. deposits \in [Times -> Nat] /\ \A t \in Times : t \in Nat
      BY <1>3, VestingAssumption DEF VaultTypeOK, Times
    <3> QED
      BY <3>1, UnlockIsOf
  <2>6. /\ deposits'[now] = deposits[now] + amount
        /\ \A t \in Times \ {now} : deposits'[t] = deposits[t]
    BY <1>1, <1>3, <1>4 DEF VaultTypeOK, Times
  <2>7. /\ \A t \in Times : d[t] \in Int /\ e[t] \in Int
        /\ \A t \in Times \ {now} : e[t] = d[t]
    BY <1>1, <2>5, <2>6
  <2>8. e[now] = d[now] + more
    <3>1. /\ e[now] = IF u > time THEN deposits'[now] ELSE 0
          /\ d[now] = IF u > time THEN deposits[now] ELSE 0
      BY <1>1 DEF u
    <3> HIDE DEF d, e
    <3> QED
      BY <1>1, <2>5, <2>6, <3>1
  <2>9. more \in Nat /\ f[slot] \in Int /\ d[now] \in Int
    BY <1>1, <1>6, <2>3, <2>7
  <2> HIDE DEF f, g, d, e, more
  <2>10. FSum(g, Slots) = FSum(f, Slots) + more
    <3>1. \A s \in Slots : f[s] \in Int
      BY <2>3
    <3>2. \A s \in Slots \ {slot} : g[s] = f[s]
      BY <2>3
    <3> QED
      <4>1. IsFiniteSet(Slots) /\ slot \in Slots /\ more \in Int /\ g[slot] = f[slot] + more
        BY <1>1, <1>6, <2>4, <2>9
      <4> QED
        BY <4>1, <3>1, <3>2, SumGrows
  <2>11. FSum(e, Times) = FSum(d, Times) + more
    <3>1. \A t \in Times : d[t] \in Int
      BY <2>7
    <3>2. \A t \in Times \ {now} : e[t] = d[t]
      BY <2>7
    <3> QED
      <4>1. IsFiniteSet(Times) /\ now \in Times /\ more \in Int /\ e[now] = d[now] + more
        BY <1>1, <2>8, <2>9
      <4> QED
        BY <4>1, <3>1, <3>2, SumGrows
  <2>12. StillLocked(time) = DepositedLate(time)
    BY <1>12 DEF VestingInv, SchedulesAgree
  <2> QED
    BY <2>1, <2>2, <2>10, <2>11, <2>12
<1>13. SchedulesAgree'
  <2>1. \A time \in Nat : time >= now' => StillLocked(time)' = DepositedLate(time)'
    BY <1>4, <1>12
  <2> QED
    BY <2>1 DEF SchedulesAgree
<1>14. Released \in Nat /\ StillLocked(now) \in Nat /\ FSum(AmountOf, Slots) = Released + StillLocked(now)
  BY RipeAndLocked
<1>15. held = claimable + FSum(AmountOf, Slots) /\ held = total_deposited - total_claimed /\ total_deposited = FSum(deposits, Times)
  BY DEF VestingInv
<1>16. VaultTypeOK'
  <2>1. tranches' \in [Slots -> [amount : Nat, unlock_at : Nat]]
    BY <1>2 DEF SlotInv
  <2>2. deposits' \in [0..MaxTime -> Nat]
    BY <1>1, <1>3, <1>4 DEF VaultTypeOK
  <2> QED
    BY <1>1, <1>3, <1>4, <1>14, <2>1, <2>2 DEF VaultTypeOK
<1>17. held' = claimable' + FSum(AmountOf', Slots) /\ held' = total_deposited' - total_claimed'
       /\ total_deposited' = FSum(deposits', Times)
  <2>1. claimable \in Nat /\ held \in Nat /\ total_deposited \in Nat /\ total_claimed \in Nat
    BY <1>3 DEF VaultTypeOK
  <2>2. held' = claimable' + FSum(AmountOf', Slots)
    BY <1>1, <1>4, <1>10, <1>14, <1>15, <2>1
  <2>3. held' = total_deposited' - total_claimed'
    BY <1>1, <1>4, <1>15, <2>1
  <2>4. total_deposited' = FSum(deposits', Times)
    BY <1>4, <1>11, <1>15
  <2> QED
    BY <2>2, <2>3, <2>4
<1> QED
  BY <1>2, <1>13, <1>16, <1>17 DEF VestingInv

(* and so every step.                                                      *)
LEMMA NextVests == VestingInv /\ [VaultNext]_vaultVars => VestingInv'
<1> SUFFICES ASSUME VestingInv, [VaultNext]_vaultVars PROVE VestingInv'
  OBVIOUS
<1>1. CASE \E amount \in Amounts : DepositReward(amount)
  BY <1>1, DepositVests
<1>2. CASE ClaimReward
  BY <1>2, ClaimVests
<1>3. CASE VaultTick
  BY <1>3, TickVests
<1>4. CASE UNCHANGED vaultVars
  <2>1. /\ now' = now /\ tranches' = tranches /\ deposits' = deposits /\ held' = held /\ claimable' = claimable
        /\ total_claimed' = total_claimed /\ total_deposited' = total_deposited
    BY <1>4 DEF vaultVars, totals
  <2>2. SlotInv'
    BY NextSlots DEF VestingInv
  <2>3. AmountOf' = AmountOf /\ VaultTypeOK' 
    BY <2>1 DEF AmountOf, VestingInv, VaultTypeOK
  <2>4. \A time \in Nat : StillLocked(time)' = StillLocked(time) /\ DepositedLate(time)' = DepositedLate(time)
    BY <2>1 DEF StillLocked, DepositedLate
  <2>5. SchedulesAgree'
    BY <2>1, <2>4 DEF VestingInv, SchedulesAgree
  <2> QED
    BY <2>1, <2>2, <2>3, <2>5 DEF VestingInv
<1> QED
  BY <1>1, <1>2, <1>3, <1>4 DEF VaultNext

(* deposit_reward, claim_reward: every deposit vests when its bucket ends, *)
(* no sooner and no later, whatever was deposited and claimed around it and*)
(* however slots are reused.                                               *)
THEOREM AlwaysVestsOnTime == VaultSpec => []VestsOnTime
<1>1. VaultSpec => []VestingInv
  BY InitVesting, NextVests, PTL DEF VaultSpec
<1>2. VestingInv => VestsOnTime
  BY VestingOnTime
<1> QED
  BY <1>1, <1>2, PTL

(* deposit_reward, claim_reward: the vault holds what is claimable and what*)
(* vests, which is what was deposited and not yet claimed.                 *)
THEOREM VaultBalances == VaultSpec => []VaultBalance
<1>1. VaultSpec => []VestingInv
  BY InitVesting, NextVests, PTL DEF VaultSpec
<1>2. VestingInv => VaultBalance
  BY VestingOnTime
<1> QED
  BY <1>1, <1>2, PTL

=============================================================================
