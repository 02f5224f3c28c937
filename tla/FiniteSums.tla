----------------------------- MODULE FiniteSums -----------------------------
(***************************************************************************)
(* Sums over finite sets, for the proofs. Sums in the models are folds of  *)
(* the community modules, which choose the order of their terms; these     *)
(* lemmas say that the order does not matter. Induction over a finite set  *)
(* is used with the set of the subsets that have the property, so no lemma *)
(* takes an operator.                                                      *)
(***************************************************************************)
EXTENDS Integers, Functions, FiniteSets, FiniteSetsExt, FiniteSetTheorems, TLAPS

(* The sum of f over S, as the community modules fold it (SumSet,          *)
(* MapThenSumSet, FoldFunctionOnSet).                                      *)
FSum(f, S) == FoldFunctionOnSet(LAMBDA x, y : x + y, 0, f, S)

(* The element the fold takes next, and what it leaves.                    *)
Some(s) == CHOOSE x \in s : TRUE
Rest(s) == s \ {Some(s)}

(* g is the table of f's sums over the subsets of S that the fold's CHOOSE *)
(* picks.                                                                  *)
IsSum(f, S, g) ==
  g = [s \in SUBSET S |-> IF s = {} THEN 0 ELSE f[Some(s)] + g[Rest(s)]]

(* The fold takes a member.                                                *)
LEMMA SomeMember == ASSUME NEW s, s # {} PROVE Some(s) \in s
BY DEF Some

(* A set of naturals has a least member.                                   *)
LEMMA LeastMember ==
  ASSUME NEW N \in SUBSET Nat, N # {}
  PROVE  \E n \in N : \A m \in N : ~(m < n)
<1> DEFINE Less == OpToRel(<, Nat)
<1>1. IsWellFoundedOn(Less, Nat)
  BY NatLessThanWellFounded
<1>2. \A m, n \in Nat : m < n => <<m, n>> \in Less
  BY DEF OpToRel
<1> HIDE DEF Less
<1>3. \E n \in N : \A m \in N : ~(<<m, n>> \in Less)
  BY <1>1, WFMin
<1> QED
  BY <1>2, <1>3

(* Sets of subsets: induction over a finite set, as a fact about them.     *)
LEMMA FiniteStrongInduction ==
  ASSUME NEW S, IsFiniteSet(S), NEW F,
         \A T \in SUBSET S : (\A U \in SUBSET T : U # T => U \in F) => T \in F
  PROVE  S \in F
<1> DEFINE Bad == {n \in Nat : \E T \in SUBSET S : Cardinality(T) = n /\ T \notin F}
<1>1. \A T \in SUBSET S : IsFiniteSet(T) /\ Cardinality(T) \in Nat
  BY FS_Subset, FS_CardinalityType
<1>2. ASSUME Bad # {} PROVE FALSE
  <2>1. PICK n \in Bad : \A m \in Bad : ~(m < n)
    BY <1>2, LeastMember
  <2>2. PICK T \in SUBSET S : Cardinality(T) = n /\ T \notin F
    OBVIOUS
  <2>3. ASSUME NEW U \in SUBSET T, U # T PROVE U \in F
    <3>1. Cardinality(U) < n
      BY <1>1, <2>2, <2>3, FS_Subset
    <3> QED
      BY <1>1, <2>1, <3>1
  <2> QED
    BY <2>2, <2>3
<1> QED
  BY <1>1, <1>2

(* Induction on a finite set, over a set of its subsets: what holds of {}  *)
(* and is kept by adding a member holds of S.                              *)
LEMMA FiniteInduction ==
  ASSUME NEW S, IsFiniteSet(S), NEW F, {} \in F,
         \A T \in SUBSET S : \A x \in S \ T : T \in F => T \cup {x} \in F
  PROVE  S \in F
<1>1. ASSUME NEW T \in SUBSET S, \A U \in SUBSET T : U # T => U \in F
      PROVE  T \in F
  <2>1. CASE T = {}
    BY <2>1
  <2>2. CASE T # {}
    <3>1. PICK x : x \in T
      BY <2>2
    <3>2. T \ {x} \in F /\ x \in S \ (T \ {x}) /\ (T \ {x}) \cup {x} = T
      BY <1>1, <3>1
    <3> QED
      BY <3>2
  <2> QED
    BY <2>1, <2>2
<1> QED
  BY <1>1, FiniteStrongInduction

(* The fold is the table's entry for the whole set.                        *)
LEMMA Unfold ==
  ASSUME NEW f, NEW S
  PROVE  FSum(f, S) = (CHOOSE g : IsSum(f, S, g))[S]
BY DEF FSum, FoldFunctionOnSet, MapThenFoldSet, IsSum, Some, Rest

(* Two such functions agree where both are defined.                        *)
LEMMA SumsAgree ==
  ASSUME NEW f, NEW S, NEW T, NEW g, NEW h, IsSum(f, S, g), IsSum(f, T, h),
         NEW s \in SUBSET S, s \in SUBSET T, IsFiniteSet(s)
  PROVE  g[s] = h[s]
<1> DEFINE F == {u \in SUBSET s : g[u] = h[u]}
<1>1. ASSUME NEW u \in SUBSET s, \A v \in SUBSET u : v # u => v \in F
      PROVE  u \in F
  <2>1. CASE u = {}
    BY <2>1 DEF IsSum
  <2>2. CASE u # {}
    <3>1. Rest(u) \in SUBSET u /\ Rest(u) # u
      BY <2>2, SomeMember DEF Rest
    <3>2. g[Rest(u)] = h[Rest(u)]
      BY <1>1, <3>1
    <3>3. g[u] = f[Some(u)] + g[Rest(u)] /\ h[u] = f[Some(u)] + h[Rest(u)]
      BY <2>2 DEF IsSum
    <3> QED
      BY <3>2, <3>3
  <2> QED
    BY <2>1, <2>2
<1>2. s \in F
  <2> HIDE DEF F
  <2> QED
    BY <1>1, FiniteStrongInduction
<1> QED
  BY <1>2

(* A table for S restricts to one for any of its subsets.                  *)
LEMMA SumRestricts ==
  ASSUME NEW f, NEW S, NEW g, IsSum(f, S, g), NEW T \in SUBSET S
  PROVE  IsSum(f, T, [s \in SUBSET T |-> g[s]])
<1>1. \A s \in SUBSET T : s \in SUBSET S /\ Rest(s) \in SUBSET T
  BY DEF Rest
<1> QED
  BY <1>1 DEF IsSum

(* A finite set has such a table.                                          *)
LEMMA SumExists ==
  ASSUME NEW f, NEW S, IsFiniteSet(S)
  PROVE  \E g : IsSum(f, S, g)
<1> DEFINE F == {T \in SUBSET S : \E g : IsSum(f, T, g)}
<1>1. \A T \in SUBSET S : IsFiniteSet(T)
  BY FS_Subset
<1>2. ASSUME NEW T \in SUBSET S, \A U \in SUBSET T : U # T => U \in F
      PROVE  T \in F
  <2> DEFINE h(U) == CHOOSE g : IsSum(f, U, g)
             g == [s \in SUBSET T |-> IF s = {} THEN 0 ELSE f[Some(s)] + h(Rest(s))[Rest(s)]]
  <2>1. ASSUME NEW U \in SUBSET T, U # T PROVE IsSum(f, U, h(U))
    BY <1>2, <2>1
  <2>2. ASSUME NEW U \in SUBSET T, U # T PROVE h(U)[U] = g[U]
    <3>1. CASE U = {}
      <4>1. IsSum(f, U, h(U)) /\ g[U] = 0
        BY <2>1, <2>2, <3>1
      <4> HIDE DEF h, g
      <4> QED
        BY <3>1, <4>1 DEF IsSum
    <3>2. CASE U # {}
      <4>1. Rest(U) \in SUBSET U /\ Rest(U) # U /\ Rest(U) \in SUBSET T /\ Rest(U) # T
        BY <2>2, <3>2, SomeMember DEF Rest
      <4>2. IsSum(f, U, h(U)) /\ IsSum(f, Rest(U), h(Rest(U)))
        BY <2>1, <2>2, <4>1
      <4>3. h(U)[Rest(U)] = h(Rest(U))[Rest(U)]
        <5>1. IsFiniteSet(Rest(U))
          BY <1>1, <4>1
        <5> HIDE DEF h
        <5> QED
          BY <4>1, <4>2, <5>1, SumsAgree
      <4>4. h(U)[U] = f[Some(U)] + h(U)[Rest(U)]
        <5> HIDE DEF h
        <5> QED
          BY <3>2, <4>2 DEF IsSum
      <4> HIDE DEF h
      <4> QED
        BY <3>2, <4>3, <4>4
    <3> QED
      BY <3>1, <3>2
  <2>3. IsSum(f, T, g)
    <3>1. ASSUME NEW s \in SUBSET T, s # {} PROVE g[Rest(s)] = h(Rest(s))[Rest(s)]
      <4>1. Rest(s) \in SUBSET T /\ Rest(s) # T
        BY <3>1, SomeMember DEF Rest
      <4> HIDE DEF h, g
      <4> QED
        BY <2>2, <4>1
    <3> HIDE DEF h
    <3>2. g = [s \in SUBSET T |-> IF s = {} THEN 0 ELSE f[Some(s)] + g[Rest(s)]]
      BY <3>1
    <3> HIDE DEF g
    <3> QED
      BY <3>2 DEF IsSum
  <2> QED
    BY <2>3
<1>3. S \in F
  <2> HIDE DEF F
  <2> QED
    BY <1>2, FiniteStrongInduction
<1> QED
  BY <1>3

(* A sum takes its terms one by one.                                       *)
LEMMA SumOfNone ==
  ASSUME NEW f
  PROVE  FSum(f, {}) = 0
<1>1. PICK g : IsSum(f, {}, g)
  BY SumExists, FS_EmptySet
<1> DEFINE h == CHOOSE k : IsSum(f, {}, k)
<1>2. IsSum(f, {}, h)
  BY <1>1
<1>3. FSum(f, {}) = h[{}]
  BY Unfold
<1> HIDE DEF h
<1> QED
  BY <1>2, <1>3 DEF IsSum

(* A sum is one member's term and the sum over the rest.                   *)
LEMMA SumStep ==
  ASSUME NEW f, NEW S, IsFiniteSet(S), S # {}
  PROVE  FSum(f, S) = f[Some(S)] + FSum(f, Rest(S))
<1> DEFINE h == CHOOSE g : IsSum(f, S, g)
           k == CHOOSE g : IsSum(f, Rest(S), g)
<1>1. Rest(S) \in SUBSET S /\ IsFiniteSet(Rest(S))
  BY FS_Subset DEF Rest
<1>2. IsSum(f, S, h) /\ IsSum(f, Rest(S), k)
  BY <1>1, SumExists
<1>3. FSum(f, S) = h[S] /\ FSum(f, Rest(S)) = k[Rest(S)]
  BY Unfold
<1> HIDE DEF h, k
<1>4. h[S] = f[Some(S)] + h[Rest(S)]
  BY <1>2 DEF IsSum
<1>5. h[Rest(S)] = k[Rest(S)]
  BY <1>1, <1>2, SumsAgree
<1> QED
  BY <1>3, <1>4, <1>5

(* A sum of integers is one.                                               *)
LEMMA SumType ==
  ASSUME NEW S, IsFiniteSet(S), NEW f, \A x \in S : f[x] \in Int
  PROVE  FSum(f, S) \in Int
<1> DEFINE F == {T \in SUBSET S : FSum(f, T) \in Int}
<1>1. ASSUME NEW T \in SUBSET S, \A U \in SUBSET T : U # T => U \in F
      PROVE  T \in F
  <2>1. CASE T = {}
    BY <2>1, SumOfNone
  <2>2. CASE T # {}
    <3>1. IsFiniteSet(T)
      BY FS_Subset
    <3>2. Some(T) \in T /\ Rest(T) \in SUBSET T /\ Rest(T) # T
      BY <2>2, SomeMember DEF Rest
    <3>3. FSum(f, T) = f[Some(T)] + FSum(f, Rest(T))
      BY <2>2, <3>1, SumStep
    <3> QED
      BY <1>1, <3>2, <3>3
  <2> QED
    BY <2>1, <2>2
<1>2. S \in F
  <2> HIDE DEF F
  <2> QED
    BY <1>1, FiniteStrongInduction
<1> QED
  BY <1>2

(* ... in any order.                                                       *)
LEMMA SumRemove ==
  ASSUME NEW S, IsFiniteSet(S), NEW f, \A x \in S : f[x] \in Int, NEW y \in S
  PROVE  FSum(f, S) = f[y] + FSum(f, S \ {y})
<1> DEFINE F == {T \in SUBSET S : \A x \in T : FSum(f, T) = f[x] + FSum(f, T \ {x})}
<1>0. \A T \in SUBSET S : IsFiniteSet(T) /\ FSum(f, T) \in Int
  BY FS_Subset, SumType
<1>1. ASSUME NEW T \in SUBSET S, \A U \in SUBSET T : U # T => U \in F
      PROVE  T \in F
  <2>1. ASSUME NEW x \in T PROVE FSum(f, T) = f[x] + FSum(f, T \ {x})
    <3> DEFINE c == Some(T)
    <3>1. c \in T /\ Rest(T) = T \ {c}
      BY <2>1, SomeMember DEF Rest
    <3>2. FSum(f, T) = f[c] + FSum(f, T \ {c})
      BY <1>0, <2>1, <3>1, SumStep
    <3> HIDE DEF c
    <3>3. CASE x = c
      BY <3>2, <3>3
    <3>4. CASE x # c
      <4>1. T \ {c} \in F /\ x \in T \ {c} /\ T \ {x} \in F /\ c \in T \ {x}
        BY <1>1, <2>1, <3>1, <3>4
      <4>2. FSum(f, T \ {c}) = f[x] + FSum(f, (T \ {c}) \ {x})
        BY <4>1
      <4>3. FSum(f, T \ {x}) = f[c] + FSum(f, (T \ {x}) \ {c})
        BY <4>1
      <4>4. (T \ {c}) \ {x} = (T \ {x}) \ {c}
        OBVIOUS
      <4>5. f[x] \in Int /\ f[c] \in Int /\ FSum(f, (T \ {x}) \ {c}) \in Int
        BY <1>0, <3>1
      <4>6. \A a, b, d, p, q, r, s, t \in Int : p = a + q /\ q = b + d /\ r = a + d => p = b + r
        OBVIOUS
      <4>7. /\ FSum(f, T) \in Int /\ FSum(f, T \ {c}) \in Int /\ FSum(f, T \ {x}) \in Int
        BY <1>0
      <4>8. FSum(f, T \ {c}) = f[x] + FSum(f, (T \ {x}) \ {c})
        BY <4>2, <4>4
      <4> QED
        BY <3>2, <4>3, <4>5, <4>6, <4>7, <4>8
    <3> QED
      BY <3>3, <3>4
  <2> QED
    BY <2>1
<1>2. S \in F
  <2> HIDE DEF F
  <2> QED
    BY <1>1, FiniteStrongInduction
<1> QED
  BY <1>2

(* A new member adds its term, whichever the fold takes first.             *)
LEMMA SumAdd ==
  ASSUME NEW S, IsFiniteSet(S), NEW f, \A x \in S : f[x] \in Int,
         NEW y, y \notin S, f[y] \in Int
  PROVE  FSum(f, S \cup {y}) = FSum(f, S) + f[y]
<1>1. IsFiniteSet(S \cup {y}) /\ (S \cup {y}) \ {y} = S
  BY FS_AddElement
<1> QED
  BY <1>1, SumRemove, SumType

(* The sum over one member.                                                *)
LEMMA SumOne ==
  ASSUME NEW f, NEW x, f[x] \in Int
  PROVE  FSum(f, {x}) = f[x]
<1>1. {} \cup {x} = {x} /\ IsFiniteSet({}) /\ x \notin {}
  BY FS_EmptySet
<1>2. FSum(f, {} \cup {x}) = FSum(f, {}) + f[x]
  BY <1>1, SumAdd
<1> QED
  BY <1>1, <1>2, SumOfNone

(* Equal terms, equal sums.                                                *)
LEMMA SumSame ==
  ASSUME NEW S, IsFiniteSet(S), NEW f, NEW g, \A x \in S : f[x] = g[x]
  PROVE  FSum(f, S) = FSum(g, S)
<1> DEFINE F == {T \in SUBSET S : FSum(f, T) = FSum(g, T)}
<1>1. ASSUME NEW T \in SUBSET S, \A U \in SUBSET T : U # T => U \in F
      PROVE  T \in F
  <2>1. CASE T = {}
    BY <2>1, SumOfNone
  <2>2. CASE T # {}
    <3>1. IsFiniteSet(T)
      BY FS_Subset
    <3>2. Some(T) \in T /\ Rest(T) \in SUBSET T /\ Rest(T) # T
      BY <2>2, SomeMember DEF Rest
    <3>3. FSum(f, T) = f[Some(T)] + FSum(f, Rest(T)) /\ FSum(g, T) = g[Some(T)] + FSum(g, Rest(T))
      BY <2>2, <3>1, SumStep
    <3> QED
      BY <1>1, <3>2, <3>3
  <2> QED
    BY <2>1, <2>2
<1>2. S \in F
  <2> HIDE DEF F
  <2> QED
    BY <1>1, FiniteStrongInduction
<1> QED
  BY <1>2

(* A sum of naturals is one.                                               *)
LEMMA SumNat ==
  ASSUME NEW S, IsFiniteSet(S), NEW f, \A x \in S : f[x] \in Nat
  PROVE  FSum(f, S) \in Nat
<1> DEFINE F == {T \in SUBSET S : FSum(f, T) \in Nat}
<1>0. {} \in F
  BY SumOfNone
<1>1. ASSUME NEW T \in SUBSET S, NEW x \in S \ T, T \in F PROVE T \cup {x} \in F
  <2>1. IsFiniteSet(T)
    BY FS_Subset
  <2>2. FSum(f, T \cup {x}) = FSum(f, T) + f[x]
    BY <2>1, SumAdd
  <2> QED
    BY <1>1, <2>2
<1>2. S \in F
  <2> HIDE DEF F
  <2> QED
    BY <1>0, <1>1, FiniteInduction
<1> QED
  BY <1>2

(* Sums keep the order of their terms.                                     *)
LEMMA SumMonotone ==
  ASSUME NEW S, IsFiniteSet(S), NEW f, NEW g,
         \A x \in S : f[x] \in Int /\ g[x] \in Int /\ f[x] <= g[x]
  PROVE  FSum(f, S) <= FSum(g, S)
<1> DEFINE F == {T \in SUBSET S : FSum(f, T) <= FSum(g, T)}
<1>0. {} \in F
  BY SumOfNone
<1>1. ASSUME NEW T \in SUBSET S, NEW x \in S \ T, T \in F PROVE T \cup {x} \in F
  <2>1. IsFiniteSet(T)
    BY FS_Subset
  <2>2. FSum(f, T \cup {x}) = FSum(f, T) + f[x] /\ FSum(g, T \cup {x}) = FSum(g, T) + g[x]
    BY <2>1, SumAdd
  <2>3. FSum(f, T) \in Int /\ FSum(g, T) \in Int
    BY <2>1, SumType
  <2> QED
    BY <1>1, <2>2, <2>3
<1>2. S \in F
  <2> HIDE DEF F
  <2> QED
    BY <1>0, <1>1, FiniteInduction
<1> QED
  BY <1>2

(* Sums add term by term.                                                  *)
LEMMA SumPlus ==
  ASSUME NEW S, IsFiniteSet(S), NEW f, NEW g, NEW h,
         \A x \in S : f[x] \in Int /\ g[x] \in Int /\ h[x] = f[x] + g[x]
  PROVE  FSum(h, S) = FSum(f, S) + FSum(g, S)
<1> DEFINE F == {T \in SUBSET S : FSum(h, T) = FSum(f, T) + FSum(g, T)}
<1>0. {} \in F
  BY SumOfNone
<1>1. ASSUME NEW T \in SUBSET S, NEW x \in S \ T, T \in F PROVE T \cup {x} \in F
  <2>1. IsFiniteSet(T) /\ \A y \in S : h[y] \in Int
    BY FS_Subset
  <2>2. /\ FSum(f, T \cup {x}) = FSum(f, T) + f[x]
        /\ FSum(g, T \cup {x}) = FSum(g, T) + g[x]
        /\ FSum(h, T \cup {x}) = FSum(h, T) + h[x]
    BY <2>1, SumAdd
  <2>3. FSum(f, T) \in Int /\ FSum(g, T) \in Int
    BY <2>1, SumType
  <2> QED
    BY <1>1, <2>2, <2>3
<1>2. S \in F
  <2> HIDE DEF F
  <2> QED
    BY <1>0, <1>1, FiniteInduction
<1> QED
  BY <1>2

(* The sum over two disjoint sets.                                         *)
LEMMA SumUnion ==
  ASSUME NEW S, IsFiniteSet(S), NEW U, IsFiniteSet(U), S \cap U = {},
         NEW f, \A x \in S \cup U : f[x] \in Int
  PROVE  FSum(f, S \cup U) = FSum(f, S) + FSum(f, U)
<1> DEFINE F == {T \in SUBSET U : FSum(f, S \cup T) = FSum(f, S) + FSum(f, T)}
<1>0. {} \in F
  <2>1. S \cup {} = S /\ FSum(f, S) \in Int
    BY SumType
  <2> QED
    BY <2>1, SumOfNone
<1>1. ASSUME NEW T \in SUBSET U, NEW x \in U \ T, T \in F PROVE T \cup {x} \in F
  <2>1. IsFiniteSet(T) /\ IsFiniteSet(S \cup T) /\ x \notin S \cup T
    BY FS_Subset, FS_Union
  <2>2. /\ FSum(f, T \cup {x}) = FSum(f, T) + f[x]
        /\ FSum(f, (S \cup T) \cup {x}) = FSum(f, S \cup T) + f[x]
    BY <2>1, SumAdd
  <2>3. FSum(f, S) \in Int /\ FSum(f, T) \in Int /\ f[x] \in Int
    BY <2>1, SumType
  <2>4. (S \cup T) \cup {x} = S \cup (T \cup {x})
    OBVIOUS
  <2>5. FSum(f, S \cup (T \cup {x})) = (FSum(f, S) + FSum(f, T)) + f[x]
    BY <1>1, <2>2, <2>4
  <2>6. T \cup {x} \in SUBSET U
    OBVIOUS
  <2> QED
    BY <2>2, <2>3, <2>5, <2>6
<1>2. U \in F
  <2> HIDE DEF F
  <2> QED
    BY <1>0, <1>1, FiniteInduction
<1> QED
  BY <1>2

(* Fewer naturals sum to no more.                                          *)
LEMMA SumSubset ==
  ASSUME NEW S, IsFiniteSet(S), NEW T \in SUBSET S, NEW f, \A x \in S : f[x] \in Nat
  PROVE  FSum(f, T) <= FSum(f, S)
<1>1. IsFiniteSet(T) /\ IsFiniteSet(S \ T) /\ T \cap (S \ T) = {} /\ T \cup (S \ T) = S
  BY FS_Subset
<1>2. FSum(f, T \cup (S \ T)) = FSum(f, T) + FSum(f, S \ T)
  BY <1>1, SumUnion
<1>3. FSum(f, T) \in Nat /\ FSum(f, S \ T) \in Nat
  BY <1>1, SumNat
<1>4. FSum(f, S) = FSum(f, T) + FSum(f, S \ T)
  BY <1>1, <1>2
<1> QED
  BY <1>3, <1>4

(* A sum of naturals is at least each of them.                             *)
LEMMA SumTerm ==
  ASSUME NEW S, IsFiniteSet(S), NEW f, \A x \in S : f[x] \in Nat, NEW y \in S
  PROVE  f[y] <= FSum(f, S)
<1>1. FSum(f, S) = f[y] + FSum(f, S \ {y})
  BY SumRemove
<1>2. FSum(f, S \ {y}) \in Nat
  BY FS_Subset, SumNat
<1> QED
  BY <1>1, <1>2

(* A sum of zeros.                                                         *)
LEMMA SumZero ==
  ASSUME NEW S, IsFiniteSet(S), NEW f, \A x \in S : f[x] = 0
  PROVE  FSum(f, S) = 0
<1> DEFINE F == {T \in SUBSET S : FSum(f, T) = 0}
<1>0. {} \in F
  BY SumOfNone
<1>1. ASSUME NEW T \in SUBSET S, NEW x \in S \ T, T \in F PROVE T \cup {x} \in F
  <2>1. IsFiniteSet(T)
    BY FS_Subset
  <2>2. FSum(f, T \cup {x}) = FSum(f, T) + f[x]
    BY <2>1, SumAdd
  <2> QED
    BY <1>1, <2>2
<1>2. S \in F
  <2> HIDE DEF F
  <2> QED
    BY <1>0, <1>1, FiniteInduction
<1> QED
  BY <1>2

(* One term changed changes the sum by as much.                            *)
LEMMA SumUpdate ==
  ASSUME NEW S, IsFiniteSet(S), NEW f, NEW g, NEW y \in S,
         \A x \in S : f[x] \in Int /\ g[x] \in Int,
         \A x \in S \ {y} : g[x] = f[x]
  PROVE  FSum(g, S) = FSum(f, S) + (g[y] - f[y])
<1>1. IsFiniteSet(S \ {y})
  BY FS_Subset
<1>2. FSum(f, S) = f[y] + FSum(f, S \ {y}) /\ FSum(g, S) = g[y] + FSum(g, S \ {y})
  BY SumRemove
<1>3. FSum(f, S \ {y}) = FSum(g, S \ {y})
  BY <1>1, SumSame
<1>4. FSum(f, S \ {y}) \in Int
  BY <1>1, SumType
<1> QED
  BY <1>2, <1>3, <1>4

(* A sum grows by as much as one of its terms.                             *)
LEMMA SumGrows ==
  ASSUME NEW S, IsFiniteSet(S), NEW f, NEW g, NEW y \in S, NEW c \in Int,
         \A x \in S : f[x] \in Int, g[y] = f[y] + c,
         \A x \in S \ {y} : g[x] = f[x]
  PROVE  FSum(g, S) = FSum(f, S) + c
<1>1. \A x \in S : g[x] \in Int
  OBVIOUS
<1>2. IsFiniteSet(S \ {y})
  BY FS_Subset
<1>3. FSum(f, S) = f[y] + FSum(f, S \ {y}) /\ FSum(g, S) = g[y] + FSum(g, S \ {y})
  BY <1>1, SumRemove
<1>4. FSum(f, S \ {y}) = FSum(g, S \ {y})
  BY <1>2, SumSame
<1>5. FSum(f, S \ {y}) \in Int
  BY <1>2, SumType
<1> QED
  BY <1>3, <1>4, <1>5

(* What is zero elsewhere needs summing only where it is not.              *)
LEMMA SumSupport ==
  ASSUME NEW S, IsFiniteSet(S), NEW T \in SUBSET S, NEW f,
         \A x \in T : f[x] \in Int, \A x \in S \ T : f[x] = 0
  PROVE  FSum(f, S) = FSum(f, T)
<1>1. IsFiniteSet(T) /\ IsFiniteSet(S \ T) /\ T \cap (S \ T) = {} /\ T \cup (S \ T) = S
  BY FS_Subset
<1>2. FSum(f, T \cup (S \ T)) = FSum(f, T) + FSum(f, S \ T)
  BY <1>1, SumUnion
<1>3. FSum(f, S \ T) = 0 /\ FSum(f, T) \in Int
  BY <1>1, SumZero, SumType
<1>4. FSum(f, S) = FSum(f, T) + FSum(f, S \ T)
  BY <1>1, <1>2
<1> QED
  BY <1>3, <1>4

(* The community modules' sum of a function over a set.                    *)
LEMMA SumFunctionIs ==
  ASSUME NEW f, NEW S
  PROVE  SumFunctionOnSet(f, S) = FSum(f, S)
<1> DEFINE h == (CHOOSE g : IsSum(f, S, g))[S]
<1>1. SumFunctionOnSet(f, S) = h
  BY DEF SumFunctionOnSet, FoldFunctionOnSet, MapThenFoldSet, IsSum, Some, Rest
<1>2. FSum(f, S) = h
  BY DEF FSum, FoldFunctionOnSet, MapThenFoldSet, IsSum, Some, Rest
<1> HIDE DEF h
<1> QED
  BY <1>1, <1>2

(* Equal sums of ordered terms have equal terms.                           *)
LEMMA SumStrict ==
  ASSUME NEW S, IsFiniteSet(S), NEW f, NEW g,
         \A x \in S : f[x] \in Int /\ g[x] \in Int /\ f[x] <= g[x],
         FSum(g, S) <= FSum(f, S), NEW y \in S
  PROVE  f[y] = g[y]
<1>1. IsFiniteSet(S \ {y})
  BY FS_Subset
<1>2. FSum(f, S) = f[y] + FSum(f, S \ {y}) /\ FSum(g, S) = g[y] + FSum(g, S \ {y})
  BY SumRemove
<1>3. FSum(f, S \ {y}) <= FSum(g, S \ {y})
  BY <1>1, SumMonotone
<1>4. FSum(f, S \ {y}) \in Int /\ FSum(g, S \ {y}) \in Int
  BY <1>1, SumType
<1> QED
  BY <1>2, <1>3, <1>4

(* A sum of equal terms.                                                   *)
LEMMA SumConstant ==
  ASSUME NEW S, IsFiniteSet(S), NEW f, NEW c \in Nat, \A x \in S : f[x] = c
  PROVE  FSum(f, S) = c * Cardinality(S)
<1> DEFINE F == {T \in SUBSET S : FSum(f, T) = c * Cardinality(T)}
<1>0. {} \in F
  <2>1. Cardinality({}) = 0
    BY FS_EmptySet
  <2>2. c * 0 = 0
    OBVIOUS
  <2> QED
    BY <2>1, <2>2, SumOfNone
<1>1. ASSUME NEW T \in SUBSET S, NEW x \in S \ T, T \in F PROVE T \cup {x} \in F
  <2>1. IsFiniteSet(T)
    BY FS_Subset
  <2>2. Cardinality(T) \in Nat /\ Cardinality(T \cup {x}) = Cardinality(T) + 1
    BY <2>1, FS_CardinalityType, FS_AddElement
  <2>3. FSum(f, T \cup {x}) = FSum(f, T) + c
    BY <2>1, SumAdd
  <2>4. c * (Cardinality(T) + 1) = c * Cardinality(T) + c
    BY <2>2
  <2> QED
    BY <1>1, <2>2, <2>3, <2>4
<1> HIDE DEF F
<1>2. S \in F
  BY <1>0, <1>1, FiniteInduction
<1> QED
  BY <1>2 DEF F

(* A factor common to all terms.                                           *)
LEMMA SumScale ==
  ASSUME NEW S, IsFiniteSet(S), NEW f, NEW g, NEW c \in Int,
         \A x \in S : f[x] \in Int /\ g[x] = c * f[x]
  PROVE  FSum(g, S) = c * FSum(f, S)
<1> DEFINE F == {T \in SUBSET S : FSum(g, T) = c * FSum(f, T)}
<1>0. {} \in F
  <2>1. c * 0 = 0
    OBVIOUS
  <2> QED
    BY <2>1, SumOfNone
<1>1. ASSUME NEW T \in SUBSET S, NEW x \in S \ T, T \in F PROVE T \cup {x} \in F
  <2>1. IsFiniteSet(T) /\ \A y \in S : g[y] \in Int
    BY FS_Subset
  <2>2. FSum(f, T \cup {x}) = FSum(f, T) + f[x] /\ FSum(g, T \cup {x}) = FSum(g, T) + g[x]
    BY <2>1, SumAdd
  <2>3. FSum(f, T) \in Int
    BY <2>1, SumType
  <2>4. c * (FSum(f, T) + f[x]) = c * FSum(f, T) + c * f[x]
    BY <2>3
  <2> QED
    BY <1>1, <2>2, <2>4
<1> HIDE DEF F
<1>2. S \in F
  BY <1>0, <1>1, FiniteInduction
<1> QED
  BY <1>2 DEF F

(* The terms of a subset set to zero.                                      *)
LEMMA SumDrop ==
  ASSUME NEW S, IsFiniteSet(S), NEW T \in SUBSET S, NEW f, NEW g,
         \A x \in S : f[x] \in Int,
         \A x \in T : g[x] = 0, \A x \in S \ T : g[x] = f[x]
  PROVE  FSum(g, S) = FSum(f, S) - FSum(f, T)
<1>1. IsFiniteSet(T) /\ IsFiniteSet(S \ T) /\ T \cap (S \ T) = {} /\ T \cup (S \ T) = S
  BY FS_Subset
<1>2. FSum(f, T \cup (S \ T)) = FSum(f, T) + FSum(f, S \ T)
  BY <1>1, SumUnion
<1>3. FSum(f, S) = FSum(f, T) + FSum(f, S \ T)
  BY <1>1, <1>2
<1>4. FSum(g, S) = FSum(g, S \ T)
  BY SumSupport
<1>5. FSum(g, S \ T) = FSum(f, S \ T)
  BY <1>1, SumSame
<1>6. FSum(f, T) \in Int /\ FSum(f, S \ T) \in Int
  BY <1>1, SumType
<1> QED
  BY <1>3, <1>4, <1>5, <1>6

(* Summed key by key, each term is counted once.                           *)
LEMMA SumKeyed ==
  ASSUME NEW P, IsFiniteSet(P), NEW S, IsFiniteSet(S), NEW g, NEW f,
         \A x \in S : g[x] \in P /\ f[x] \in Int
  PROVE  FSum([p \in P |-> FSum(f, {x \in S : g[x] = p})], P) = FSum(f, S)
<1> DEFINE H(T) == [p \in P |-> FSum(f, {x \in T : g[x] = p})]
           F == {T \in SUBSET S : FSum(H(T), P) = FSum(f, T)}
<1>0. {} \in F
  <2>1. \A p \in P : H({})[p] = 0
    <3>1. \A p \in P : {x \in {} : g[x] = p} = {}
      OBVIOUS
    <3> QED
      BY <3>1, SumOfNone
  <2> HIDE DEF H
  <2>2. FSum(H({}), P) = 0
    BY <2>1, SumZero
  <2> QED
    BY <2>2, SumOfNone
<1>1. ASSUME NEW T \in SUBSET S, NEW x \in S \ T, T \in F PROVE T \cup {x} \in F
  <2> DEFINE U == T \cup {x}
             q == g[x]
             Q(p) == {y \in T : g[y] = p}
  <2>1. IsFiniteSet(T) /\ \A p \in P : IsFiniteSet(Q(p)) /\ \A y \in Q(p) : f[y] \in Int
    BY FS_Subset
  <2>2. q \in P /\ f[x] \in Int
    OBVIOUS
  <2>3. \A p \in P : H(T)[p] \in Int
    BY <2>1, SumType
  <2>4. H(U)[q] = H(T)[q] + f[x]
    <3>1. {y \in U : g[y] = q} = Q(q) \cup {x} /\ x \notin Q(q)
      OBVIOUS
    <3>2. H(U)[q] = FSum(f, {y \in U : g[y] = q}) /\ H(T)[q] = FSum(f, Q(q))
      BY <2>2
    <3> HIDE DEF H, U, q, Q
    <3>3. FSum(f, Q(q) \cup {x}) = FSum(f, Q(q)) + f[x]
      BY <2>1, <2>2, <3>1, SumAdd
    <3> QED
      BY <3>1, <3>2, <3>3
  <2>5. \A p \in P \ {q} : H(U)[p] = H(T)[p]
    <3>1. \A p \in P \ {q} : {y \in U : g[y] = p} = Q(p)
      OBVIOUS
    <3> QED
      BY <3>1
  <2> HIDE DEF H, U, q, Q
  <2>6. FSum(H(U), P) = FSum(H(T), P) + f[x]
    BY <2>2, <2>3, <2>4, <2>5, SumGrows
  <2>7. FSum(f, U) = FSum(f, T) + f[x]
    BY <2>1, <2>2, SumAdd DEF U
  <2> QED
    BY <1>1, <2>6, <2>7 DEF U
<1> HIDE DEF F
<1>2. S \in F
  BY <1>0, <1>1, FiniteInduction
<1> QED
  BY <1>2 DEF F

(* The same, the terms of each key given as a set of their own.            *)
LEMMA SumByKey ==
  ASSUME NEW P, IsFiniteSet(P), NEW S, IsFiniteSet(S), NEW g, NEW f, NEW Part, NEW h,
         \A x \in S : g[x] \in P /\ f[x] \in Int,
         \A p \in P : \A x : x \in Part[p] <=> x \in S /\ g[x] = p,
         \A p \in P : h[p] = FSum(f, Part[p])
  PROVE  FSum(h, P) = FSum(f, S)
<1>1. FSum([p \in P |-> FSum(f, {x \in S : g[x] = p})], P) = FSum(f, S)
  BY SumKeyed
<1> DEFINE k == [p \in P |-> FSum(f, {x \in S : g[x] = p})]
<1>2. \A p \in P : {x \in S : g[x] = p} = Part[p]
  OBVIOUS
<1>3. \A p \in P : k[p] = h[p]
  BY <1>2
<1>4. FSum(k, P) = FSum(f, S)
  BY <1>1
<1> HIDE DEF k
<1> QED
  BY <1>3, <1>4, SumSame

(* A nonempty finite set of integers has a greatest member.                *)
LEMMA GreatestOf ==
  ASSUME NEW S, IsFiniteSet(S), S # {}, NEW f, \A x \in S : f[x] \in Int
  PROVE  \E x \in S : \A y \in S : f[y] <= f[x]
<1> DEFINE F == {T \in SUBSET S : T # {} => \E x \in T : \A y \in T : f[y] <= f[x]}
<1>0. {} \in F
  OBVIOUS
<1>1. ASSUME NEW T \in SUBSET S, NEW x \in S \ T, T \in F PROVE T \cup {x} \in F
  <2>1. CASE T = {}
    BY <2>1
  <2>2. CASE T # {}
    <3>1. PICK z \in T : \A y \in T : f[y] <= f[z]
      BY <1>1, <2>2
    <3>2. CASE f[x] <= f[z]
      BY <3>1, <3>2
    <3>3. CASE f[z] <= f[x]
      BY <3>1, <3>3
    <3> QED
      BY <3>2, <3>3
  <2> QED
    BY <2>1, <2>2
<1> HIDE DEF F
<1>2. S \in F
  BY <1>0, <1>1, FiniteInduction
<1> QED
  BY <1>2 DEF F

=============================================================================
