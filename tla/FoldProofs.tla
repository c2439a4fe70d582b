----------------------------- MODULE FoldProofs -----------------------------
(***************************************************************************)
(* Facts about folds over finite sets and sequences, which the community   *)
(* modules define and state no theorem of: they exist, a sum is a number,  *)
(* takes its elements in any order, and adds up over the parts of its set, *)
(* and the fold of a sequence goes from its first element to its last.     *)
(* The library states induction for an operator; here each fact follows    *)
(* from its least counterexample instead, and what a fold does at an       *)
(* element is a function.                                                  *)
(***************************************************************************)
EXTENDS Integers, FiniteSets, Folds, Functions, FiniteSetsExt, FiniteSetTheorems,
        WellFoundedInduction, TLAPS

(* A set of natural numbers that is not empty has a least one. *)
LEMMA LeastNatural == ASSUME NEW S, S \subseteq Nat, S # {} PROVE \E x \in S : \A y \in S : x <= y
<1>1. PICK x \in S : \A y \in S : ~ (<<y, x>> \in OpToRel(<, Nat))
  BY NatLessThanWellFounded, WFMin
<1>2. OpToRel(<, Nat) = {p \in Nat \X Nat : p[1] < p[2]}
  BY Zenon DEF OpToRel
<1>3. ASSUME NEW y \in S PROVE x <= y
  <2>1. <<y, x>> \notin {p \in Nat \X Nat : p[1] < p[2]}
    BY <1>1, <1>2, Zenon
  <2>2. <<y, x>> \in Nat \X Nat /\ <<y, x>>[1] = y /\ <<y, x>>[2] = x
    OBVIOUS
  <2>3. ~ (y < x)
    BY <2>1, <2>2
  <2> QED
    BY <2>3
<1> QED
  BY <1>1, <1>3

(* F folds the subsets of S: each is folded without the element that ch      *)
(* chooses of it, and step takes that element in.                            *)
Fold(S, base, step, ch, F) ==
  F = [U \in SUBSET S |-> IF U = {} THEN base ELSE step[ch[U]][F[U \ {ch[U]}]]]

(* The subsets of at most n elements, and a fold that is defined on them.    *)
UpTo(S, n) == {U \in SUBSET S : Cardinality(U) <= n}

Partial(S, T, base, step, ch, n) ==
  \E F \in [UpTo(S, n) -> T] :
    \A U \in UpTo(S, n) : F[U] = IF U = {} THEN base ELSE step[ch[U]][F[U \ {ch[U]}]]

(* A fold of the sets of at most n elements is one step from the next. *)
LEMMA Extended ==
  ASSUME NEW S, IsFiniteSet(S), NEW T, NEW base \in T, NEW step \in [S -> [T -> T]],
         NEW ch, \A U \in SUBSET S : U # {} => ch[U] \in U,
         NEW n \in Nat, Partial(S, T, base, step, ch, n)
  PROVE  Partial(S, T, base, step, ch, n + 1)
<1>1. PICK F \in [UpTo(S, n) -> T] :
        \A U \in UpTo(S, n) : F[U] = IF U = {} THEN base ELSE step[ch[U]][F[U \ {ch[U]}]]
  BY DEF Partial
<1> DEFINE G == [U \in UpTo(S, n + 1) |-> IF U = {} THEN base ELSE step[ch[U]][F[U \ {ch[U]}]]]
<1>2. ASSUME NEW U \in UpTo(S, n + 1), U # {}
      PROVE  ch[U] \in S /\ U \ {ch[U]} \in UpTo(S, n) /\ U \ {ch[U]} \in UpTo(S, n + 1)
  <2>1. U \in SUBSET S /\ IsFiniteSet(U) /\ Cardinality(U) \in Nat /\ ch[U] \in U
    BY <1>2, FS_Subset, FS_CardinalityType DEF UpTo
  <2>2. Cardinality(U \ {ch[U]}) = Cardinality(U) - 1
    BY <2>1, FS_RemoveElement
  <2> QED
    BY <2>1, <2>2 DEF UpTo
<1>3. G \in [UpTo(S, n + 1) -> T]
  <2> SUFFICES ASSUME NEW U \in UpTo(S, n + 1)
               PROVE  (IF U = {} THEN base ELSE step[ch[U]][F[U \ {ch[U]}]]) \in T
    OBVIOUS
  <2> QED
    BY <1>2
<1>4. ASSUME NEW U \in UpTo(S, n) PROVE G[U] = F[U]
  <2>1. U \in UpTo(S, n + 1)
    BY FS_Subset, FS_CardinalityType DEF UpTo
  <2> QED
    BY <1>1, <2>1
<1>5. ASSUME NEW U \in UpTo(S, n + 1)
      PROVE  G[U] = IF U = {} THEN base ELSE step[ch[U]][G[U \ {ch[U]}]]
  BY <1>2, <1>4
<1> HIDE DEF G
<1> QED
  BY <1>3, <1>5 DEF Partial

(* Every finite set has its fold. *)
LEMMA Folding ==
  ASSUME NEW S, IsFiniteSet(S), NEW T, NEW base \in T, NEW step \in [S -> [T -> T]],
         NEW ch, \A U \in SUBSET S : U # {} => ch[U] \in U
  PROVE  \E F \in [SUBSET S -> T] : Fold(S, base, step, ch, F)
<1> DEFINE Bad == {n \in Nat : ~ Partial(S, T, base, step, ch, n)}
<1>1. 0 \notin Bad
  <2>1. UpTo(S, 0) = {{}}
    <3>1. \A U \in SUBSET S : Cardinality(U) <= 0 <=> U = {}
      BY FS_Subset, FS_CardinalityType, FS_EmptySet
    <3> QED
      BY <3>1 DEF UpTo
  <2> DEFINE F == [U \in UpTo(S, 0) |-> base]
  <2>2. F \in [UpTo(S, 0) -> T]
    OBVIOUS
  <2>3. \A U \in UpTo(S, 0) : F[U] = IF U = {} THEN base ELSE step[ch[U]][F[U \ {ch[U]}]]
    BY <2>1
  <2> HIDE DEF F
  <2> QED
    BY <2>2, <2>3 DEF Partial
<1>2. Bad = {}
  <2> SUFFICES ASSUME Bad # {} PROVE FALSE
    OBVIOUS
  <2>1. PICK m \in Bad : \A y \in Bad : m <= y
    BY LeastNatural
  <2>2. m - 1 \in Nat /\ m - 1 \notin Bad
    BY <2>1, <1>1
  <2>3. Partial(S, T, base, step, ch, m - 1)
    BY <2>2
  <2>4. Partial(S, T, base, step, ch, (m - 1) + 1)
    BY <2>2, <2>3, Extended
  <2>5. m \in Nat /\ (m - 1) + 1 = m
    BY <2>1
  <2> QED
    BY <2>1, <2>4, <2>5
<1>3. Partial(S, T, base, step, ch, Cardinality(S))
  BY <1>2, FS_CardinalityType
<1>4. UpTo(S, Cardinality(S)) = SUBSET S
  BY FS_Subset DEF UpTo
<1>5. PICK F \in [SUBSET S -> T] :
        \A U \in SUBSET S : F[U] = IF U = {} THEN base ELSE step[ch[U]][F[U \ {ch[U]}]]
  BY <1>3, <1>4 DEF Partial
<1> DEFINE G == [U \in SUBSET S |-> IF U = {} THEN base ELSE step[ch[U]][F[U \ {ch[U]}]]]
<1>6. F = G
  <2>1. \A U \in SUBSET S : F[U] = G[U]
    BY <1>5
  <2> QED
    BY <2>1
<1> QED
  BY <1>6, Zenon DEF Fold

(* What holds at the start and at every step up holds all the way. *)
LEMMA Climb ==
  ASSUME NEW n \in Nat, NEW S, 0 \in S, \A i \in 0 .. n : i < n /\ i \in S => i + 1 \in S
  PROVE  \A i \in 0 .. n : i \in S
<1> DEFINE B == {i \in 0 .. n : i \notin S}
<1>1. B = {}
  <2> SUFFICES ASSUME B # {} PROVE FALSE
    OBVIOUS
  <2>1. B \subseteq Nat
    OBVIOUS
  <2>2. PICK m \in B : \A y \in B : m <= y
    <3> HIDE DEF B
    <3> QED
      BY <2>1, LeastNatural
  <2>3. m # 0 /\ m \in 0 .. n
    OBVIOUS
  <2>4. m - 1 \in 0 .. n /\ m - 1 \notin B /\ (m - 1) + 1 = m /\ m - 1 < n
    BY <2>2, <2>3
  <2>5. m - 1 \in S
    BY <2>4
  <2>6. m \in S
    BY <2>4, <2>5
  <2> QED
    BY <2>6
<1> QED
  BY <1>1

(* Min and Max of the module FiniteSetsExt are what they are named for. *)
LEMMA Minimum == ASSUME NEW S, S \subseteq Nat, S # {}
                 PROVE  Min(S) \in S /\ \A y \in S : Min(S) <= y
BY LeastNatural DEF Min

LEMMA Maximum == ASSUME NEW S, NEW n \in Nat, S \subseteq 0 .. n, S # {}
                 PROVE  Max(S) \in S /\ \A y \in S : y <= Max(S)
<1> DEFINE R == {n - x : x \in S}
<1>1. R \subseteq Nat /\ R # {}
  <2>1. \A x \in S : n - x \in Nat
    OBVIOUS
  <2>2. R \subseteq Nat
    BY <2>1, Zenon
  <2> QED
    BY <2>2
<1>2. PICK r \in R : \A y \in R : r <= y
  <2> HIDE DEF R
  <2> QED
    BY <1>1, LeastNatural
<1>3. PICK x \in S : r = n - x
  OBVIOUS
<1>4. \A y \in S : x >= y
  BY <1>2, <1>3
<1> QED
  BY <1>4 DEF Max

(* A family of sets that is not empty has a member that loses its place with *)
(* any element it loses.                                                     *)
LEMMA Smallest ==
  ASSUME NEW S, IsFiniteSet(S), NEW B, B \subseteq SUBSET S, B # {}
  PROVE  \E U \in B : \A x \in U : U \ {x} \notin B
<1> DEFINE Sizes == {Cardinality(U) : U \in B}
<1>1. \A U \in B : IsFiniteSet(U) /\ Cardinality(U) \in Nat
  BY FS_Subset, FS_CardinalityType
<1>2. Sizes \subseteq Nat /\ Sizes # {}
  BY <1>1
<1>3. PICK n \in Sizes : \A m \in Sizes : n <= m
  <2> HIDE DEF Sizes
  <2> QED
    BY <1>2, LeastNatural
<1>4. PICK U \in B : Cardinality(U) = n
  OBVIOUS
<1>5. ASSUME NEW x \in U, U \ {x} \in B PROVE FALSE
  <2>1. Cardinality(U \ {x}) = Cardinality(U) - 1
    BY <1>1, FS_RemoveElement
  <2> QED
    BY <1>1, <1>3, <1>4, <1>5, <2>1
<1> QED
  BY <1>5
-----------------------------------------------------------------------------
(* Sums.  F sums f over the subsets of S, as the fold does it.              *)
SumOver(S, f, F) ==
  F = [U \in SUBSET S |-> IF U = {} THEN 0
                          ELSE f[CHOOSE x \in U : TRUE] + F[U \ {CHOOSE x \in U : TRUE}]]

(* The sum of f over S. *)
AddUp(f, S) == (CHOOSE F : SumOver(S, f, F))[S]

(* There is such a sum. *)
LEMMA SumExists ==
  ASSUME NEW S, IsFiniteSet(S), NEW f, \A x \in S : f[x] \in Int
  PROVE  \E F \in [SUBSET S -> Int] : SumOver(S, f, F)
<1> DEFINE ch == [U \in SUBSET S |-> CHOOSE x \in U : TRUE]
           step == [x \in S |-> [n \in Int |-> f[x] + n]]
<1>1. step \in [S -> [Int -> Int]] /\ 0 \in Int
  OBVIOUS
<1>2. \A U \in SUBSET S : U # {} => ch[U] \in U
  OBVIOUS
<1>3. \A U \in SUBSET S : ch[U] = CHOOSE x \in U : TRUE
  OBVIOUS
<1> HIDE DEF ch
<1>4. PICK F \in [SUBSET S -> Int] : Fold(S, 0, step, ch, F)
  <2> HIDE DEF step
  <2> QED
    BY <1>1, <1>2, Folding
<1> DEFINE G == [U \in SUBSET S |-> IF U = {} THEN 0
                          ELSE f[CHOOSE x \in U : TRUE] + F[U \ {CHOOSE x \in U : TRUE}]]
<1>5. ASSUME NEW U \in SUBSET S PROVE F[U] = G[U]
  <2>1. CASE U = {}
    BY <1>4, <2>1 DEF Fold
  <2>2. CASE U # {}
    <3>1. F[U] = step[ch[U]][F[U \ {ch[U]}]]
      BY <1>4, <2>2 DEF Fold
    <3>2. ch[U] \in S /\ F[U \ {ch[U]}] \in Int
      BY <1>2, <2>2
    <3> QED
      BY <1>3, <2>2, <3>1, <3>2
  <2> QED
    BY <2>1, <2>2
<1>6. F = G
  BY <1>5
<1> QED
  BY <1>6, Zenon DEF SumOver

(* Two such sums agree on a set on which what they add agrees. *)
LEMMA SumSame ==
  ASSUME NEW S, NEW R, NEW f, NEW g, NEW F, NEW G, SumOver(S, f, F), SumOver(R, g, G),
         NEW U, IsFiniteSet(U), U \subseteq S, U \subseteq R, \A x \in U : f[x] = g[x]
  PROVE  F[U] = G[U]
<1> DEFINE B == {V \in SUBSET U : F[V] # G[V]}
<1>1. B = {}
  <2> SUFFICES ASSUME B # {} PROVE FALSE
    OBVIOUS
  <2>1. PICK V \in B : \A x \in V : V \ {x} \notin B
    <3>1. B \subseteq SUBSET U
      OBVIOUS
    <3> HIDE DEF B
    <3> QED
      BY <3>1, Smallest
  <2>2. F[{}] = 0 /\ G[{}] = 0
    BY DEF SumOver
  <2>3. V # {}
    BY <2>2
  <2> DEFINE c == CHOOSE x \in V : TRUE
  <2>4. c \in V
    BY <2>3
  <2>5. F[V] = f[c] + F[V \ {c}] /\ G[V] = g[c] + G[V \ {c}]
    BY <2>3 DEF SumOver
  <2>6. V \ {c} \in SUBSET U /\ f[c] = g[c]
    BY <2>4
  <2> HIDE DEF c
  <2>7. F[V \ {c}] = G[V \ {c}]
    BY <2>1, <2>4, <2>6
  <2> QED
    BY <2>5, <2>6, <2>7
<1> QED
  BY <1>1

(* Whichever element is taken first. *)
AnyOrder(S, f, F) == \A U \in SUBSET S : \A x \in U : F[U] = f[x] + F[U \ {x}]

(* A sum is a number, and takes its elements in any order. *)
LEMMA SumAnyOrder ==
  ASSUME NEW S, IsFiniteSet(S), NEW f, \A x \in S : f[x] \in Int, NEW F, SumOver(S, f, F)
  PROVE  /\ F \in [SUBSET S -> Int]
         /\ F[{}] = 0
         /\ AnyOrder(S, f, F)
<1>1. F \in [SUBSET S -> Int]
  <2>1. PICK G \in [SUBSET S -> Int] : SumOver(S, f, G)
    BY SumExists
  <2>2. \A U \in SUBSET S : F[U] = G[U]
    BY <2>1, FS_Subset, SumSame
  <2>3. F = [U \in SUBSET S |-> F[U]]
    BY DEF SumOver
  <2> QED
    BY <2>2, <2>3
<1>2. F[{}] = 0
  BY DEF SumOver
<1> DEFINE B == {U \in SUBSET S : \E x \in U : F[U] # f[x] + F[U \ {x}]}
<1>3. B = {}
  <2> SUFFICES ASSUME B # {} PROVE FALSE
    OBVIOUS
  <2>1. PICK U \in B : \A x \in U : U \ {x} \notin B
    <3>1. B \subseteq SUBSET S
      OBVIOUS
    <3> HIDE DEF B
    <3> QED
      BY <3>1, Smallest
  <2>2. PICK x \in U : F[U] # f[x] + F[U \ {x}]
    OBVIOUS
  <2> DEFINE c == CHOOSE y \in U : TRUE
  <2>3. c \in U
    BY <2>2
  <2>4. F[U] = f[c] + F[U \ {c}]
    BY <2>2 DEF SumOver
  <2> HIDE DEF c
  <2>5. c # x
    BY <2>2, <2>4
  <2>6. U \ {c} \in SUBSET S /\ U \ {x} \in SUBSET S /\ x \in U \ {c} /\ c \in U \ {x}
    BY <2>3, <2>5
  <2>7. F[U \ {c}] = f[x] + F[(U \ {c}) \ {x}]
    BY <2>1, <2>3, <2>6
  <2>8. F[U \ {x}] = f[c] + F[(U \ {x}) \ {c}]
    BY <2>1, <2>6
  <2>9. (U \ {x}) \ {c} = (U \ {c}) \ {x} /\ (U \ {c}) \ {x} \in SUBSET S
    BY <2>6
  <2>10. f[x] \in Int /\ f[c] \in Int /\ F[(U \ {c}) \ {x}] \in Int
    BY <1>1, <2>6, <2>9
  <2> DEFINE rest == F[(U \ {c}) \ {x}]
             one == F[U \ {c}]
             other == F[U \ {x}]
  <2>11. one = f[x] + rest /\ other = f[c] + rest /\ rest \in Int
    BY <2>7, <2>8, <2>9, <2>10, Zenon
  <2>12. F[U] = f[c] + one /\ F[U] # f[x] + other
    BY <2>2, <2>4, Zenon
  <2> HIDE DEF rest, one, other
  <2> QED
    BY <2>10, <2>11, <2>12
<1> QED
  BY <1>1, <1>2, <1>3 DEF AnyOrder

(* One element of a sum and the rest. *)
LEMMA SumElement ==
  ASSUME NEW S, IsFiniteSet(S), NEW f, \A x \in S : f[x] \in Int, NEW F, SumOver(S, f, F),
         NEW U, U \subseteq S, NEW c \in U
  PROVE  F[U] = f[c] + F[U \ {c}]
<1>1. AnyOrder(S, f, F)
  BY SumAnyOrder
<1>2. U \in SUBSET S
  OBVIOUS
<1> QED
  BY <1>1, <1>2, Zenon DEF AnyOrder

(* The same of the sum over a set. *)
LEMMA AddUpSum ==
  ASSUME NEW S, IsFiniteSet(S), NEW f, \A x \in S : f[x] \in Int
  PROVE  \E F : SumOver(S, f, F) /\ AddUp(f, S) = F[S]
<1>1. SumOver(S, f, CHOOSE F : SumOver(S, f, F))
  BY SumExists, Zenon
<1> QED
  BY <1>1, Zenon DEF AddUp

(* It is a number. *)
LEMMA AddUpInt ==
  ASSUME NEW S, IsFiniteSet(S), NEW f, \A x \in S : f[x] \in Int
  PROVE  AddUp(f, S) \in Int
<1>1. PICK F : SumOver(S, f, F) /\ AddUp(f, S) = F[S]
  BY AddUpSum
<1>2. F \in [SUBSET S -> Int]
  BY <1>1, SumAnyOrder
<1> QED
  BY <1>1, <1>2

(* Nothing adds up to 0. *)
LEMMA AddUpEmpty == ASSUME NEW f PROVE AddUp(f, {}) = 0
<1>1. PICK F : SumOver({}, f, F) /\ AddUp(f, {}) = F[{}]
  BY AddUpSum, FS_EmptySet
<1> QED
  BY <1>1 DEF SumOver

(* It depends on what is added only. *)
LEMMA AddUpSame ==
  ASSUME NEW S, IsFiniteSet(S), NEW f, NEW g, \A x \in S : f[x] \in Int /\ f[x] = g[x]
  PROVE  AddUp(f, S) = AddUp(g, S)
<1>1. PICK F : SumOver(S, f, F) /\ AddUp(f, S) = F[S]
  BY AddUpSum
<1>2. PICK G : SumOver(S, g, G) /\ AddUp(g, S) = G[S]
  BY AddUpSum
<1> QED
  BY <1>1, <1>2, SumSame

(* One element and the rest. *)
LEMMA AddUpElement ==
  ASSUME NEW S, IsFiniteSet(S), NEW f, \A x \in S : f[x] \in Int, NEW x \in S
  PROVE  AddUp(f, S) = f[x] + AddUp(f, S \ {x})
<1>1. PICK F : SumOver(S, f, F) /\ AddUp(f, S) = F[S]
  BY AddUpSum
<1>2. IsFiniteSet(S \ {x})
  BY FS_Subset
<1>3. PICK G : SumOver(S \ {x}, f, G) /\ AddUp(f, S \ {x}) = G[S \ {x}]
  BY <1>2, AddUpSum
<1>4. F[S \ {x}] = G[S \ {x}]
  BY <1>1, <1>2, <1>3, SumSame
<1>5. F[S] = f[x] + F[S \ {x}]
  BY <1>1, SumElement
<1> QED
  BY <1>1, <1>3, <1>4, <1>5, Zenon

(* Sums over disjoint sets add up. *)
LEMMA AddUpUnion ==
  ASSUME NEW S, IsFiniteSet(S), NEW f, \A x \in S : f[x] \in Int, NEW R, R \subseteq S
  PROVE  AddUp(f, S) = AddUp(f, R) + AddUp(f, S \ R)
<1> DEFINE B == {U \in SUBSET R : AddUp(f, U \cup (S \ R)) # AddUp(f, U) + AddUp(f, S \ R)}
<1>1. B = {}
  <2> SUFFICES ASSUME B # {} PROVE FALSE
    OBVIOUS
  <2>1. PICK U \in B : \A x \in U : U \ {x} \notin B
    <3>1. B \subseteq SUBSET R /\ IsFiniteSet(R)
      BY FS_Subset
    <3> HIDE DEF B
    <3> QED
      BY <3>1, Smallest
  <2>2. IsFiniteSet(U) /\ IsFiniteSet(S \ R) /\ IsFiniteSet(U \cup (S \ R))
    BY FS_Subset
  <2>3. AddUp(f, S \ R) \in Int
    BY <2>2, AddUpInt
  <2>4. U # {}
    <3>1. ASSUME U = {} PROVE FALSE
      <4>1. U \cup (S \ R) = S \ R
        BY <3>1
      <4>2. AddUp(f, U) = 0
        BY <3>1, AddUpEmpty
      <4> DEFINE part == AddUp(f, S \ R)
      <4>3. part # 0 + part
        BY <4>1, <4>2, Zenon
      <4>4. part \in Int
        BY <2>3
      <4> HIDE DEF part
      <4> QED
        BY <4>3, <4>4
    <3> QED
      BY <3>1
  <2>5. PICK x \in U : TRUE
    BY <2>4
  <2>6. AddUp(f, U) = f[x] + AddUp(f, U \ {x})
    BY <2>2, AddUpElement
  <2>7. AddUp(f, U \cup (S \ R)) = f[x] + AddUp(f, (U \cup (S \ R)) \ {x})
    BY <2>2, AddUpElement
  <2>8. (U \cup (S \ R)) \ {x} = (U \ {x}) \cup (S \ R)
    OBVIOUS
  <2>9. AddUp(f, (U \ {x}) \cup (S \ R)) = AddUp(f, U \ {x}) + AddUp(f, S \ R)
    BY <2>1
  <2>10. AddUp(f, U \ {x}) \in Int
    BY <2>2, FS_Subset, AddUpInt
  <2>11. f[x] \in Int
    OBVIOUS
  <2> DEFINE part == AddUp(f, S \ R)
             rest == AddUp(f, U \ {x})
             all == AddUp(f, U \cup (S \ R))
  <2>12. all = f[x] + (rest + part) /\ AddUp(f, U) = f[x] + rest /\ all # AddUp(f, U) + part
    BY <2>6, <2>7, <2>8, <2>9, Zenon
  <2>13. part \in Int /\ rest \in Int
    BY <2>3, <2>10
  <2> HIDE DEF part, rest, all
  <2> QED
    BY <2>11, <2>12, <2>13
<1>2. R \cup (S \ R) = S
  OBVIOUS
<1> QED
  BY <1>1, <1>2

(* Nothing negative, nothing negative in the sum. *)
LEMMA AddUpNat ==
  ASSUME NEW S, IsFiniteSet(S), NEW f, \A x \in S : f[x] \in Nat
  PROVE  AddUp(f, S) \in Nat
<1> DEFINE B == {U \in SUBSET S : AddUp(f, U) \notin Nat}
<1>1. B = {}
  <2> SUFFICES ASSUME B # {} PROVE FALSE
    OBVIOUS
  <2>1. PICK U \in B : \A x \in U : U \ {x} \notin B
    <3>1. B \subseteq SUBSET S
      OBVIOUS
    <3> HIDE DEF B
    <3> QED
      BY <3>1, Smallest
  <2>2. U # {}
    BY AddUpEmpty
  <2>3. PICK x \in U : TRUE
    BY <2>2
  <2>4. IsFiniteSet(U) /\ U \ {x} \in SUBSET S
    BY FS_Subset
  <2>5. AddUp(f, U) = f[x] + AddUp(f, U \ {x})
    BY <2>4, AddUpElement
  <2>6. AddUp(f, U \ {x}) \in Nat /\ f[x] \in Nat
    BY <2>1, <2>4
  <2> QED
    BY <2>5, <2>6
<1> QED
  BY <1>1
-----------------------------------------------------------------------------
(* SumFunction of the module Functions is that sum. *)
LEMMA SumFunctionAddsUp ==
  ASSUME NEW fun
  PROVE  SumFunction(fun) = AddUp(fun, DOMAIN fun)
BY Zenon DEF SumFunction, SumFunctionOnSet, FoldFunctionOnSet, MapThenFoldSet, SumOver, AddUp
-----------------------------------------------------------------------------
(* The fold of a sequence from its first element on: what it has reached    *)
(* after each prefix.                                                       *)
PrefixFolded(n, T, base, step, F) ==
  /\ F \in [SUBSET (1 .. n) -> T]
  /\ F = [U \in SUBSET (1 .. n) |->
            IF U = {} THEN base ELSE step[Max(U)][F[U \ {Max(U)}]]]
  /\ F[1 .. 0] = base
  /\ \A i \in 1 .. n : F[1 .. i] = step[i][F[1 .. i - 1]]

(* There is one. *)
LEMMA PrefixFold ==
  ASSUME NEW n \in Nat, NEW T, NEW base \in T, NEW step \in [1 .. n -> [T -> T]]
  PROVE  \E F : PrefixFolded(n, T, base, step, F)
<1> DEFINE ch == [U \in SUBSET (1 .. n) |-> Max(U)]
<1>1. IsFiniteSet(1 .. n)
  BY FS_Interval
<1>2. \A U \in SUBSET (1 .. n) : U # {} => Max(U) \in U /\ \A y \in U : y <= Max(U)
  <2>1. \A U \in SUBSET (1 .. n) : U \subseteq 0 .. n
    OBVIOUS
  <2> QED
    BY <2>1, Maximum
<1>3. \A U \in SUBSET (1 .. n) : (U # {} => ch[U] \in U) /\ ch[U] = Max(U)
  BY <1>2
<1> HIDE DEF ch
<1>4. PICK F \in [SUBSET (1 .. n) -> T] : Fold(1 .. n, base, step, ch, F)
  BY <1>1, <1>3, Folding
<1> DEFINE G == [U \in SUBSET (1 .. n) |->
                   IF U = {} THEN base ELSE step[Max(U)][F[U \ {Max(U)}]]]
<1>5. ASSUME NEW U \in SUBSET (1 .. n) PROVE F[U] = G[U]
  BY <1>3, <1>4 DEF Fold
<1>6. F = G
  BY <1>5
<1>7. F[1 .. 0] = base
  <2>1. 1 .. 0 = {} /\ {} \in SUBSET (1 .. n)
    OBVIOUS
  <2>2. G[{}] = base
    OBVIOUS
  <2> QED
    BY <1>6, <2>1, <2>2, Zenon
<1>8. ASSUME NEW i \in 1 .. n PROVE F[1 .. i] = step[i][F[1 .. i - 1]]
  <2> DEFINE U == 1 .. i
  <2>1. U \in SUBSET (1 .. n) /\ i \in U /\ U # {} /\ \A y \in U : y \in Int /\ y <= i
    <3>1. \A y \in 1 .. i : y \in 1 .. n /\ y \in Int /\ y <= i
      OBVIOUS
    <3>2. i \in 1 .. i
      OBVIOUS
    <3> QED
      BY <3>1, <3>2, Zenon
  <2>2. Max(U) = i
    <3>1. Max(U) \in U /\ \A y \in U : y <= Max(U)
      BY <1>2, <2>1, Zenon
    <3>2. i \in Int
      OBVIOUS
    <3> DEFINE m == Max(U)
    <3>3. m \in U /\ i <= m /\ m <= i /\ m \in Int
      BY <2>1, <3>1, Zenon
    <3> HIDE DEF m
    <3>4. m = i
      BY <3>2, <3>3
    <3> QED
      BY <3>4 DEF m
  <2>3. U \ {i} = 1 .. i - 1
    OBVIOUS
  <2>4. G[U] = step[Max(U)][F[U \ {Max(U)}]]
    BY <2>1
  <2> QED
    BY <1>6, <2>2, <2>3, <2>4, Zenon
<1> QED
  BY <1>4, <1>6, <1>7, <1>8, Zenon DEF PrefixFolded

(* What takes the same steps is the same fold. *)
SameSteps(n, T, base, step, G) ==
  /\ G[{}] = base
  /\ \A U \in SUBSET (1 .. n) :
       U # {} /\ G[U \ {Max(U)}] \in T => G[U] = step[Max(U)][G[U \ {Max(U)}]]

LEMMA PrefixSame ==
  ASSUME NEW n \in Nat, NEW T, NEW base \in T, NEW step,
         NEW F, PrefixFolded(n, T, base, step, F), NEW G, SameSteps(n, T, base, step, G)
  PROVE  G[1 .. n] = F[1 .. n]
<1> DEFINE B == {V \in SUBSET (1 .. n) : G[V] # F[V]}
<1> SUFFICES ASSUME B # {} PROVE FALSE
  OBVIOUS
<1>0. F \in [SUBSET (1 .. n) -> T]
  BY Zenon DEF PrefixFolded
<1>1. PICK V \in B : \A x \in V : V \ {x} \notin B
  <2>1. B \subseteq SUBSET (1 .. n) /\ IsFiniteSet(1 .. n)
    BY FS_Interval
  <2> HIDE DEF B
  <2> QED
    BY <2>1, Smallest
<1>2. F[{}] = base
  <2>1. {} = 1 .. 0
    OBVIOUS
  <2> QED
    BY <2>1, Zenon DEF PrefixFolded
<1>3. V \in SUBSET (1 .. n) /\ G[V] # F[V]
  OBVIOUS
<1>4. V # {}
  BY <1>2, <1>3, Zenon DEF SameSteps
<1>5. Max(V) \in V
  <2>1. V \subseteq 0 .. n
    BY <1>3
  <2> QED
    BY <1>4, <2>1, Maximum
<1> DEFINE m == Max(V)
<1>6. F[V] = step[m][F[V \ {m}]]
  <2>1. F = [U \in SUBSET (1 .. n) |-> IF U = {} THEN base ELSE step[Max(U)][F[U \ {Max(U)}]]]
    BY Zenon DEF PrefixFolded
  <2> QED
    BY <1>3, <1>4, <2>1, Zenon
<1>7. V \ {m} \in SUBSET (1 .. n) /\ V \ {m} \notin B
  BY <1>1, <1>3, <1>5
<1>8. G[V \ {m}] = F[V \ {m}] /\ F[V \ {m}] \in T
  BY <1>0, <1>7
<1>9. G[V] = step[m][G[V \ {m}]]
  BY <1>3, <1>4, <1>8, Zenon DEF SameSteps
<1> QED
  BY <1>3, <1>6, <1>8, <1>9, Zenon
=============================================================================
