------------------------------ MODULE FoldLemmas ------------------------------
(***************************************************************************)
(* What the folds of the community modules compute: sums over finite sets, *)
(* and a sequence folded from the left.  An operator that a fold is given  *)
(* is a constant of this module, so that INSTANCE can say which it is.     *)
(*                                                                         *)
(* Induction is stated with sets: a set of natural numbers that has 0 and  *)
(* with each number the next has them all.                                 *)
(***************************************************************************)
EXTENDS Integers, SequencesExt, WellFoundedInduction, FiniteSetTheorems, SequenceTheorems, TLAPS

CONSTANTS Op(_, _), Base   \* of Fold

LEMMA NatLess == IsWellFoundedOn({p \in Nat \X Nat : p[1] < p[2]}, Nat)
BY NatLessThanWellFounded DEF OpToRel

LEMMA NatSets == ASSUME NEW N \in SUBSET Nat, 0 \in N, \A n \in N : n + 1 \in N PROVE N = Nat
<1> DEFINE Less == {p \in Nat \X Nat : p[1] < p[2]}
<1> SUFFICES ASSUME Nat \ N # {} PROVE FALSE
  OBVIOUS
<1>1. PICK x \in Nat \ N : \A y \in Nat \ N : <<y, x>> \notin Less
  <2> HIDE DEF Less
  <2> QED
    BY NatLess, WFMin DEF Less
<1>2. x - 1 \in Nat /\ <<x - 1, x>> \in Less
  BY <1>1
<1>3. x - 1 \in N
  BY <1>1, <1>2
<1> QED
  BY <1>1, <1>2, <1>3

LEMMA MinIsIn == ASSUME NEW S \in SUBSET Nat, S # {} PROVE Min(S) \in S /\ \A n \in S : Min(S) <= n
<1> DEFINE Less == {p \in Nat \X Nat : p[1] < p[2]}
<1>1. PICK x \in S : \A y \in S : <<y, x>> \notin Less
  <2>1. S \subseteq Nat
    OBVIOUS
  <2> HIDE DEF Less
  <2> QED
    BY <2>1, NatLess, WFMin DEF Less
<1>2. ASSUME NEW y \in S PROVE x <= y
  <2>1. <<y, x>> \in Nat \X Nat /\ <<y, x>> \notin Less
    BY <1>1
  <2>2. ~(y < x)
    BY <2>1
  <2> QED
    BY <2>2
<1> QED
  BY <1>1, <1>2 DEF Min

\* Subsets of a finite set, each of which may use all that are smaller.
LEMMA FiniteSubsets ==
  ASSUME NEW S, IsFiniteSet(S), NEW P,
         \A T \in SUBSET S : (\A U \in SUBSET T : U # T => U \in P) => T \in P
  PROVE  \A T \in SUBSET S : T \in P
<1> DEFINE bad == {T \in SUBSET S : T \notin P}
<1> SUFFICES ASSUME bad # {} PROVE FALSE
  OBVIOUS
<1>1. IsWellFoundedOn(StrictSubsetOrdering(S), SUBSET S)
  <2>1. FiniteSubsetsOf(S) = SUBSET S
    BY FS_FiniteSubsetsOfFinite
  <2>2. IsWellFoundedOn(StrictSubsetOrdering(S), FiniteSubsetsOf(S))
    BY FS_StrictSubsetOrderingWellFounded
  <2> QED
    BY <2>1, <2>2
<1>2. PICK T \in bad : \A U \in bad : <<U, T>> \notin StrictSubsetOrdering(S)
  <2>1. bad \subseteq SUBSET S
    OBVIOUS
  <2> HIDE DEF bad
  <2> QED
    BY <1>1, <2>1, WFMin
<1>3. \A U \in SUBSET T : U # T => U \in P
  BY <1>2 DEF StrictSubsetOrdering
<1> QED
  BY <1>2, <1>3

LEMMA GreatestExists ==
  ASSUME NEW S, IsFiniteSet(S), S # {}, NEW w, \A x \in S : w[x] \in Nat
  PROVE  \E x \in S : \A y \in S : w[x] >= w[y]
<1> DEFINE P == {T \in SUBSET S : T # {} => \E x \in T : \A y \in T : w[x] >= w[y]}
<1>1. ASSUME NEW T \in SUBSET S, \A U \in SUBSET T : U # T => U \in P PROVE T \in P
  <2> SUFFICES ASSUME T # {} PROVE \E x \in T : \A y \in T : w[x] >= w[y]
    OBVIOUS
  <2>1. PICK z \in T : TRUE
    OBVIOUS
  <2>2. CASE T = {z}
    BY <2>2
  <2>3. CASE T # {z}
    <3>1. PICK x \in T \ {z} : \A y \in T \ {z} : w[x] >= w[y]
      <4>1. T \ {z} \in P
        BY <1>1, <2>1
      <4> QED
        BY <2>1, <2>3, <4>1
    <3>2. \A y \in T : w[y] \in Nat
      OBVIOUS
    <3> QED
      BY <2>1, <3>1, <3>2
  <2> QED
    BY <2>2, <2>3
<1>2. \A T \in SUBSET S : T \in P
  <2> HIDE DEF P
  <2> QED
    BY <1>1, FiniteSubsets
<1> QED
  BY <1>2

-----------------------------------------------------------------------------
(* Sums *)

Total(w, S) == SumFunctionOnSet(w, S)

Pick(S) == CHOOSE x \in S : TRUE

\* f sums up the values of w over each subset of S.
Sums(f, w, S) ==
  f = [T \in SUBSET S |-> IF T = {} THEN 0 ELSE w[Pick(T)] + f[T \ {Pick(T)}]]

LEMMA SumsExist ==
  ASSUME NEW S, IsFiniteSet(S), NEW w, \A x \in S : w[x] \in Int
  PROVE  \E f \in [SUBSET S -> Int] : Sums(f, w, S)
<1> DEFINE step(f, T) == IF T = {} THEN 0 ELSE w[Pick(T)] + f[T \ {Pick(T)}]
           N == {n \in Nat : \E f \in [SUBSET S -> Int] :
                   \A T \in SUBSET S : Cardinality(T) < n => f[T] = step(f, T)}
<1>1. \A T \in SUBSET S : T # {} => Pick(T) \in T
  BY DEF Pick
<1>2. \A f \in [SUBSET S -> Int], T \in SUBSET S : step(f, T) \in Int
  BY <1>1
<1>3. \A T \in SUBSET S : Cardinality(T) \in Nat /\ Cardinality(T) <= Cardinality(S)
  BY FS_Subset, FS_CardinalityType
<1>4. Cardinality(S) \in Nat
  BY FS_CardinalityType
<1>5. 0 \in N
  <2>1. [T \in SUBSET S |-> 0] \in [SUBSET S -> Int]
    OBVIOUS
  <2>2. \A T \in SUBSET S : ~(Cardinality(T) < 0)
    BY <1>3
  <2> HIDE DEF step
  <2> QED
    BY <2>1, <2>2
<1>6. ASSUME NEW n \in N PROVE n + 1 \in N
  <2>1. PICK f \in [SUBSET S -> Int] :
          \A T \in SUBSET S : Cardinality(T) < n => f[T] = step(f, T)
    OBVIOUS
  <2> DEFINE g == [T \in SUBSET S |-> step(f, T)]
  <2>2. g \in [SUBSET S -> Int]
    BY <1>2
  <2>3. ASSUME NEW T \in SUBSET S, Cardinality(T) < n + 1 PROVE g[T] = step(g, T)
    <3>1. CASE T = {}
      BY <3>1
    <3>2. CASE T # {}
      <4> DEFINE U == T \ {Pick(T)}
      <4>1. Pick(T) \in T /\ IsFiniteSet(T) /\ U \in SUBSET S
        BY <1>1, <3>2, FS_Subset
      <4>2. Cardinality(U) = Cardinality(T) - 1
        BY <4>1, FS_RemoveElement
      <4>3. Cardinality(U) < n
        BY <1>3, <2>3, <4>2
      <4>4. f[U] = step(f, U)
        BY <2>1, <4>1, <4>3
      <4> QED
        BY <3>2, <4>1, <4>4
    <3> QED
      BY <3>1, <3>2
  <2> HIDE DEF g, step
  <2> QED
    BY <2>2, <2>3
<1>7. Cardinality(S) + 1 \in N
  <2> HIDE DEF N
  <2>1. N \in SUBSET Nat
    BY DEF N
  <2> QED
    BY <1>4, <1>5, <1>6, <2>1, NatSets
<1>8. PICK f \in [SUBSET S -> Int] :
        \A T \in SUBSET S : Cardinality(T) < Cardinality(S) + 1 => f[T] = step(f, T)
  BY <1>7
<1>9. \A T \in SUBSET S : f[T] = step(f, T)
  <2> SUFFICES ASSUME NEW T \in SUBSET S PROVE f[T] = step(f, T)
    OBVIOUS
  <2>1. Cardinality(T) < Cardinality(S) + 1
    BY <1>3, <1>4
  <2> QED
    BY <1>8, <2>1
<1>10. f = [T \in SUBSET S |-> step(f, T)]
  BY <1>9
<1> QED
  BY <1>10 DEF Sums

\* A smaller set has the same sums.
LEMMA SumsUnique ==
  ASSUME NEW S, IsFiniteSet(S), NEW R \in SUBSET S, NEW w, NEW f, NEW g, Sums(f, w, S), Sums(g, w, R)
  PROVE  \A T \in SUBSET R : f[T] = g[T]
<1> DEFINE P == {T \in SUBSET R : f[T] = g[T]}
<1>1. IsFiniteSet(R)
  BY FS_Subset
<1>2. ASSUME NEW T \in SUBSET R, \A U \in SUBSET T : U # T => U \in P PROVE T \in P
  <2>1. CASE T = {}
    BY <2>1 DEF Sums
  <2>2. CASE T # {}
    <3>1. Pick(T) \in T
      BY <2>2 DEF Pick
    <3>2. T \ {Pick(T)} \in P
      BY <1>2, <3>1
    <3>3. /\ f[T] = w[Pick(T)] + f[T \ {Pick(T)}]
          /\ g[T] = w[Pick(T)] + g[T \ {Pick(T)}]
      <4>1. T \in SUBSET S
        OBVIOUS
      <4> QED
        BY <2>2, <4>1 DEF Sums
    <3> QED
      BY <3>2, <3>3
  <2> QED
    BY <2>1, <2>2
<1>3. \A T \in SUBSET R : T \in P
  <2> HIDE DEF P
  <2> QED
    BY <1>1, <1>2, FiniteSubsets
<1> QED
  BY <1>3

LEMMA TotalIsSums ==
  ASSUME NEW S, IsFiniteSet(S), NEW w, NEW f, Sums(f, w, S)
  PROVE  Total(w, S) = f[S]
<1> DEFINE iter == CHOOSE h : h = [T \in SUBSET S |-> IF T = {} THEN 0 ELSE w[Pick(T)] + h[T \ {Pick(T)}]]
<1>1. Total(w, S) = iter[S]
  BY DEF Total, SumFunctionOnSet, FoldFunctionOnSet, MapThenFoldSet, Pick
<1>2. Sums(iter, w, S)
  BY DEF Sums
<1>3. iter[S] = f[S]
  <2> HIDE DEF iter
  <2> QED
    BY <1>2, SumsUnique
<1> QED
  BY <1>1, <1>3
SumsUp(f, w, S) ==
  /\ f \in [SUBSET S -> Int] /\ Sums(f, w, S)
  /\ \A x \in S : w[x] \in Int

\* Any element may be taken out first.
LEMMA SumsStep ==
  ASSUME NEW S, IsFiniteSet(S), NEW w, NEW f, SumsUp(f, w, S)
  PROVE  \A T \in SUBSET S : \A x \in T : f[T] = w[x] + f[T \ {x}]
<1> DEFINE P == {T \in SUBSET S : \A x \in T : f[T] = w[x] + f[T \ {x}]}
<1>1. ASSUME NEW T \in SUBSET S, \A U \in SUBSET T : U # T => U \in P PROVE T \in P
  <2> SUFFICES ASSUME NEW x \in T PROVE f[T] = w[x] + f[T \ {x}]
    OBVIOUS
  <2> DEFINE c == Pick(T)
  <2>1. c \in T
    BY DEF Pick
  <2>2. f[T] = w[c] + f[T \ {c}]
    BY DEF Sums, SumsUp
  <2> HIDE DEF c
  <2>3. CASE x = c
    BY <2>2, <2>3
  <2>4. CASE x # c
    <3>1. T \ {c} \in P /\ T \ {x} \in P
      BY <1>1, <2>1
    <3>2. x \in T \ {c} /\ c \in T \ {x} /\ (T \ {c}) \ {x} = (T \ {x}) \ {c}
      BY <2>1, <2>4
    <3>3. f[T \ {c}] = w[x] + f[(T \ {c}) \ {x}] /\ f[T \ {x}] = w[c] + f[(T \ {x}) \ {c}]
      BY <3>1, <3>2
    <3> DEFINE a == f[(T \ {x}) \ {c}]
    <3>4. w[x] \in Int /\ w[c] \in Int /\ a \in Int
      BY <2>1 DEF SumsUp
    <3>5. f[T \ {c}] = w[x] + a /\ f[T \ {x}] = w[c] + a
      BY <3>2, <3>3
    <3> HIDE DEF a, P
    <3> QED
      BY <2>2, <3>4, <3>5
  <2> QED
    BY <2>3, <2>4
<1> HIDE DEF P
<1>2. \A T \in SUBSET S : T \in P
  BY <1>1, FiniteSubsets
<1> QED
  BY <1>2 DEF P

\* What is to be known of sums.
LEMMA TotalType ==
  ASSUME NEW S, IsFiniteSet(S), NEW w, \A x \in S : w[x] \in Int
  PROVE  Total(w, S) \in Int
<1>1. PICK f \in [SUBSET S -> Int] : Sums(f, w, S)
  BY SumsExist
<1>2. Total(w, S) = f[S]
  BY <1>1, TotalIsSums
<1> QED
  BY <1>1, <1>2

LEMMA TotalEmpty == ASSUME NEW w PROVE Total(w, {}) = 0
<1>1. PICK f \in [SUBSET {} -> Int] : Sums(f, w, {})
  BY FS_EmptySet, SumsExist
<1>2. Total(w, {}) = f[{}]
  BY <1>1, FS_EmptySet, TotalIsSums
<1> QED
  BY <1>1, <1>2 DEF Sums

LEMMA TotalTake ==
  ASSUME NEW S, IsFiniteSet(S), NEW w, \A x \in S : w[x] \in Int, NEW x \in S
  PROVE  Total(w, S) = w[x] + Total(w, S \ {x})
<1>1. PICK f : SumsUp(f, w, S)
  BY SumsExist DEF SumsUp
<1>2. IsFiniteSet(S \ {x})
  BY FS_RemoveElement
<1>3. PICK g \in [SUBSET (S \ {x}) -> Int] : Sums(g, w, S \ {x})
  BY <1>2, SumsExist
<1>4. f[S \ {x}] = g[S \ {x}]
  BY <1>1, <1>3, SumsUnique DEF SumsUp
<1>5. f[S] = w[x] + f[S \ {x}]
  BY <1>1, SumsStep
<1>6. Total(w, S) = f[S] /\ Total(w, S \ {x}) = g[S \ {x}]
  BY <1>1, <1>2, <1>3, TotalIsSums DEF SumsUp
<1> QED
  BY <1>4, <1>5, <1>6

LEMMA TotalAdd ==
  ASSUME NEW S, IsFiniteSet(S), NEW w, NEW x, x \notin S, w[x] \in Int, \A y \in S : w[y] \in Int
  PROVE  Total(w, S \cup {x}) = Total(w, S) + w[x]
<1>1. IsFiniteSet(S \cup {x}) /\ (S \cup {x}) \ {x} = S /\ \A y \in S \cup {x} : w[y] \in Int
  BY FS_AddElement
<1>2. Total(w, S \cup {x}) = w[x] + Total(w, S)
  BY <1>1, TotalTake
<1> QED
  BY <1>2, TotalType

\* Sums over different sets that give the same values to elements that correspond.
LEMMA TotalMoved ==
  ASSUME NEW S, IsFiniteSet(S), NEW R, NEW w, NEW v, \A x \in S : w[x] \in Int,
         NEW h, h \in Bijection(R, S), \A y \in R : v[y] = w[h[y]]
  PROVE  IsFiniteSet(R) /\ Total(v, R) = Total(w, S)
<1> DEFINE back(T) == {y \in R : h[y] \in T}
           P == {T \in SUBSET S : IsFiniteSet(back(T)) /\ Total(v, back(T)) = Total(w, T)}
<1>1. /\ h \in [R -> S] /\ \A y, z \in R : h[y] = h[z] => y = z
      /\ \A x \in S : \E y \in R : h[y] = x
  BY DEF Bijection, Injection, Surjection, IsInjective
<1>2. ASSUME NEW T \in SUBSET S, \A U \in SUBSET T : U # T => U \in P PROVE T \in P
  <2>1. CASE T = {}
    <3>1. back(T) = {}
      BY <2>1
    <3> QED
      BY <2>1, <3>1, FS_EmptySet, TotalEmpty
  <2>2. CASE T # {}
    <3>1. PICK x \in T : TRUE
      BY <2>2
    <3>2. PICK y \in R : h[y] = x
      BY <1>1
    <3> DEFINE U == T \ {x}
    <3>3. U \in P /\ back(T) = back(U) \cup {y} /\ y \notin back(U)
      BY <1>1, <1>2, <3>2
    <3>4. IsFiniteSet(T) /\ IsFiniteSet(U) /\ T = U \cup {x}
      BY FS_Subset
    <3>5. IsFiniteSet(back(T))
      BY <3>3, FS_AddElement
    <3>6. Total(w, T) = Total(w, U) + w[x]
      <4>1. x \notin U /\ w[x] \in Int /\ \A z \in U : w[z] \in Int
        OBVIOUS
      <4> HIDE DEF U
      <4> QED
        BY <3>4, <4>1, TotalAdd
    <3>7. Total(v, back(T)) = Total(v, back(U)) + v[y]
      <4> DEFINE B == back(U)
      <4>1. \A z \in B : v[z] \in Int
        BY <1>1
      <4>2. v[y] \in Int /\ IsFiniteSet(B) /\ y \notin B /\ back(T) = B \cup {y}
        BY <3>2, <3>3
      <4> HIDE DEF B
      <4>3. Total(v, B \cup {y}) = Total(v, B) + v[y]
        BY <4>1, <4>2, TotalAdd
      <4> QED
        BY <4>2, <4>3 DEF B
    <3> QED
      BY <3>2, <3>3, <3>5, <3>6, <3>7
  <2> QED
    BY <2>1, <2>2
<1>3. S \in P
  <2> HIDE DEF P
  <2> QED
    BY <1>2, FiniteSubsets
<1>4. back(S) = R
  BY <1>1
<1> QED
  BY <1>3, <1>4

LEMMA TotalEqual ==
  ASSUME NEW S, IsFiniteSet(S), NEW w, NEW v, \A x \in S : w[x] \in Int /\ v[x] = w[x]
  PROVE  Total(v, S) = Total(w, S)
<1> DEFINE id == [x \in S |-> x]
<1>1. id \in Bijection(S, S) /\ \A x \in S : v[x] = w[id[x]]
  BY DEF Bijection, Injection, Surjection, IsInjective
<1> HIDE DEF id
<1>2. \A x \in S : w[x] \in Int
  OBVIOUS
<1> QED
  BY <1>1, <1>2, TotalMoved

LEMMA TotalNat ==
  ASSUME NEW S, IsFiniteSet(S), NEW w, \A x \in S : w[x] \in Nat
  PROVE  Total(w, S) \in Nat
<1> DEFINE P == {T \in SUBSET S : Total(w, T) \in Nat}
<1>1. ASSUME NEW T \in SUBSET S, \A U \in SUBSET T : U # T => U \in P PROVE T \in P
  <2>1. CASE T = {}
    BY <2>1, TotalEmpty
  <2>2. CASE T # {}
    <3>1. PICK x \in T : TRUE
      BY <2>2
    <3>2. T \ {x} \in P
      BY <1>1
    <3>3. IsFiniteSet(T) /\ (\A y \in T : w[y] \in Int)
      BY FS_Subset
    <3>4. Total(w, T) = w[x] + Total(w, T \ {x})
      BY <3>3, TotalTake
    <3> QED
      BY <3>2, <3>4
  <2> QED
    BY <2>1, <2>2
<1>2. S \in P
  <2> HIDE DEF P
  <2> QED
    BY <1>1, FiniteSubsets
<1> QED
  BY <1>2

LEMMA TotalTimes ==
  ASSUME NEW S, IsFiniteSet(S), NEW c \in Int, NEW w, NEW v,
         \A x \in S : w[x] \in Int /\ v[x] = c * w[x]
  PROVE  Total(v, S) = c * Total(w, S)
<1> DEFINE P == {T \in SUBSET S : Total(v, T) = c * Total(w, T)}
<1>1. ASSUME NEW T \in SUBSET S, \A U \in SUBSET T : U # T => U \in P PROVE T \in P
  <2>1. CASE T = {}
    <3>1. Total(v, {}) = 0 /\ Total(w, {}) = 0
      BY TotalEmpty
    <3> QED
      BY <2>1, <3>1
  <2>2. CASE T # {}
    <3>1. PICK x \in T : TRUE
      BY <2>2
    <3>2. T \ {x} \in P
      BY <1>1
    <3>3. IsFiniteSet(T) /\ (\A y \in T : w[y] \in Int /\ v[y] \in Int)
      BY FS_Subset
    <3>4. Total(w, T) = w[x] + Total(w, T \ {x}) /\ Total(v, T) = v[x] + Total(v, T \ {x})
      BY <3>3, TotalTake
    <3>5. Total(w, T \ {x}) \in Int
      BY <3>3, FS_Subset, TotalType
    <3> DEFINE a == w[x]
               b == Total(w, T \ {x})
    <3>6. a \in Int /\ b \in Int /\ v[x] = c * a /\ Total(v, T \ {x}) = c * b
      BY <3>2, <3>3, <3>5
    <3> HIDE DEF a, b
    <3>7. c * a + c * b = c * (a + b)
      BY <3>6
    <3> QED
      BY <3>4, <3>6, <3>7 DEF a, b
  <2> QED
    BY <2>1, <2>2
<1>2. S \in P
  <2> HIDE DEF P
  <2> QED
    BY <1>1, FiniteSubsets
<1> QED
  BY <1>2

LEMMA TotalUnion ==
  ASSUME NEW S, NEW T, IsFiniteSet(S), IsFiniteSet(T), S \cap T = {},
         NEW w, \A x \in S \cup T : w[x] \in Int
  PROVE  Total(w, S \cup T) = Total(w, S) + Total(w, T)
<1> DEFINE P == {U \in SUBSET T : Total(w, S \cup U) = Total(w, S) + Total(w, U)}
<1>0. Total(w, S) \in Int
  BY TotalType
<1>1. ASSUME NEW U \in SUBSET T, \A V \in SUBSET U : V # U => V \in P PROVE U \in P
  <2>1. CASE U = {}
    <3>1. S \cup U = S
      BY <2>1
    <3> QED
      BY <1>0, <2>1, <3>1, TotalEmpty
  <2>2. CASE U # {}
    <3>1. PICK x \in U : TRUE
      BY <2>2
    <3> DEFINE V == U \ {x}
    <3>2. V \in P
      BY <1>1
    <3>3. /\ IsFiniteSet(U) /\ IsFiniteSet(V) /\ (\A y \in U : w[y] \in Int) /\ \A y \in V : w[y] \in Int
      BY FS_Subset
    <3>4. Total(w, U) = w[x] + Total(w, V)
      BY <3>3, TotalTake
    <3>5. Total(w, S \cup U) = w[x] + Total(w, S \cup V)
      <4> DEFINE A == S \cup U
      <4>1. IsFiniteSet(A) /\ x \in A /\ (\A y \in A : w[y] \in Int) /\ A \ {x} = S \cup V
        BY <3>3, FS_Union
      <4> HIDE DEF A
      <4>2. Total(w, A) = w[x] + Total(w, A \ {x})
        BY <4>1, TotalTake
      <4> QED
        BY <4>1, <4>2 DEF A
    <3>6. Total(w, V) \in Int /\ w[x] \in Int
      BY <3>3, TotalType
    <3> HIDE DEF V
    <3> QED
      BY <1>0, <3>2, <3>4, <3>5, <3>6
  <2> QED
    BY <2>1, <2>2
<1>2. T \in P
  <2> HIDE DEF P
  <2> QED
    BY <1>1, FiniteSubsets
<1> QED
  BY <1>2

LEMMA TotalMonotone ==
  ASSUME NEW S, IsFiniteSet(S), NEW R \in SUBSET S, NEW w, \A x \in S : w[x] \in Nat
  PROVE  Total(w, R) <= Total(w, S)
<1>1. IsFiniteSet(R) /\ IsFiniteSet(S \ R)
  BY FS_Subset
<1>2. Total(w, R) \in Nat /\ Total(w, S \ R) \in Nat
  BY <1>1, TotalNat
<1>3. Total(w, R \cup (S \ R)) = Total(w, R) + Total(w, S \ R)
  <2> DEFINE Q == S \ R
  <2>1. R \cap Q = {} /\ (\A x \in R \cup Q : w[x] \in Int) /\ IsFiniteSet(Q)
    BY <1>1
  <2> HIDE DEF Q
  <2>2. Total(w, R \cup Q) = Total(w, R) + Total(w, Q)
    BY <1>1, <2>1, TotalUnion
  <2> QED
    BY <2>2 DEF Q
<1>4. R \cup (S \ R) = S
  OBVIOUS
<1>5. Total(w, S) = Total(w, R) + Total(w, S \ R)
  BY <1>3, <1>4
<1> HIDE DEF Total
<1> QED
  BY <1>2, <1>5

\* A sum of natural numbers is zero if each of them is.
LEMMA TotalZero ==
  ASSUME NEW S, IsFiniteSet(S), NEW w, \A x \in S : w[x] \in Nat
  PROVE  Total(w, S) = 0 <=> \A x \in S : w[x] = 0
<1>1. ASSUME Total(w, S) = 0, NEW x \in S PROVE w[x] = 0
  <2>1. Total(w, S) = w[x] + Total(w, S \ {x})
    BY TotalTake
  <2>2. Total(w, S \ {x}) \in Nat
    <3>1. IsFiniteSet(S \ {x}) /\ \A y \in S \ {x} : w[y] \in Nat
      BY FS_Subset
    <3> QED
      BY <3>1, TotalNat
  <2> QED
    BY <1>1, <2>1, <2>2
<1>2. ASSUME \A x \in S : w[x] = 0 PROVE Total(w, S) = 0
  <2> DEFINE P == {T \in SUBSET S : Total(w, T) = 0}
  <2>1. ASSUME NEW T \in SUBSET S, \A U \in SUBSET T : U # T => U \in P PROVE T \in P
    <3>1. CASE T = {}
      BY <3>1, TotalEmpty
    <3>2. CASE T # {}
      <4>1. PICK x \in T : TRUE
        BY <3>2
      <4>2. IsFiniteSet(T) /\ \A y \in T : w[y] \in Int
        BY FS_Subset
      <4>3. Total(w, T) = w[x] + Total(w, T \ {x})
        BY <4>2, TotalTake
      <4>4. T \ {x} \in P
        BY <2>1
      <4> QED
        BY <1>2, <4>3, <4>4
    <3> QED
      BY <3>1, <3>2
  <2>2. \A T \in SUBSET S : T \in P
    <3> HIDE DEF P
    <3> QED
      BY <2>1, FiniteSubsets
  <2> QED
    BY <2>2
<1> QED
  BY <1>1, <1>2

\* A sum in groups: of what g sends to each of P.
LEMMA TotalGroups ==
  ASSUME NEW P, IsFiniteSet(P), NEW K, IsFiniteSet(K), NEW g \in [K -> P],
         NEW w, \A k \in K : w[k] \in Int,
         NEW v, \A p \in P : v[p] = Total(w, {k \in K : g[k] = p})
  PROVE  Total(v, P) = Total(w, K)
<1> DEFINE back(T) == {k \in K : g[k] \in T}
           Q == {T \in SUBSET P : Total(v, T) = Total(w, back(T))}
<1>1. \A T : IsFiniteSet(back(T))
  BY FS_Subset
<1>2. \A p \in P : v[p] \in Int
  <2> SUFFICES ASSUME NEW p \in P PROVE v[p] \in Int
    OBVIOUS
  <2> DEFINE G == {k \in K : g[k] = p}
  <2>1. IsFiniteSet(G) /\ \A k \in G : w[k] \in Int
    BY FS_Subset
  <2> HIDE DEF G
  <2>2. Total(w, G) \in Int
    BY <2>1, TotalType
  <2> QED
    BY <2>2 DEF G
<1>3. ASSUME NEW T \in SUBSET P, \A U \in SUBSET T : U # T => U \in Q PROVE T \in Q
  <2>1. CASE T = {}
    <3>1. back(T) = {}
      BY <2>1
    <3> QED
      BY <2>1, <3>1, TotalEmpty
  <2>2. CASE T # {}
    <3>1. PICK p \in T : TRUE
      BY <2>2
    <3> DEFINE U == T \ {p}
               A == back(U)
               B == {k \in K : g[k] = p}
    <3>2. U \in Q
      BY <1>3
    <3>3. IsFiniteSet(T) /\ \A x \in T : v[x] \in Int
      BY <1>2, FS_Subset
    <3>4. Total(v, T) = v[p] + Total(v, U)
      BY <3>3, TotalTake
    <3>5. A \cap B = {} /\ back(T) = A \cup B
      OBVIOUS
    <3>6. IsFiniteSet(A) /\ IsFiniteSet(B) /\ \A k \in A \cup B : w[k] \in Int
      BY FS_Subset
    <3>7. Total(w, back(T)) = Total(w, A) + Total(w, B)
      <4> DEFINE C == back(T)
      <4>1. C = A \cup B
        BY <3>5
      <4> HIDE DEF A, B, C
      <4> QED
        BY <3>5, <3>6, <4>1, TotalUnion
    <3>8. Total(w, A) \in Int /\ Total(w, B) \in Int
      <4> HIDE DEF A, B
      <4> QED
        BY <3>6, TotalType
    <3>9. v[p] = Total(w, B) /\ Total(v, U) = Total(w, A)
      BY <3>1, <3>2
    <3> HIDE DEF A, B, U
    <3>10. Total(v, T) = Total(w, back(T))
      BY <3>4, <3>7, <3>8, <3>9
    <3> QED
      BY <3>10
  <2> QED
    BY <2>1, <2>2
<1>4. P \in Q
  <2> HIDE DEF Q
  <2> QED
    BY <1>3, FiniteSubsets
<1>5. back(P) = K
  OBVIOUS
<1> QED
  BY <1>4, <1>5

-----------------------------------------------------------------------------
(* A sequence folded from the left *)

Fold(s) == FoldLeft(Op, Base, s)

Greatest(S) == CHOOSE n \in S : \A m \in S : n >= m

\* f folds the elements of s that have their places in a set.
Folds(f, s) ==
  f = [T \in SUBSET DOMAIN s |->
         IF T = {} THEN Base ELSE Op(f[T \ {Greatest(T)}], s[Greatest(T)])]

LEMMA GreatestIsIn ==
  ASSUME NEW n \in Nat, NEW T \in SUBSET (1 .. n), T # {}
  PROVE  Greatest(T) \in T /\ \A m \in T : Greatest(T) >= m
<1> DEFINE N == {k \in Nat : \A U \in SUBSET (1 .. k) : U # {} => \E x \in U : \A m \in U : x >= m}
<1>1. 0 \in N
  <2>1. 1 .. 0 = {}
    OBVIOUS
  <2>2. \A U \in SUBSET (1 .. 0) : U = {}
    BY <2>1
  <2> QED
    BY <2>2
<1>2. ASSUME NEW k \in N PROVE k + 1 \in N
  <2> SUFFICES ASSUME NEW U \in SUBSET (1 .. k + 1), U # {} PROVE \E x \in U : \A m \in U : x >= m
    OBVIOUS
  <2>1. CASE k + 1 \in U
    BY <2>1
  <2>2. CASE k + 1 \notin U
    <3>1. U \in SUBSET (1 .. k)
      BY <2>2
    <3> QED
      BY <3>1
  <2> QED
    BY <2>1, <2>2
<1>3. n \in N
  <2>1. N \in SUBSET Nat
    OBVIOUS
  <2> HIDE DEF N
  <2> QED
    BY <1>1, <1>2, <2>1, NatSets
<1>4. \E x \in T : \A m \in T : x >= m
  BY <1>3
<1> QED
  BY <1>4 DEF Greatest

LEMMA FoldsExist == ASSUME NEW X, NEW s \in Seq(X) PROVE \E f : Folds(f, s)
<1> DEFINE S == DOMAIN s
           step(f, T) == IF T = {} THEN Base ELSE Op(f[T \ {Greatest(T)}], s[Greatest(T)])
           N == {n \in Nat : \E f : \A T \in SUBSET S : Cardinality(T) < n => f[T] = step(f, T)}
<1>1. S = 1 .. Len(s) /\ Len(s) \in Nat /\ IsFiniteSet(S) /\ Cardinality(S) = Len(s)
  <2>1. S = 1 .. Len(s) /\ Len(s) \in Nat /\ Len(s) \in Int /\ 1 \in Int
    OBVIOUS
  <2>2. IsFiniteSet(1 .. Len(s)) /\ Cardinality(1 .. Len(s)) = IF 1 > Len(s) THEN 0 ELSE Len(s) - 1 + 1
    BY <2>1, FS_Interval
  <2> HIDE DEF S
  <2>3. Cardinality(1 .. Len(s)) = Len(s)
    BY <2>1, <2>2
  <2> QED
    BY <2>1, <2>2, <2>3
<1>2. \A T \in SUBSET S : T # {} => Greatest(T) \in T
  BY <1>1, GreatestIsIn
<1>3. \A T \in SUBSET S : IsFiniteSet(T) /\ Cardinality(T) \in Nat /\ Cardinality(T) <= Len(s)
  BY <1>1, FS_Subset, FS_CardinalityType
<1>4. 0 \in N
  <2>1. \A T \in SUBSET S : ~(Cardinality(T) < 0)
    BY <1>3
  <2> HIDE DEF step
  <2> QED
    BY <2>1
<1>5. ASSUME NEW n \in N PROVE n + 1 \in N
  <2>1. PICK f : \A T \in SUBSET S : Cardinality(T) < n => f[T] = step(f, T)
    OBVIOUS
  <2> DEFINE g == [T \in SUBSET S |-> step(f, T)]
  <2>2. ASSUME NEW T \in SUBSET S, Cardinality(T) < n + 1 PROVE g[T] = step(g, T)
    <3>1. CASE T = {}
      BY <3>1
    <3>2. CASE T # {}
      <4> DEFINE U == T \ {Greatest(T)}
      <4>1. Greatest(T) \in T /\ IsFiniteSet(T) /\ U \in SUBSET S
        BY <1>2, <1>3, <3>2
      <4>2. Cardinality(U) = Cardinality(T) - 1
        BY <4>1, FS_RemoveElement
      <4>3. Cardinality(U) < n
        BY <1>3, <2>2, <4>2
      <4>4. f[U] = step(f, U)
        BY <2>1, <4>1, <4>3
      <4> QED
        BY <3>2, <4>1, <4>4
    <3> QED
      BY <3>1, <3>2
  <2> HIDE DEF g, step
  <2> QED
    BY <2>2
<1>6. Len(s) + 1 \in N
  <2>1. N \in SUBSET Nat
    OBVIOUS
  <2> HIDE DEF N
  <2> QED
    BY <1>1, <1>4, <1>5, <2>1, NatSets
<1>7. PICK f : \A T \in SUBSET S : Cardinality(T) < Len(s) + 1 => f[T] = step(f, T)
  BY <1>6
<1> DEFINE g == [T \in SUBSET S |-> step(f, T)]
<1>8. \A T \in SUBSET S : f[T] = step(f, T)
  <2> SUFFICES ASSUME NEW T \in SUBSET S PROVE f[T] = step(f, T)
    OBVIOUS
  <2>1. Cardinality(T) < Len(s) + 1
    BY <1>1, <1>3
  <2> QED
    BY <1>7, <2>1
<1>9. g = [T \in SUBSET S |-> step(g, T)]
  <2>1. ASSUME NEW T \in SUBSET S PROVE g[T] = step(g, T)
    BY <1>2, <1>8
  <2> QED
    BY <2>1
<1> QED
  BY <1>9 DEF Folds

LEMMA FoldIsFolds ==
  ASSUME NEW X, NEW s \in Seq(X) PROVE \E f : Folds(f, s) /\ Fold(s) = f[DOMAIN s]
<1> DEFINE iter == CHOOSE h : h = [T \in SUBSET DOMAIN s |->
                IF T = {} THEN Base ELSE Op(h[T \ {Greatest(T)}], s[Greatest(T)])]
<1>1. Fold(s) = iter[DOMAIN s]
  BY DEF Fold, FoldLeft, MapThenFoldSet, Max, Greatest
<1>2. Folds(iter, s)
  BY FoldsExist DEF Folds
<1> QED
  BY <1>1, <1>2

\* Folds of sequences that begin alike are alike.
LEMMA FoldsUnique ==
  ASSUME NEW n \in Nat, NEW s, NEW t, 1 .. n \subseteq DOMAIN s, 1 .. n \subseteq DOMAIN t,
         \A k \in 1 .. n : s[k] = t[k], NEW f, NEW g, Folds(f, s), Folds(g, t)
  PROVE  f[1 .. n] = g[1 .. n]
<1> DEFINE I == 1 .. n
           P == {T \in SUBSET I : f[T] = g[T]}
<1>1. ASSUME NEW T \in SUBSET I, \A U \in SUBSET T : U # T => U \in P PROVE T \in P
  <2>1. CASE T = {}
    BY <2>1 DEF Folds
  <2>2. CASE T # {}
    <3> DEFINE c == Greatest(T)
    <3>1. c \in T
      BY <2>2, GreatestIsIn
    <3>2. T \ {c} \in P
      BY <1>1, <3>1
    <3>3. T \in SUBSET DOMAIN s /\ T \in SUBSET DOMAIN t
      OBVIOUS
    <3>4. f[T] = Op(f[T \ {c}], s[c]) /\ g[T] = Op(g[T \ {c}], t[c])
      BY <2>2, <3>3 DEF Folds
    <3> QED
      BY <3>1, <3>2, <3>4
  <2> QED
    BY <2>1, <2>2
<1>2. I \in P
  <2>1. IsFiniteSet(I)
    BY FS_Interval
  <2> HIDE DEF P, I
  <2> QED
    BY <1>1, <2>1, FiniteSubsets
<1> QED
  BY <1>2

LEMMA FoldEmpty == Fold(<< >>) = Base
<1>1. << >> \in Seq({})
  OBVIOUS
<1>2. PICK f : Folds(f, << >>) /\ Fold(<< >>) = f[DOMAIN << >>]
  BY <1>1, FoldIsFolds
<1> QED
  BY <1>2 DEF Folds

LEMMA FoldAppend ==
  ASSUME NEW Y, NEW s \in Seq(Y), NEW x
  PROVE  Fold(Append(s, x)) = Op(Fold(s), x)
<1> DEFINE t == Append(s, x)
           n == Len(s)
<1> DEFINE X == Y \cup {x}
<1>0. s \in Seq(X) /\ x \in X
  <2>1. Y \subseteq X
    OBVIOUS
  <2>2. \A i \in 1 .. Len(s) : s[i] \in Y
    OBVIOUS
  <2>3. \A i \in 1 .. Len(s) : s[i] \in X
    BY <2>1, <2>2
  <2> QED
    BY <2>3
<1> HIDE DEF X
<1>1. t \in Seq(X) /\ n \in Nat /\ DOMAIN s = 1 .. n /\ DOMAIN t = 1 .. n + 1 /\ t[n + 1] = x
      /\ \A k \in 1 .. n : s[k] = t[k]
  BY <1>0
<1>2. PICK f : Folds(f, s) /\ Fold(s) = f[DOMAIN s]
  BY <1>0, FoldIsFolds
<1>3. PICK g : Folds(g, t) /\ Fold(t) = g[DOMAIN t]
  BY <1>1, FoldIsFolds
<1> HIDE DEF t, n
<1>4. f[1 .. n] = g[1 .. n]
  BY <1>1, <1>2, <1>3, FoldsUnique
<1> DEFINE I == 1 .. n + 1
<1>5. Greatest(I) = n + 1
  <2>1. n + 1 \in Nat /\ I \in SUBSET (1 .. n + 1) /\ n + 1 \in I
    BY <1>1
  <2>2. Greatest(I) \in I /\ \A m \in I : Greatest(I) >= m
    <3> HIDE DEF I
    <3> QED
      BY <2>1, GreatestIsIn
  <2> QED
    BY <1>1, <2>1, <2>2
<1>6. I \ {n + 1} = 1 .. n /\ I # {}
  <2>1. n \in Nat
    BY <1>1
  <2>2. \A k : k \in I /\ k # n + 1 <=> k \in 1 .. n
    BY <2>1
  <2>3. n + 1 \in I
    BY <2>1
  <2> QED
    BY <2>2, <2>3
<1>7. g[I] = Op(g[1 .. n], x)
  <2>1. I \in SUBSET DOMAIN t
    BY <1>1
  <2> HIDE DEF I
  <2>2. g[I] = Op(g[I \ {Greatest(I)}], t[Greatest(I)])
    BY <1>3, <1>6, <2>1 DEF Folds
  <2> QED
    BY <1>1, <1>5, <1>6, <2>2
<1> QED
  BY <1>1, <1>2, <1>3, <1>4, <1>7 DEF t

\* What every step keeps, the fold has.
LEMMA FoldKeeps ==
  ASSUME NEW X, NEW s \in Seq(X), NEW A, Base \in A, \A a \in A, x \in X : Op(a, x) \in A
  PROVE  Fold(s) \in A
<1> DEFINE N == {n \in Nat : \A t \in Seq(X) : Len(t) = n => Fold(t) \in A}
<1>1. 0 \in N
  <2>1. \A t \in Seq(X) : Len(t) = 0 => t = << >>
    OBVIOUS
  <2> QED
    BY <2>1, FoldEmpty
<1>2. ASSUME NEW n \in N PROVE n + 1 \in N
  <2> SUFFICES ASSUME NEW t \in Seq(X), Len(t) = n + 1 PROVE Fold(t) \in A
    OBVIOUS
  <2> DEFINE u == SubSeq(t, 1, n)
             x == t[n + 1]
  <2>1. u \in Seq(X) /\ Len(u) = n /\ x \in X /\ t = Append(u, x)
    OBVIOUS
  <2> HIDE DEF u, x
  <2>2. Fold(u) \in A /\ Fold(Append(u, x)) = Op(Fold(u), x)
    BY <2>1, FoldAppend
  <2> QED
    BY <2>1, <2>2
<1>3. Len(s) \in N
  <2>1. N \in SUBSET Nat /\ Len(s) \in Nat
    OBVIOUS
  <2> HIDE DEF N
  <2> QED
    BY <1>1, <1>2, <2>1, NatSets
<1> QED
  BY <1>3

-----------------------------------------------------------------------------
(* Recursive functions on an initial segment of the natural numbers *)

Loop(f, a, n, base, step) ==
  f = [k \in a .. n |-> IF k = a THEN base ELSE step[<<k, f[k - 1]>>]]

LEMMA Recursion ==
  ASSUME NEW a \in Nat, NEW n \in Nat, a <= n, NEW A, NEW base \in A, NEW step \in [Nat \X A -> A]
  PROVE  \E f \in [a .. n -> A] : Loop(f, a, n, base, step)
<1> DEFINE N == {m \in Nat : \E f \in [a .. a + m -> A] :
                   \A k \in a .. a + m : f[k] = IF k = a THEN base ELSE step[<<k, f[k - 1]>>]}
<1>1. 0 \in N
  <2> DEFINE f == [k \in a .. a + 0 |-> base]
  <2>1. f \in [a .. a + 0 -> A] /\ \A k \in a .. a + 0 : k = a /\ f[k] = base
    OBVIOUS
  <2> HIDE DEF f
  <2> QED
    BY <2>1
<1>2. ASSUME NEW m \in N PROVE m + 1 \in N
  <2>1. m \in Nat
    OBVIOUS
  <2>2. PICK f \in [a .. a + m -> A] :
          \A k \in a .. a + m : f[k] = IF k = a THEN base ELSE step[<<k, f[k - 1]>>]
    OBVIOUS
  <2> DEFINE last == step[<<a + m + 1, f[a + m]>>]
             g == [k \in a .. a + (m + 1) |-> IF k = a + m + 1 THEN last ELSE f[k]]
  <2>3. a + m \in a .. a + m /\ f[a + m] \in A /\ <<a + m + 1, f[a + m]>> \in Nat \X A
    BY <2>1, <2>2
  <2>4. last \in A
    BY <2>3
  <2>5. \A k \in a .. a + (m + 1) : k # a + m + 1 => k \in a .. a + m
    BY <2>1
  <2>6. g \in [a .. a + (m + 1) -> A]
    <3> HIDE DEF last
    <3> QED
      BY <2>4, <2>5
  <2>7. ASSUME NEW k \in a .. a + (m + 1)
        PROVE  g[k] = IF k = a THEN base ELSE step[<<k, g[k - 1]>>]
    <3>1. CASE k = a + m + 1
      <4>1. k # a /\ k - 1 = a + m /\ a + m \in a .. a + (m + 1) /\ a + m # a + m + 1
        BY <2>1, <3>1
      <4>2. g[k - 1] = f[a + m] /\ g[k] = last
        BY <3>1, <4>1
      <4> QED
        BY <3>1, <4>1, <4>2
    <3>2. CASE k # a + m + 1
      <4>1. k \in a .. a + m /\ g[k] = f[k]
        BY <2>5, <3>2
      <4>2. k # a => g[k - 1] = f[k - 1]
        BY <2>1, <3>2
      <4> QED
        BY <2>2, <4>1, <4>2
    <3> QED
      BY <3>1, <3>2
  <2> HIDE DEF g
  <2> QED
    BY <2>1, <2>6, <2>7
<1>3. n - a \in N
  <2>1. N \in SUBSET Nat /\ n - a \in Nat
    OBVIOUS
  <2> HIDE DEF N
  <2> QED
    BY <1>1, <1>2, <2>1, NatSets
<1>4. PICK f \in [a .. n -> A] :
        \A k \in a .. n : f[k] = IF k = a THEN base ELSE step[<<k, f[k - 1]>>]
  <2>1. a + (n - a) = n
    OBVIOUS
  <2> QED
    BY <1>3, <2>1
<1>5. Loop(f, a, n, base, step)
  BY <1>4 DEF Loop
<1> QED
  BY <1>5

Rows(X, m) == {t \in Seq(X) : Len(t) = m}

\* Sequences of the same length, one after the other.
LEMMA FlattenRows ==
  ASSUME NEW X, NEW m \in Nat, NEW ss \in Seq(Rows(X, m))
  PROVE  /\ FlattenSeq(ss) \in Seq(X) /\ Len(FlattenSeq(ss)) = Len(ss) * m
         /\ \A i \in 1 .. Len(ss), j \in 1 .. m : FlattenSeq(ss)[(i - 1) * m + j] = ss[i][j]
<1>0. ss \in Seq(Seq(X)) /\ \A i \in DOMAIN ss : Len(ss[i]) = m
  <2>1. Rows(X, m) \subseteq Seq(X)
    BY DEF Rows
  <2>2. \A i \in DOMAIN ss : ss[i] \in Rows(X, m)
    OBVIOUS
  <2>3. \A i \in 1 .. Len(ss) : ss[i] \in Seq(X)
    BY <2>1, <2>2
  <2>4. \A i \in DOMAIN ss : Len(ss[i]) = m
    BY <2>2 DEF Rows
  <2> QED
    BY <2>3, <2>4
<1>1. CASE Len(ss) = 0
  <2>1. FlattenSeq(ss) = ss /\ ss = << >>
    BY <1>1 DEF FlattenSeq
  <2>2. Len(ss) * m = 0
    BY <1>1
  <2> QED
    BY <2>1, <2>2
<1>2. CASE Len(ss) # 0
  <2> DEFINE n == Len(ss)
             step == [p \in Nat \X Seq(X) |-> IF p[1] \in 1 .. n THEN p[2] \o ss[p[1]] ELSE p[2]]
             flatten == CHOOSE f : f = [i \in 1 .. n |-> IF i = 1 THEN ss[i] ELSE f[i - 1] \o ss[i]]
             N == {k \in Nat : k + 1 \in 1 .. n =>
                     /\ flatten[k + 1] \in Seq(X) /\ Len(flatten[k + 1]) = (k + 1) * m
                     /\ \A i \in 1 .. k + 1, j \in 1 .. m : flatten[k + 1][(i - 1) * m + j] = ss[i][j]}
  <2>1. n \in Nat /\ 1 <= n /\ DOMAIN ss = 1 .. n /\ \A i \in 1 .. n : ss[i] \in Seq(X)
    BY <1>0, <1>2
  <2>2. step \in [Nat \X Seq(X) -> Seq(X)]
    BY <2>1
  <2>3. PICK f \in [1 .. n -> Seq(X)] :
          f = [i \in 1 .. n |-> IF i = 1 THEN ss[1] ELSE step[<<i, f[i - 1]>>]]
    <3> DEFINE B == Seq(X)
               first == ss[1]
    <3>1. first \in B /\ 1 \in Nat /\ step \in [Nat \X B -> B]
      BY <2>1, <2>2
    <3> HIDE DEF step, n, B, first
    <3>2. \E f \in [1 .. n -> B] : Loop(f, 1, n, first, step)
      BY <2>1, <3>1, Recursion
    <3> QED
      BY <3>2 DEF B, first, Loop
  <2>4. f = [i \in 1 .. n |-> IF i = 1 THEN ss[i] ELSE f[i - 1] \o ss[i]]
    <3>1. ASSUME NEW i \in 1 .. n PROVE f[i] = IF i = 1 THEN ss[i] ELSE f[i - 1] \o ss[i]
      <4>1. i # 1 => i - 1 \in 1 .. n /\ i \in Nat
        BY <2>1
      <4>2. i # 1 => <<i, f[i - 1]>> \in Nat \X Seq(X)
        BY <4>1
      <4>3. i # 1 => step[<<i, f[i - 1]>>] = f[i - 1] \o ss[i]
        BY <4>2
      <4> HIDE DEF step
      <4> QED
        BY <2>3, <4>3
    <3>2. f = [i \in 1 .. n |-> f[i]]
      OBVIOUS
    <3> QED
      BY <3>1, <3>2
  <2>5. flatten = [i \in 1 .. n |-> IF i = 1 THEN ss[i] ELSE flatten[i - 1] \o ss[i]]
    BY <2>4
  <2>6. FlattenSeq(ss) = flatten[n]
    BY <1>2 DEF FlattenSeq
  <2> HIDE DEF flatten, step
  <2>7. 0 \in N
    <3>1. flatten[1] = ss[1] /\ Len(ss[1]) = m /\ ss[1] \in Seq(X)
      <4>1. 1 \in 1 .. n /\ 1 \in DOMAIN ss
        BY <2>1
      <4>2. flatten[1] = ss[1]
        BY <2>5, <4>1
      <4> QED
        BY <1>0, <4>1, <4>2
    <3>2. \A i \in 1 .. 1, j \in 1 .. m : (i - 1) * m + j = j /\ i = 1
      OBVIOUS
    <3>3. 1 * m = m
      OBVIOUS
    <3> QED
      BY <3>1, <3>2, <3>3
  <2>8. ASSUME NEW k \in N PROVE k + 1 \in N
    <3> SUFFICES ASSUME k + 2 \in 1 .. n
                 PROVE  /\ flatten[k + 2] \in Seq(X) /\ Len(flatten[k + 2]) = (k + 2) * m
                        /\ \A i \in 1 .. k + 2, j \in 1 .. m : flatten[k + 2][(i - 1) * m + j] = ss[i][j]
      OBVIOUS
    <3> DEFINE c == (k + 1) * m
               a == flatten[k + 1]
               b == ss[k + 2]
    <3>1. k \in Nat /\ k + 1 \in 1 .. n
      BY <2>1
    <3>2. a \in Seq(X) /\ Len(a) = c /\ c \in Nat
          /\ \A i \in 1 .. k + 1, j \in 1 .. m : a[(i - 1) * m + j] = ss[i][j]
      BY <3>1
    <3>3. flatten[k + 2] = a \o b /\ b \in Seq(X) /\ Len(b) = m
      <4>1. k + 2 # 1 /\ (k + 2) - 1 = k + 1
        BY <3>1
      <4>2. flatten[k + 2] = flatten[(k + 2) - 1] \o ss[k + 2]
        BY <2>5, <4>1
      <4>3. ss[k + 2] \in Seq(X) /\ Len(ss[k + 2]) = m
        BY <1>0, <2>1
      <4> QED
        BY <4>1, <4>2, <4>3
    <3>4. (k + 2) * m = c + m
      BY <3>1
    <3>5. \A i \in 1 .. k + 1 : (i - 1) * m \in Nat /\ (i - 1) * m + m <= c
      <4> SUFFICES ASSUME NEW i \in 1 .. k + 1 PROVE (i - 1) * m \in Nat /\ (i - 1) * m + m <= c
        OBVIOUS
      <4> DEFINE d == k + 1 - i
      <4>1. d \in Nat /\ i - 1 \in Nat /\ k + 1 = d + (i - 1) + 1
        BY <3>1
      <4>2. d * m \in Nat /\ (i - 1) * m \in Nat
        BY <4>1
      <4>3. c = d * m + (i - 1) * m + m
        BY <4>1
      <4> QED
        BY <4>2, <4>3
    <3> HIDE DEF a, b, c, n, N
    <3>6. a \o b \in Seq(X) /\ Len(a \o b) = c + m
          /\ (\A x \in 1 .. c : (a \o b)[x] = a[x]) /\ \A x \in 1 .. m : (a \o b)[c + x] = b[x]
      <4>1. a \in Seq(X) /\ b \in Seq(X) /\ Len(a) = c /\ Len(b) = m /\ c \in Nat
        BY <3>2, <3>3
      <4>2. /\ a \o b \in Seq(X) /\ Len(a \o b) = c + m
            /\ \A x \in 1 .. c + m : (a \o b)[x] = IF x <= c THEN a[x] ELSE b[x - c]
        BY <4>1, ConcatProperties
      <4>3. \A x \in 1 .. c : x \in 1 .. c + m /\ x <= c
        BY <4>1
      <4>4. \A x \in 1 .. m : c + x \in 1 .. c + m /\ ~(c + x <= c) /\ (c + x) - c = x
        BY <4>1
      <4> QED
        BY <4>2, <4>3, <4>4
    <3>7. ASSUME NEW i \in 1 .. k + 2, NEW j \in 1 .. m
          PROVE  (a \o b)[(i - 1) * m + j] = ss[i][j]
      <4>1. CASE i = k + 2
        <5>1. (i - 1) * m = c
          BY <3>1, <4>1 DEF c
        <5> QED
          BY <3>6, <4>1, <5>1 DEF b
      <4>2. CASE i # k + 2
        <5>1. i \in 1 .. k + 1
          BY <3>1, <4>2
        <5> DEFINE p == (i - 1) * m
        <5>2. p \in Nat /\ p + m <= c
          BY <3>5, <5>1
        <5> HIDE DEF p
        <5>3. p + j \in 1 .. c
          BY <3>2, <5>2
        <5>4. (a \o b)[p + j] = a[p + j]
          BY <3>6, <5>3
        <5> QED
          BY <3>2, <5>1, <5>4 DEF p
      <4> QED
        BY <4>1, <4>2
    <3>8. Len(flatten[k + 2]) = (k + 2) * m /\ flatten[k + 2] \in Seq(X)
      BY <3>3, <3>4, <3>6
    <3>9. \A i \in 1 .. k + 2, j \in 1 .. m : flatten[k + 2][(i - 1) * m + j] = ss[i][j]
      BY <3>3, <3>7
    <3> QED
      BY <3>8, <3>9
  <2>9. n - 1 \in N
    <3>1. N \in SUBSET Nat /\ n - 1 \in Nat
      BY <2>1
    <3> HIDE DEF N, n
    <3> QED
      BY <2>7, <2>8, <3>1, NatSets
  <2>10. n - 1 \in Nat /\ (n - 1) + 1 = n /\ n \in 1 .. n
    BY <2>1
  <2> HIDE DEF n
  <2>11. /\ flatten[n] \in Seq(X) /\ Len(flatten[n]) = n * m
         /\ \A i \in 1 .. n, j \in 1 .. m : flatten[n][(i - 1) * m + j] = ss[i][j]
    BY <2>9, <2>10
  <2> QED
    BY <2>6, <2>11 DEF n
<1> QED
  BY <1>1, <1>2
===============================================================================
