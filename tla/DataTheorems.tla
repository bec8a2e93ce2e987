---------------------------- MODULE DataTheorems ----------------------------
(****************************************************************************)
(* Induction over numbers and over finite sets, stated for sets instead of  *)
(* for predicates, and with it what the sums of the community module        *)
(* Functions compute: SumFunction is a recursive function on the subsets of *)
(* a finite set, and its recursion has exactly one solution.                *)
(****************************************************************************)
EXTENDS Integers, Functions, FiniteSets, FiniteSetTheorems, WellFoundedInduction, TLAPS

(* A set of numbers that is not empty has a least element. *)
LEMMA NatLeast ==
    ASSUME NEW T, T \subseteq Nat, T # {}
    PROVE  \E x \in T : \A y \in T : x <= y
<1> DEFINE R == OpToRel(<, Nat)
<1>1. IsWellFoundedOn(R, Nat)
  BY NatLessThanWellFounded
<1>2. \A x, y \in Nat : y < x => <<y, x>> \in R
  BY DEF OpToRel
<1> HIDE DEF R
<1>3. PICK x \in T : \A y \in T : ~ (<<y, x>> \in R)
  BY <1>1, WFMin
<1>4. ASSUME NEW y \in T PROVE x <= y
  <2>1. x \in Nat /\ y \in Nat
    OBVIOUS
  <2>2. ~(y < x)
    BY <1>2, <1>3, <2>1
  <2> QED BY <2>1, <2>2
<1> QED BY <1>4

(* Induction over the numbers, for a set. *)
LEMMA Induction ==
    ASSUME NEW T, T \subseteq Nat, 0 \in T, \A n \in T : n + 1 \in T
    PROVE  T = Nat
<1> DEFINE U == Nat \ T
<1>1. SUFFICES ASSUME U # {} PROVE FALSE
  OBVIOUS
<1>2. PICK x \in U : \A y \in U : x <= y
  BY <1>1, NatLeast
<1>3. x # 0 /\ x - 1 \in Nat
  BY <1>2
<1>4. x - 1 \in T
  BY <1>2, <1>3
<1> QED BY <1>2, <1>4

(* Induction over the subsets of a finite set, for a family of sets. *)
LEMMA FiniteInduction ==
    ASSUME NEW S, IsFiniteSet(S), NEW F, {} \in F,
           \A T \in F : \A x \in S \ T : T \subseteq S => T \cup {x} \in F
    PROVE  S \in F
<1> DEFINE G == {n \in Nat : \A T \in SUBSET S : Cardinality(T) = n => T \in F}
<1>1. 0 \in G
  <2>1. \A T \in SUBSET S : Cardinality(T) = 0 => T = {}
    BY FS_Subset, FS_EmptySet
  <2> QED BY <2>1
<1>2. ASSUME NEW n \in G PROVE n + 1 \in G
  <2>1. SUFFICES ASSUME NEW T \in SUBSET S, Cardinality(T) = n + 1 PROVE T \in F
    OBVIOUS
  <2>2. IsFiniteSet(T) /\ n \in Nat
    BY FS_Subset
  <2>3. T # {}
    BY <2>1, <2>2, FS_EmptySet
  <2>4. PICK x : x \in T
    BY <2>3
  <2>5. IsFiniteSet(T \ {x}) /\ Cardinality(T \ {x}) = n
    <3>1. IsFiniteSet(T \ {x}) /\ Cardinality(T \ {x}) = Cardinality(T) - 1
      BY <2>2, <2>4, FS_RemoveElement
    <3> QED BY <2>1, <2>2, <3>1
  <2>6. T \ {x} \in F
    BY <2>5
  <2>7. x \in S \ (T \ {x}) /\ T \ {x} \subseteq S /\ (T \ {x}) \cup {x} = T
    BY <2>4
  <2> QED BY <2>6, <2>7
<1>3. G = Nat
  <2> HIDE DEF G
  <2>1. G \subseteq Nat
    BY DEF G
  <2> QED BY <1>1, <1>2, <2>1, Induction
<1>4. Cardinality(S) \in G
  BY <1>3, FS_CardinalityType
<1> QED BY <1>4
-----------------------------------------------------------------------------
(* Sums *)

FoldPick(s) == CHOOSE x \in s : TRUE

FoldTurn(f, s, g) == IF s = {} THEN 0 ELSE f[FoldPick(s)] + g[s \ {FoldPick(s)}]

(* The element that the sum takes next is one of the set. *)
LEMMA FoldPickIn ==
    ASSUME NEW s, s # {}
    PROVE  FoldPick(s) \in s
BY DEF FoldPick

(* The sum is a recursive function on the subsets of its set. *)
LEMMA SumUnfolds ==
    ASSUME NEW f, NEW S
    PROVE  SumFunctionOnSet(f, S) = (CHOOSE g : g = [s \in SUBSET S |-> FoldTurn(f, s, g)])[S]
BY DEF SumFunctionOnSet, FoldFunctionOnSet, MapThenFoldSet, FoldTurn, FoldPick

(* The recursion of the sum has a solution. *)
LEMMA FoldExists ==
    ASSUME NEW f, NEW S, IsFiniteSet(S)
    PROVE  \E g : g = [s \in SUBSET S |-> FoldTurn(f, s, g)]
<1> DEFINE Sub(n) == {s \in SUBSET S : Cardinality(s) <= n}
           N == {n \in Nat : \E g : g = [s \in Sub(n) |-> FoldTurn(f, s, g)]}
<1>0. \A s \in SUBSET S : IsFiniteSet(s) /\ Cardinality(s) \in Nat /\ Cardinality(s) <= Cardinality(S)
  BY FS_Subset, FS_CardinalityType
<1>a. \A s \in SUBSET S : Cardinality(s) = 0 => s = {}
  BY <1>0, FS_EmptySet
<1>1. 0 \in N
  <2> DEFINE g == [s \in Sub(0) |-> 0]
  <2>1. \A s \in Sub(0) : s = {}
    BY <1>0, <1>a
  <2>2. \A s \in Sub(0) : FoldTurn(f, s, g) = 0
    BY <2>1 DEF FoldTurn
  <2>3. g = [s \in Sub(0) |-> FoldTurn(f, s, g)]
    BY <2>2
  <2> QED BY <2>3
<1>2. ASSUME NEW n \in N PROVE n + 1 \in N
  <2>0. n \in Nat
    OBVIOUS
  <2>1. PICK g : g = [s \in Sub(n) |-> FoldTurn(f, s, g)]
    OBVIOUS
  <2> DEFINE h == [s \in Sub(n + 1) |-> FoldTurn(f, s, g)]
  <2>2. ASSUME NEW s \in Sub(n) PROVE s \in Sub(n + 1) /\ h[s] = g[s]
    <3>1. s \in Sub(n + 1)
      BY <1>0, <2>0
    <3>2. g[s] = FoldTurn(f, s, g)
      BY <2>1
    <3> QED BY <3>1, <3>2
  <2>3. ASSUME NEW s \in Sub(n + 1) PROVE FoldTurn(f, s, h) = FoldTurn(f, s, g)
    <3>1. CASE s = {}
      BY <3>1 DEF FoldTurn
    <3>2. CASE s # {}
      <4>1. FoldPick(s) \in s
        BY <3>2, FoldPickIn
      <4>2. Cardinality(s \ {FoldPick(s)}) = Cardinality(s) - 1
        BY <1>0, <4>1, FS_RemoveElement
      <4>3. s \ {FoldPick(s)} \in Sub(n)
        BY <1>0, <2>0, <4>2
      <4>4. h[s \ {FoldPick(s)}] = g[s \ {FoldPick(s)}]
        BY <2>2, <4>3
      <4> QED BY <3>2, <4>4 DEF FoldTurn
    <3> QED BY <3>1, <3>2
  <2>4. h = [s \in Sub(n + 1) |-> FoldTurn(f, s, h)]
    BY <2>3
  <2>5. \E k : k = [s \in Sub(n + 1) |-> FoldTurn(f, s, k)]
    <3> HIDE DEF h
    <3> QED BY <2>4
  <2>6. n + 1 \in Nat
    BY <2>0
  <2> HIDE DEF Sub
  <2> QED BY <2>5, <2>6
<1>3. N = Nat
  <2> HIDE DEF N
  <2>1. N \subseteq Nat
    BY DEF N
  <2> QED BY <1>1, <1>2, <2>1, Induction
<1>4. Cardinality(S) \in N
  BY <1>0, <1>3
<1>5. Sub(Cardinality(S)) = SUBSET S
  BY <1>0
<1> QED BY <1>4, <1>5

(* Any two solutions agree. *)
LEMMA FoldUnique ==
    ASSUME NEW f, NEW S, IsFiniteSet(S), NEW g, NEW h,
           \A s \in SUBSET S : g[s] = FoldTurn(f, s, g),
           \A s \in SUBSET S : h[s] = FoldTurn(f, s, h)
    PROVE  g[S] = h[S]
<1> DEFINE N == {n \in Nat : \A s \in SUBSET S : Cardinality(s) = n => g[s] = h[s]}
<1>0. \A s \in SUBSET S : IsFiniteSet(s) /\ Cardinality(s) \in Nat
  BY FS_Subset, FS_CardinalityType
<1>1. 0 \in N
  <2>1. \A s \in SUBSET S : Cardinality(s) = 0 => s = {}
    BY <1>0, FS_EmptySet
  <2>2. g[{}] = 0 /\ h[{}] = 0
    BY DEF FoldTurn
  <2> QED BY <2>1, <2>2
<1>2. ASSUME NEW n \in N PROVE n + 1 \in N
  <2>1. SUFFICES ASSUME NEW s \in SUBSET S, Cardinality(s) = n + 1 PROVE g[s] = h[s]
    OBVIOUS
  <2>2. n \in Nat /\ s # {}
    <3>1. n \in Nat
      OBVIOUS
    <3>2. Cardinality({}) = 0
      BY FS_EmptySet
    <3>3. n + 1 # 0
      BY <3>1
    <3> HIDE DEF N
    <3> QED BY <2>1, <3>1, <3>2, <3>3
  <2>3. FoldPick(s) \in s
    BY <2>2, FoldPickIn
  <2>4. Cardinality(s \ {FoldPick(s)}) = Cardinality(s) - 1
    BY <1>0, <2>3, FS_RemoveElement
  <2>5. g[s \ {FoldPick(s)}] = h[s \ {FoldPick(s)}]
    BY <2>1, <2>2, <2>4
  <2>6. g[s] = FoldTurn(f, s, g) /\ h[s] = FoldTurn(f, s, h)
    OBVIOUS
  <2> QED BY <2>2, <2>5, <2>6 DEF FoldTurn
<1>3. N = Nat
  <2> HIDE DEF N
  <2>1. N \subseteq Nat
    BY DEF N
  <2> QED BY <1>1, <1>2, <2>1, Induction
<1>4. Cardinality(S) \in N
  BY <1>0, <1>3
<1> QED BY <1>4

(* The equation of the sum, for the element that it takes next. *)
LEMMA SumEquation ==
    ASSUME NEW f, NEW S, IsFiniteSet(S)
    PROVE  /\ S = {} => SumFunctionOnSet(f, S) = 0
           /\ S # {} => SumFunctionOnSet(f, S) = f[FoldPick(S)] + SumFunctionOnSet(f, S \ {FoldPick(S)})
<1> DEFINE G(T) == CHOOSE g : g = [s \in SUBSET T |-> FoldTurn(f, s, g)]
<1>1. ASSUME NEW T \in SUBSET S PROVE SumFunctionOnSet(f, T) = G(T)[T]
  BY SumUnfolds
<1>2. ASSUME NEW T \in SUBSET S PROVE G(T) = [s \in SUBSET T |-> FoldTurn(f, s, G(T))]
  <2>1. IsFiniteSet(T)
    BY FS_Subset
  <2> QED BY <2>1, FoldExists
<1> HIDE DEF G
<1>3. \A s \in SUBSET S : G(S)[s] = FoldTurn(f, s, G(S))
  <2>1. G(S) = [s \in SUBSET S |-> FoldTurn(f, s, G(S))]
    BY <1>2
  <2> QED BY <2>1
<1>4. CASE S = {}
  BY <1>1, <1>3, <1>4 DEF FoldTurn
<1>5. CASE S # {}
  <2> DEFINE T == S \ {FoldPick(S)}
  <2>1. T \in SUBSET S /\ IsFiniteSet(T)
    BY FS_Subset
  <2>2. \A s \in SUBSET T : G(T)[s] = FoldTurn(f, s, G(T))
    <3>1. G(T) = [s \in SUBSET T |-> FoldTurn(f, s, G(T))]
      BY <1>2, <2>1
    <3> QED BY <3>1
  <2>3. \A s \in SUBSET T : G(S)[s] = FoldTurn(f, s, G(S))
    BY <1>3
  <2>4. G(T)[T] = G(S)[T]
    <3> HIDE DEF T
    <3> QED BY <2>1, <2>2, <2>3, FoldUnique
  <2>5. SumFunctionOnSet(f, T) = G(S)[T]
    BY <1>1, <2>1, <2>4
  <2>6. SumFunctionOnSet(f, S) = FoldTurn(f, S, G(S))
    BY <1>1, <1>3
  <2> QED BY <1>5, <2>5, <2>6 DEF FoldTurn
<1> QED BY <1>4, <1>5

(* Any element may be taken out of the sum. *)
LEMMA SumStep ==
    ASSUME NEW f, NEW S, IsFiniteSet(S), \A x \in S : f[x] \in Int
    PROVE  /\ SumFunctionOnSet(f, S) \in Int
           /\ \A x \in S : /\ SumFunctionOnSet(f, S \ {x}) \in Int
                           /\ SumFunctionOnSet(f, S) = f[x] + SumFunctionOnSet(f, S \ {x})
<1> DEFINE Sum(s) == SumFunctionOnSet(f, s)
           P(s) == /\ Sum(s) \in Int
                   /\ \A x \in s : Sum(s \ {x}) \in Int /\ Sum(s) = f[x] + Sum(s \ {x})
           N == {n \in Nat : \A s \in SUBSET S : Cardinality(s) = n => P(s)}
<1>0. \A s \in SUBSET S : IsFiniteSet(s) /\ Cardinality(s) \in Nat
  BY FS_Subset, FS_CardinalityType
<1>a. ASSUME NEW s \in SUBSET S
      PROVE  /\ s = {} => Sum(s) = 0
             /\ s # {} => FoldPick(s) \in s /\ Sum(s) = f[FoldPick(s)] + Sum(s \ {FoldPick(s)})
  BY <1>0, SumEquation, FoldPickIn
<1> HIDE DEF Sum
<1>1. 0 \in N
  <2>1. \A s \in SUBSET S : Cardinality(s) = 0 => s = {}
    BY <1>0, FS_EmptySet
  <2>2. P({})
    BY <1>a
  <2> QED BY <2>1, <2>2
<1>2. ASSUME NEW n \in N PROVE n + 1 \in N
  <2>1. SUFFICES ASSUME NEW s \in SUBSET S, Cardinality(s) = n + 1 PROVE P(s)
    OBVIOUS
  <2>2. n \in Nat /\ s # {}
    BY <2>1, FS_EmptySet
  <2>3. ASSUME NEW x \in s PROVE P(s \ {x})
    <3>1. Cardinality(s \ {x}) = Cardinality(s) - 1
      BY <1>0, FS_RemoveElement
    <3>2. Cardinality(s \ {x}) = n /\ s \ {x} \in SUBSET S
      BY <2>1, <2>2, <3>1
    <3> QED BY <3>2
  <2> DEFINE y == FoldPick(s)
  <2>4. y \in s /\ Sum(s) = f[y] + Sum(s \ {y}) /\ f[y] \in Int
    BY <1>a, <2>2
  <2> HIDE DEF y
  <2>5. Sum(s) \in Int
    BY <2>3, <2>4
  <2>6. ASSUME NEW x \in s PROVE Sum(s \ {x}) \in Int /\ Sum(s) = f[x] + Sum(s \ {x})
    <3>1. CASE x = y
      BY <2>3, <2>4, <3>1
    <3>2. CASE x # y
      <4> DEFINE r == Sum((s \ {x}) \ {y})
      <4>1. x \in s \ {y} /\ y \in s \ {x} /\ (s \ {y}) \ {x} = (s \ {x}) \ {y}
        BY <2>4, <3>2
      <4>2. r \in Int /\ Sum(s \ {y}) = f[x] + r
        BY <2>3, <2>4, <4>1
      <4>3. Sum(s \ {x}) = f[y] + r
        BY <2>3, <4>1
      <4>4. f[x] \in Int
        OBVIOUS
      <4> HIDE DEF r
      <4> QED BY <2>4, <4>2, <4>3, <4>4
    <3> QED BY <3>1, <3>2
  <2> QED BY <2>5, <2>6
<1>3. N = Nat
  <2> HIDE DEF N
  <2>1. N \subseteq Nat
    BY DEF N
  <2> QED BY <1>1, <1>2, <2>1, Induction
<1>4. Cardinality(S) \in N
  BY <1>0, <1>3
<1>5. P(S)
  BY <1>4
<1> QED BY <1>5 DEF Sum

(* The sum over nothing. *)
LEMMA SumEmpty ==
    ASSUME NEW f
    PROVE  SumFunctionOnSet(f, {}) = 0
BY FS_EmptySet, SumEquation

(* A sum of integers is an integer. *)
LEMMA SumInt ==
    ASSUME NEW f, NEW S, IsFiniteSet(S), \A x \in S : f[x] \in Int
    PROVE  SumFunctionOnSet(f, S) \in Int
BY SumStep

(* One element taken out of a sum. *)
LEMMA SumRemove ==
    ASSUME NEW f, NEW S, IsFiniteSet(S), \A y \in S : f[y] \in Int, NEW x \in S
    PROVE  SumFunctionOnSet(f, S) = f[x] + SumFunctionOnSet(f, S \ {x})
BY SumStep

(* One element added to a sum. *)
LEMMA SumAdd ==
    ASSUME NEW f, NEW S, IsFiniteSet(S), NEW x, x \notin S, \A y \in S \cup {x} : f[y] \in Int
    PROVE  SumFunctionOnSet(f, S \cup {x}) = f[x] + SumFunctionOnSet(f, S)
<1>1. IsFiniteSet(S \cup {x}) /\ (S \cup {x}) \ {x} = S /\ x \in S \cup {x}
  BY FS_AddElement
<1>2. SumFunctionOnSet(f, S \cup {x}) = f[x] + SumFunctionOnSet(f, (S \cup {x}) \ {x})
  BY <1>1, SumRemove
<1> QED BY <1>1, <1>2

(* Sums keep the order of their terms. *)
LEMMA SumLeq ==
    ASSUME NEW f, NEW g, NEW S, IsFiniteSet(S),
           \A x \in S : f[x] \in Int /\ g[x] \in Int /\ f[x] <= g[x]
    PROVE  SumFunctionOnSet(f, S) <= SumFunctionOnSet(g, S)
<1> DEFINE F == {T \in SUBSET S : SumFunctionOnSet(f, T) <= SumFunctionOnSet(g, T)}
<1>1. {} \in F
  BY SumEmpty
<1>2. ASSUME NEW T \in F, NEW x \in S \ T PROVE T \cup {x} \in F
  <2>1. IsFiniteSet(T) /\ T \subseteq S
    BY FS_Subset
  <2>2. SumFunctionOnSet(f, T) \in Int /\ SumFunctionOnSet(g, T) \in Int
    BY <2>1, SumInt
  <2>3. /\ SumFunctionOnSet(f, T \cup {x}) = f[x] + SumFunctionOnSet(f, T)
        /\ SumFunctionOnSet(g, T \cup {x}) = g[x] + SumFunctionOnSet(g, T)
    BY <2>1, SumAdd
  <2>4. f[x] \in Int /\ g[x] \in Int /\ f[x] <= g[x] /\ T \cup {x} \in SUBSET S
    BY <2>1
  <2>5. SumFunctionOnSet(f, T) <= SumFunctionOnSet(g, T)
    OBVIOUS
  <2> QED BY <2>2, <2>3, <2>4, <2>5
<1>3. S \in F
  <2> HIDE DEF F
  <2> QED BY <1>1, <1>2, FiniteInduction
<1> QED BY <1>3

(* Equal terms, equal sums. *)
LEMMA SumEqual ==
    ASSUME NEW f, NEW g, NEW S, IsFiniteSet(S),
           \A x \in S : f[x] \in Int /\ g[x] = f[x]
    PROVE  SumFunctionOnSet(f, S) = SumFunctionOnSet(g, S)
<1>1. \A x \in S : f[x] <= g[x] /\ g[x] <= f[x] /\ g[x] \in Int
  OBVIOUS
<1>2. SumFunctionOnSet(f, S) <= SumFunctionOnSet(g, S)
  BY <1>1, SumLeq
<1>3. SumFunctionOnSet(g, S) <= SumFunctionOnSet(f, S)
  BY <1>1, SumLeq
<1>4. SumFunctionOnSet(f, S) \in Int /\ SumFunctionOnSet(g, S) \in Int
  BY <1>1, SumInt
<1> QED BY <1>2, <1>3, <1>4

(* A sum after one of its terms changes. *)
LEMMA SumUpdate ==
    ASSUME NEW f, NEW g, NEW S, IsFiniteSet(S), NEW x \in S,
           \A y \in S : f[y] \in Int /\ g[y] \in Int,
           \A y \in S \ {x} : g[y] = f[y]
    PROVE  SumFunctionOnSet(g, S) = (SumFunctionOnSet(f, S) - f[x]) + g[x]
<1>1. IsFiniteSet(S \ {x})
  BY FS_RemoveElement
<1>2. SumFunctionOnSet(f, S \ {x}) = SumFunctionOnSet(g, S \ {x})
  BY <1>1, SumEqual
<1>3. SumFunctionOnSet(f, S \ {x}) \in Int
  BY <1>1, SumInt
<1>4. /\ SumFunctionOnSet(f, S) = f[x] + SumFunctionOnSet(f, S \ {x})
      /\ SumFunctionOnSet(g, S) = g[x] + SumFunctionOnSet(g, S \ {x})
  BY SumRemove
<1> QED BY <1>2, <1>3, <1>4

(* A sum of natural numbers is at least each of its terms. *)
LEMMA SumNat ==
    ASSUME NEW f, NEW S, IsFiniteSet(S), \A x \in S : f[x] \in Nat
    PROVE  SumFunctionOnSet(f, S) \in Nat /\ \A x \in S : f[x] <= SumFunctionOnSet(f, S)
<1>1. ASSUME NEW T \in SUBSET S PROVE SumFunctionOnSet(f, T) \in Nat
  <2> DEFINE F == {U \in SUBSET S : SumFunctionOnSet(f, U) \in Nat}
  <2>1. {} \in F
    BY SumEmpty
  <2>2. ASSUME NEW U \in F, NEW y \in T \ U PROVE U \cup {y} \in F
    <3>1. IsFiniteSet(U) /\ U \subseteq S
      BY FS_Subset
    <3>2. \A z \in U \cup {y} : f[z] \in Int
      BY <3>1
    <3>3. SumFunctionOnSet(f, U \cup {y}) = f[y] + SumFunctionOnSet(f, U)
      BY <3>1, <3>2, SumAdd
    <3>4. f[y] \in Nat /\ SumFunctionOnSet(f, U) \in Nat /\ U \cup {y} \in SUBSET S
      BY <3>1
    <3> QED BY <3>3, <3>4
  <2>3. T \in F
    <3>1. IsFiniteSet(T)
      BY FS_Subset
    <3> HIDE DEF F
    <3> QED BY <2>1, <2>2, <3>1, FiniteInduction
  <2> QED BY <2>3
<1>2. ASSUME NEW x \in S PROVE f[x] <= SumFunctionOnSet(f, S)
  <2>1. \A y \in S : f[y] \in Int
    OBVIOUS
  <2>2. SumFunctionOnSet(f, S) = f[x] + SumFunctionOnSet(f, S \ {x})
    BY <2>1, SumRemove
  <2>3. SumFunctionOnSet(f, S \ {x}) \in Nat
    BY <1>1
  <2> QED BY <2>2, <2>3
<1> QED BY <1>1, <1>2

(* A sum of zeros. *)
LEMMA SumZero ==
    ASSUME NEW f, NEW S, IsFiniteSet(S), \A x \in S : f[x] = 0
    PROVE  SumFunctionOnSet(f, S) = 0
<1> DEFINE F == {T \in SUBSET S : SumFunctionOnSet(f, T) = 0}
<1>1. {} \in F
  BY SumEmpty
<1>2. ASSUME NEW T \in F, NEW x \in S \ T PROVE T \cup {x} \in F
  <2>1. IsFiniteSet(T) /\ \A y \in T \cup {x} : f[y] \in Int
    BY FS_Subset
  <2>2. SumFunctionOnSet(f, T \cup {x}) = f[x] + SumFunctionOnSet(f, T)
    BY <2>1, SumAdd
  <2> QED BY <2>2
<1>3. S \in F
  <2> HIDE DEF F
  <2> QED BY <1>1, <1>2, FiniteInduction
<1> QED BY <1>3

(* A sum of sums. *)
LEMMA SumPlus ==
    ASSUME NEW f, NEW g, NEW h, NEW S, IsFiniteSet(S),
           \A x \in S : f[x] \in Int /\ g[x] \in Int /\ h[x] = f[x] + g[x]
    PROVE  SumFunctionOnSet(h, S) = SumFunctionOnSet(f, S) + SumFunctionOnSet(g, S)
<1> DEFINE F == {T \in SUBSET S :
                   SumFunctionOnSet(h, T) = SumFunctionOnSet(f, T) + SumFunctionOnSet(g, T)}
<1>1. {} \in F
  BY SumEmpty
<1>2. ASSUME NEW T \in F, NEW x \in S \ T PROVE T \cup {x} \in F
  <2>1. IsFiniteSet(T) /\ T \subseteq S
    BY FS_Subset
  <2>2. SumFunctionOnSet(f, T) \in Int /\ SumFunctionOnSet(g, T) \in Int
    BY <2>1, SumInt
  <2>3. \A y \in T \cup {x} : f[y] \in Int /\ g[y] \in Int /\ h[y] \in Int
    BY <2>1
  <2>4. /\ SumFunctionOnSet(f, T \cup {x}) = f[x] + SumFunctionOnSet(f, T)
        /\ SumFunctionOnSet(g, T \cup {x}) = g[x] + SumFunctionOnSet(g, T)
        /\ SumFunctionOnSet(h, T \cup {x}) = h[x] + SumFunctionOnSet(h, T)
    BY <2>1, <2>3, SumAdd
  <2>5. f[x] \in Int /\ g[x] \in Int /\ h[x] = f[x] + g[x] /\ T \cup {x} \in SUBSET S
    BY <2>1
  <2>6. SumFunctionOnSet(h, T) = SumFunctionOnSet(f, T) + SumFunctionOnSet(g, T)
    OBVIOUS
  <2> QED BY <2>2, <2>4, <2>5, <2>6
<1>3. S \in F
  <2> HIDE DEF F
  <2> QED BY <1>1, <1>2, FiniteInduction
<1> QED BY <1>3

(* A sum over fewer terms is smaller. *)
LEMMA SumSubset ==
    ASSUME NEW f, NEW S, IsFiniteSet(S), \A x \in S : f[x] \in Nat, NEW T \in SUBSET S
    PROVE  SumFunctionOnSet(f, T) <= SumFunctionOnSet(f, S)
<1> DEFINE F == {X \in SUBSET S : SumFunctionOnSet(f, T) <= SumFunctionOnSet(f, T \cup X)}
<1>1. {} \in F
  <2>1. SumFunctionOnSet(f, T) \in Nat
    BY FS_Subset, SumNat
  <2>2. T \cup {} = T
    OBVIOUS
  <2> QED BY <2>1, <2>2
<1>2. ASSUME NEW X \in F, NEW x \in S \ X PROVE X \cup {x} \in F
  <2>1. X \cup {x} \in SUBSET S /\ T \cup (X \cup {x}) = (T \cup X) \cup {x}
    OBVIOUS
  <2>2. IsFiniteSet(T \cup X) /\ IsFiniteSet(T)
    <3>1. T \cup X \subseteq S
      OBVIOUS
    <3> QED BY <3>1, FS_Subset
  <2>3. SumFunctionOnSet(f, T) <= SumFunctionOnSet(f, T \cup X)
    OBVIOUS
  <2>4. CASE x \in T \cup X
    <3>1. (T \cup X) \cup {x} = T \cup X
      BY <2>4
    <3> QED BY <2>1, <2>3, <3>1
  <2>5. CASE x \notin T \cup X
    <3>1. \A y \in (T \cup X) \cup {x} : f[y] \in Nat /\ f[y] \in Int
      OBVIOUS
    <3>2. SumFunctionOnSet(f, (T \cup X) \cup {x}) = f[x] + SumFunctionOnSet(f, T \cup X)
      BY <2>2, <2>5, <3>1, SumAdd
    <3>3. SumFunctionOnSet(f, T \cup X) \in Nat /\ SumFunctionOnSet(f, T) \in Nat
      BY <2>2, <3>1, SumNat
    <3>4. f[x] \in Nat
      BY <3>1
    <3>5. SumFunctionOnSet(f, T) <= f[x] + SumFunctionOnSet(f, T \cup X)
      BY <2>3, <3>3, <3>4
    <3>6. SumFunctionOnSet(f, T) <= SumFunctionOnSet(f, T \cup (X \cup {x}))
      BY <2>1, <3>2, <3>5
    <3> QED BY <2>1, <3>6
  <2> QED BY <2>4, <2>5
<1>3. S \in F
  <2> HIDE DEF F
  <2> QED BY <1>1, <1>2, FiniteInduction
<1>4. T \cup S = S
  OBVIOUS
<1> QED BY <1>3, <1>4

(* A sequence with one more term. *)
LEMMA SumExtend ==
    ASSUME NEW n \in Nat, NEW f, NEW g, DOMAIN f = 1..n, DOMAIN g = 1..(n + 1),
           \A i \in 1..n : f[i] \in Int /\ g[i] = f[i], g[n + 1] \in Int
    PROVE  SumFunction(g) = SumFunction(f) + g[n + 1]
<1>1. 1..(n + 1) = (1..n) \cup {n + 1} /\ n + 1 \notin 1..n
  OBVIOUS
<1>2. IsFiniteSet(1..n)
  BY FS_Interval
<1>3. \A y \in (1..n) \cup {n + 1} : g[y] \in Int
  OBVIOUS
<1>4. SumFunctionOnSet(g, (1..n) \cup {n + 1}) = g[n + 1] + SumFunctionOnSet(g, 1..n)
  BY <1>1, <1>2, <1>3, SumAdd
<1>5. SumFunctionOnSet(f, 1..n) = SumFunctionOnSet(g, 1..n)
  BY <1>2, SumEqual
<1>6. SumFunctionOnSet(f, 1..n) \in Int
  BY <1>2, SumInt
<1>7. SumFunction(g) = SumFunctionOnSet(g, (1..n) \cup {n + 1}) /\ SumFunction(f) = SumFunctionOnSet(f, 1..n)
  BY <1>1 DEF SumFunction
<1> QED BY <1>4, <1>5, <1>6, <1>7

(* A sum whose terms are bounded is bounded by their number times the bound. *)
LEMMA SumAtMost ==
    ASSUME NEW f, NEW S, IsFiniteSet(S), NEW c \in Int, \A x \in S : f[x] \in Int /\ f[x] <= c
    PROVE  SumFunctionOnSet(f, S) <= c * Cardinality(S)
<1> DEFINE F == {T \in SUBSET S : SumFunctionOnSet(f, T) <= c * Cardinality(T)}
<1>1. {} \in F
  BY SumEmpty, FS_EmptySet
<1>2. ASSUME NEW T \in F, NEW x \in S \ T PROVE T \cup {x} \in F
  <2>1. IsFiniteSet(T) /\ T \subseteq S
    BY FS_Subset
  <2>2. SumFunctionOnSet(f, T) \in Int /\ Cardinality(T) \in Nat
    BY <2>1, SumInt, FS_CardinalityType
  <2>3. SumFunctionOnSet(f, T \cup {x}) = f[x] + SumFunctionOnSet(f, T)
    BY <2>1, SumAdd
  <2>4. Cardinality(T \cup {x}) = Cardinality(T) + 1
    BY <2>1, FS_AddElement
  <2>5. f[x] \in Int /\ f[x] <= c /\ T \cup {x} \in SUBSET S
    BY <2>1
  <2>6. SumFunctionOnSet(f, T) <= c * Cardinality(T)
    OBVIOUS
  <2>7. c * (Cardinality(T) + 1) = c * Cardinality(T) + c /\ c * Cardinality(T) \in Int
    BY <2>2
  <2> QED BY <2>2, <2>3, <2>4, <2>5, <2>6, <2>7
<1>3. S \in F
  <2> HIDE DEF F
  <2> QED BY <1>1, <1>2, FiniteInduction
<1> QED BY <1>3

(* g is what follows the first of the n + 1 numbers f. *)
TailOf(g, f, n) ==
    /\ DOMAIN f = 1..(n + 1) /\ DOMAIN g = 1..n
    /\ \A i \in 1..(n + 1) : f[i] \in Int
    /\ \A i \in 1..n : g[i] = f[i + 1]

(* The sum over a sequence is its first term and the sum over its tail. *)
LEMMA SumTail ==
    ASSUME NEW n \in Nat, NEW f, NEW g, TailOf(g, f, n)
    PROVE  SumFunction(f) = f[1] + SumFunction(g)
<1>0. /\ DOMAIN f = 1..(n + 1) /\ DOMAIN g = 1..n
      /\ \A i \in 1..(n + 1) : f[i] \in Int
      /\ \A i \in 1..n : g[i] = f[i + 1]
  BY DEF TailOf
<1> DEFINE T == {m \in Nat : m <= n => SumFunctionOnSet(f, 1..(m + 1)) = f[1] + SumFunctionOnSet(g, 1..m)}
<1>1. 0 \in T
  <2>1. 1..(0 + 1) = {} \cup {1} /\ 1..0 = {} /\ 1 \notin {} /\ f[1] \in Int
    BY <1>0
  <2>2. SumFunctionOnSet(f, {} \cup {1}) = f[1] + SumFunctionOnSet(f, {})
    BY <2>1, SumAdd, FS_EmptySet
  <2>3. SumFunctionOnSet(f, {}) = 0 /\ SumFunctionOnSet(g, {}) = 0
    BY SumEmpty
  <2> QED BY <2>1, <2>2, <2>3
<1>2. ASSUME NEW m \in T PROVE m + 1 \in T
  <2>0. m \in Nat
    OBVIOUS
  <2> SUFFICES ASSUME m + 1 <= n
               PROVE  SumFunctionOnSet(f, 1..(m + 2)) = f[1] + SumFunctionOnSet(g, 1..(m + 1))
    BY <2>0
  <2>1. /\ 1..(m + 2) = (1..(m + 1)) \cup {m + 2} /\ m + 2 \notin 1..(m + 1)
        /\ 1..(m + 1) = (1..m) \cup {m + 1} /\ m + 1 \notin 1..m
    BY <2>0
  <2>2. IsFiniteSet(1..(m + 1)) /\ IsFiniteSet(1..m)
    BY <2>0, FS_Interval
  <2>3. /\ \A i \in (1..(m + 1)) \cup {m + 2} : f[i] \in Int
        /\ \A i \in (1..m) \cup {m + 1} : g[i] \in Int
        /\ g[m + 1] = f[m + 2] /\ f[1] \in Int
    <3>1. \A i \in 1..n : i + 1 \in 1..(n + 1)
      OBVIOUS
    <3> QED BY <1>0, <2>0, <2>1, <3>1
  <2>4. SumFunctionOnSet(f, (1..(m + 1)) \cup {m + 2}) = f[m + 2] + SumFunctionOnSet(f, 1..(m + 1))
    BY <2>1, <2>2, <2>3, SumAdd
  <2>5. SumFunctionOnSet(g, (1..m) \cup {m + 1}) = g[m + 1] + SumFunctionOnSet(g, 1..m)
    BY <2>1, <2>2, <2>3, SumAdd
  <2>6. SumFunctionOnSet(f, 1..(m + 1)) = f[1] + SumFunctionOnSet(g, 1..m)
    BY <2>0
  <2>7. SumFunctionOnSet(g, 1..m) \in Int /\ f[m + 2] \in Int
    <3>1. \A i \in 1..m : g[i] \in Int
      BY <2>3
    <3>2. m + 2 \in (1..(m + 1)) \cup {m + 2}
      OBVIOUS
    <3> QED BY <2>2, <2>3, <3>1, <3>2, SumInt
  <2>8. f[m + 2] + (f[1] + SumFunctionOnSet(g, 1..m)) = f[1] + (f[m + 2] + SumFunctionOnSet(g, 1..m))
    BY <2>3, <2>7
  <2>9. SumFunctionOnSet(f, 1..(m + 2)) = f[m + 2] + (f[1] + SumFunctionOnSet(g, 1..m))
    BY <2>1, <2>4, <2>6, Zenon
  <2>10. SumFunctionOnSet(g, 1..(m + 1)) = f[m + 2] + SumFunctionOnSet(g, 1..m)
    BY <2>1, <2>3, <2>5, Zenon
  <2> QED BY <2>8, <2>9, <2>10
<1>3. T = Nat
  <2> HIDE DEF T
  <2>1. T \subseteq Nat
    BY DEF T
  <2> QED BY <1>1, <1>2, <2>1, Induction
<1>4. n \in T
  BY <1>3
<1> QED BY <1>0, <1>4 DEF SumFunction

(* Moving a set of numbers down by one keeps its cardinality. *)
LEMMA ShiftCardinality ==
    ASSUME NEW S, NEW T, IsFiniteSet(S), S \subseteq Int, T \subseteq Int,
           \A x \in Int : x \in T <=> x + 1 \in S
    PROVE  IsFiniteSet(T) /\ Cardinality(T) = Cardinality(S)
<1> DEFINE h == [x \in S |-> x - 1]
<1>1. h \in [S -> T]
  <2>1. ASSUME NEW x \in S PROVE x - 1 \in T
    <3>1. x - 1 \in Int /\ (x - 1) + 1 = x
      OBVIOUS
    <3> QED BY <3>1
  <2> QED BY <2>1
<1>2. h \in Bijection(S, T)
  <2>1. \A a, b \in S : h[a] = h[b] => a = b
    <3>1. \A a, b \in Int : a - 1 = b - 1 => a = b
      OBVIOUS
    <3> QED BY <3>1
  <2>2. \A t \in T : \E x \in S : h[x] = t
    <3> TAKE t \in T
    <3>1. t + 1 \in S /\ (t + 1) - 1 = t
      OBVIOUS
    <3> QED BY <3>1
  <2>3. DOMAIN h = S
    OBVIOUS
  <2> HIDE DEF h
  <2> QED BY <1>1, <2>1, <2>2, <2>3 DEF Bijection, Injection, Surjection, IsInjective
<1>3. ExistsBijection(S, T)
  BY <1>2 DEF ExistsBijection
<1> QED BY <1>3, FS_Bijection
=============================================================================
