------------------------------ MODULE SumProofs ------------------------------
(***************************************************************************)
(* Sums over finite sets, as Functions.SumFunctionOnSet folds them.  The   *)
(* fold is a recursive function whose domain is the set of subsets; that   *)
(* it exists, that it is unique and that the order does not matter is      *)
(* proved by looking at a smallest subset for which it would fail.         *)
(***************************************************************************)
EXTENDS Functions, FiniteSetTheorems, TLAPS

(* What holds of a set when it holds of its proper subsets.                 *)
LEMMA SubsetInduction ==
  ASSUME NEW S, IsFiniteSet(S), NEW Good,
         \A T \in SUBSET S : (\A U \in SUBSET T : U # T => U \in Good) => T \in Good
  PROVE  \A T \in SUBSET S : T \in Good
<1>1. PICK Bad : Bad = {T \in SUBSET S : T \notin Good}
  OBVIOUS
<1>2. SUFFICES ASSUME Bad # {} PROVE FALSE
  BY <1>1
<1>3. Bad \subseteq FiniteSubsetsOf(S)
  BY <1>1, FS_FiniteSubsetsOfFinite
<1>4. PICK T \in Bad : \A U \in Bad : << U, T >> \notin StrictSubsetOrdering(S)
  BY <1>2, <1>3, FS_StrictSubsetOrderingWellFounded, WFMin
<1>5. \A U \in SUBSET T : U # T => U \in Good
  BY <1>1, <1>4 DEF StrictSubsetOrdering
<1> QED
  BY <1>1, <1>4, <1>5

(* The element a fold takes first, and the equation of its function.        *)
First(T) == CHOOSE x \in T : TRUE

Rest(T) == T \ {First(T)}

Adds(f, S, g) ==
  g = [T \in SUBSET S |-> IF T = {} THEN 0 ELSE f[First(T)] + g[Rest(T)]]

LEMMA FirstIsIn == \A T : T # {} => First(T) \in T
BY DEF First

LEMMA SumIsFold ==
  ASSUME NEW f, NEW S
  PROVE  SumFunctionOnSet(f, S) = (CHOOSE g : Adds(f, S, g))[S]
BY DEF SumFunctionOnSet, FoldFunctionOnSet, MapThenFoldSet, Adds, First, Rest

(* Two such functions agree where both are defined.                         *)
LEMMA AddsUnique ==
  ASSUME NEW f, NEW A, NEW B, NEW g, NEW h, Adds(f, A, g), Adds(f, B, h),
         NEW S, IsFiniteSet(S), S \subseteq A, S \subseteq B
  PROVE  g[S] = h[S]
<1>1. PICK Good : Good = {T \in SUBSET S : g[T] = h[T]}
  OBVIOUS
<1>2. ASSUME NEW T \in SUBSET S, \A U \in SUBSET T : U # T => U \in Good
      PROVE  T \in Good
  <2>1. T \in SUBSET A /\ T \in SUBSET B
    OBVIOUS
  <2>2. /\ g[T] = IF T = {} THEN 0 ELSE f[First(T)] + g[Rest(T)]
        /\ h[T] = IF T = {} THEN 0 ELSE f[First(T)] + h[Rest(T)]
    BY <2>1 DEF Adds
  <2>3. T # {} => Rest(T) \in Good
    BY <1>2, FirstIsIn DEF Rest
  <2> QED
    BY <1>1, <2>2, <2>3
<1>3. S \in Good
  BY <1>2, SubsetInduction
<1> QED
  BY <1>1, <1>3

LEMMA AddsExists ==
  ASSUME NEW f, NEW S, IsFiniteSet(S)
  PROVE  \E g : Adds(f, S, g)
<1>1. PICK Good : Good = {T \in SUBSET S : \E g : Adds(f, T, g)}
  OBVIOUS
<1>2. ASSUME NEW T \in SUBSET S, \A U \in SUBSET T : U # T => U \in Good
      PROVE  T \in Good
  <2>1. PICK G : G = [U \in SUBSET T |-> CHOOSE g : Adds(f, U, g)]
    OBVIOUS
  <2>2. \A U \in SUBSET T : U # T => Adds(f, U, G[U])
    BY <1>1, <1>2, <2>1
  <2>3. PICK new : new = [U \in SUBSET T |->
                           IF U = {} THEN 0 ELSE f[First(U)] + G[Rest(U)][Rest(U)]]
    OBVIOUS
  <2>4. ASSUME NEW U \in SUBSET T, U # {}
        PROVE  new[Rest(U)] = G[Rest(U)][Rest(U)]
    <3>1. PICK V : V = Rest(U)
      OBVIOUS
    <3>2. V \in SUBSET T /\ V # T
      BY <2>4, <3>1, FirstIsIn DEF Rest
    <3>3. G[V][V] = IF V = {} THEN 0 ELSE f[First(V)] + G[V][Rest(V)]
      BY <2>2, <3>2 DEF Adds
    <3>4. CASE V = {}
      BY <2>3, <3>1, <3>2, <3>3, <3>4
    <3>5. CASE V # {}
      <4>1. PICK W : W = Rest(V)
        OBVIOUS
      <4>2. W \in SUBSET T /\ W # T /\ W \subseteq V
        BY <3>2, <4>1 DEF Rest
      <4>3. IsFiniteSet(W)
        BY <4>2, FS_Subset
      <4>4. Adds(f, V, G[V]) /\ Adds(f, W, G[W])
        BY <2>2, <3>2, <4>2
      <4>5. G[V][W] = G[W][W]
        BY <4>2, <4>3, <4>4, AddsUnique
      <4>6. new[V] = f[First(V)] + G[W][W]
        BY <2>3, <3>2, <3>5, <4>1
      <4> QED
        BY <3>1, <3>3, <3>5, <4>1, <4>5, <4>6
    <3> QED
      BY <3>4, <3>5
  <2>5. \A U \in SUBSET T :
          new[U] = IF U = {} THEN 0 ELSE f[First(U)] + new[Rest(U)]
    BY <2>3, <2>4
  <2>6. Adds(f, T, new)
    BY <2>3, <2>5 DEF Adds
  <2> QED
    BY <1>1, <2>6
<1>3. S \in Good
  BY <1>2, SubsetInduction
<1> QED
  BY <1>1, <1>3

(* The fold takes one element, then the others.                             *)
LEMMA SumOfNothing ==
  ASSUME NEW f
  PROVE  SumFunctionOnSet(f, {}) = 0
<1>1. PICK S : S = {}
  OBVIOUS
<1>2. PICK h : h = CHOOSE g : Adds(f, S, g)
  OBVIOUS
<1>3. Adds(f, S, h)
  BY <1>1, <1>2, AddsExists, FS_EmptySet
<1>4. h[S] = 0
  BY <1>1, <1>3 DEF Adds
<1> QED
  BY <1>1, <1>2, <1>4, SumIsFold

LEMMA SumTakesFirst ==
  ASSUME NEW f, NEW S, IsFiniteSet(S), S # {}
  PROVE  SumFunctionOnSet(f, S) = f[First(S)] + SumFunctionOnSet(f, Rest(S))
<1>1. PICK R : R = Rest(S)
  OBVIOUS
<1>2. R \subseteq S /\ IsFiniteSet(R)
  BY <1>1, FS_Subset DEF Rest
<1>3. PICK g : g = CHOOSE e : Adds(f, S, e)
  OBVIOUS
<1>4. PICK h : h = CHOOSE e : Adds(f, R, e)
  OBVIOUS
<1>5. Adds(f, S, g) /\ Adds(f, R, h)
  BY <1>2, <1>3, <1>4, AddsExists
<1>6. g[S] = f[First(S)] + g[R]
  BY <1>1, <1>5 DEF Adds
<1>7. g[R] = h[R]
  BY <1>2, <1>5, AddsUnique
<1> QED
  BY <1>1, <1>3, <1>4, <1>6, <1>7, SumIsFold

(* Sums of integers: an integer, whichever element comes first.             *)
LEMMA SumOfIntegers ==
  ASSUME NEW f, NEW S, IsFiniteSet(S), \A x \in S : f[x] \in Int
  PROVE  /\ SumFunctionOnSet(f, S) \in Int
         /\ \A x \in S : SumFunctionOnSet(f, S) = f[x] + SumFunctionOnSet(f, S \ {x})
<1>1. PICK Good : Good = {T \in SUBSET S :
        /\ SumFunctionOnSet(f, T) \in Int
        /\ \A x \in T : SumFunctionOnSet(f, T) = f[x] + SumFunctionOnSet(f, T \ {x})}
  OBVIOUS
<1>2. ASSUME NEW T \in SUBSET S, \A U \in SUBSET T : U # T => U \in Good
      PROVE  T \in Good
  <2>1. CASE T = {}
    BY <1>1, <2>1, SumOfNothing
  <2>2. CASE T # {}
    <3>1. PICK c \in T : c = First(T)
      BY <2>2, FirstIsIn
    <3>2. IsFiniteSet(T)
      BY FS_Subset
    <3>3. SumFunctionOnSet(f, T) = f[c] + SumFunctionOnSet(f, T \ {c})
      BY <2>2, <3>1, <3>2, SumTakesFirst DEF Rest
    <3>4. T \ {c} \in Good /\ f[c] \in Int
      BY <1>2
    <3>5. SumFunctionOnSet(f, T) \in Int
      BY <1>1, <3>3, <3>4
    <3>6. ASSUME NEW x \in T, x # c
          PROVE  SumFunctionOnSet(f, T) = f[x] + SumFunctionOnSet(f, T \ {x})
      <4>1. T \ {x} \in Good /\ f[x] \in Int
        BY <1>2
      <4>2. PICK R : R = (T \ {x}) \ {c}
        OBVIOUS
      <4>3. (T \ {c}) \ {x} = R /\ x \in T \ {c} /\ c \in T \ {x}
        BY <3>6, <4>2
      <4>4. SumFunctionOnSet(f, T \ {c}) = f[x] + SumFunctionOnSet(f, R)
        BY <1>1, <3>4, <4>3
      <4>5. SumFunctionOnSet(f, T \ {x}) = f[c] + SumFunctionOnSet(f, R)
        BY <1>1, <4>1, <4>2, <4>3
      <4>6. R \in Good
        BY <1>2, <4>2
      <4>7. SumFunctionOnSet(f, R) \in Int
        BY <1>1, <4>6
      <4> QED
        BY <3>3, <3>4, <4>1, <4>4, <4>5, <4>7
    <3> QED
      BY <1>1, <3>3, <3>5, <3>6
  <2> QED
    BY <2>1, <2>2
<1>3. S \in Good
  BY <1>2, SubsetInduction
<1> QED
  BY <1>1, <1>3

(* Only the values on the set matter.                                       *)
LEMMA SameSum ==
  ASSUME NEW f, NEW g, NEW S, IsFiniteSet(S), \A x \in S : f[x] = g[x]
  PROVE  SumFunctionOnSet(f, S) = SumFunctionOnSet(g, S)
<1>1. PICK Good : Good = {T \in SUBSET S : SumFunctionOnSet(f, T) = SumFunctionOnSet(g, T)}
  OBVIOUS
<1>2. ASSUME NEW T \in SUBSET S, \A U \in SUBSET T : U # T => U \in Good
      PROVE  T \in Good
  <2>1. CASE T = {}
    BY <1>1, <2>1, SumOfNothing
  <2>2. CASE T # {}
    <3>1. Rest(T) \in Good /\ f[First(T)] = g[First(T)]
      BY <1>2, <2>2, FirstIsIn DEF Rest
    <3>2. IsFiniteSet(T)
      BY FS_Subset
    <3> QED
      BY <1>1, <2>2, <3>1, <3>2, SumTakesFirst
  <2> QED
    BY <2>1, <2>2
<1>3. S \in Good
  BY <1>2, SubsetInduction
<1> QED
  BY <1>1, <1>3

(* One value changes.                                                       *)
LEMMA SumChanges ==
  ASSUME NEW f, NEW g, NEW S, IsFiniteSet(S), NEW x \in S,
         \A y \in S : f[y] \in Int, g[x] \in Int, \A y \in S \ {x} : g[y] = f[y]
  PROVE  SumFunctionOnSet(g, S) = SumFunctionOnSet(f, S) - f[x] + g[x]
<1>1. PICK R : R = S \ {x}
  OBVIOUS
<1>2. IsFiniteSet(R) /\ \A y \in R : f[y] \in Int /\ g[y] = f[y]
  BY <1>1, FS_Subset
<1>3. \A y \in S : g[y] \in Int
  BY <1>1, <1>2
<1>4. SumFunctionOnSet(f, R) = SumFunctionOnSet(g, R) /\ SumFunctionOnSet(f, R) \in Int
  BY <1>2, SameSum, SumOfIntegers
<1>5. /\ SumFunctionOnSet(f, S) = f[x] + SumFunctionOnSet(f, R)
      /\ SumFunctionOnSet(g, S) = g[x] + SumFunctionOnSet(g, R)
  BY <1>1, <1>3, SumOfIntegers
<1> QED
  BY <1>4, <1>5

(* A larger set, and values that are not negative.                          *)
LEMMA SumGrows ==
  ASSUME NEW f, NEW S, IsFiniteSet(S), \A x \in S : f[x] \in Nat
  PROVE  \A T \in SUBSET S :
           /\ SumFunctionOnSet(f, T) \in Nat
           /\ SumFunctionOnSet(f, T) <= SumFunctionOnSet(f, S)
<1>1. PICK Good : Good = {T \in SUBSET S :
        \A U \in SUBSET T :
          /\ SumFunctionOnSet(f, U) \in Nat
          /\ SumFunctionOnSet(f, U) <= SumFunctionOnSet(f, T)}
  OBVIOUS
<1>2. ASSUME NEW T \in SUBSET S, \A U \in SUBSET T : U # T => U \in Good
      PROVE  T \in Good
  <2>1. IsFiniteSet(T) /\ \A x \in T : f[x] \in Int
    BY FS_Subset
  <2>2. SumFunctionOnSet(f, T) \in Nat
    <3>1. CASE T = {}
      BY <3>1, SumOfNothing
    <3>2. CASE T # {}
      <4>1. PICK x \in T : TRUE
        BY <3>2
      <4>2. T \ {x} \in Good /\ f[x] \in Nat
        BY <1>2
      <4>3. SumFunctionOnSet(f, T \ {x}) \in Nat
        BY <1>1, <4>2
      <4>4. SumFunctionOnSet(f, T) = f[x] + SumFunctionOnSet(f, T \ {x})
        BY <2>1, SumOfIntegers
      <4> QED
        BY <4>2, <4>3, <4>4
    <3> QED
      BY <3>1, <3>2
  <2>3. ASSUME NEW U \in SUBSET T, U # T
        PROVE  /\ SumFunctionOnSet(f, U) \in Nat
               /\ SumFunctionOnSet(f, U) <= SumFunctionOnSet(f, T)
    <3>1. PICK x \in T : x \notin U
      BY <2>3
    <3>2. T \ {x} \in Good /\ f[x] \in Nat /\ U \in SUBSET (T \ {x})
      BY <1>2, <3>1
    <3>3. /\ SumFunctionOnSet(f, U) \in Nat
          /\ SumFunctionOnSet(f, U) <= SumFunctionOnSet(f, T \ {x})
          /\ SumFunctionOnSet(f, T \ {x}) \in Nat
      BY <1>1, <3>2
    <3>4. SumFunctionOnSet(f, T) = f[x] + SumFunctionOnSet(f, T \ {x})
      BY <2>1, SumOfIntegers
    <3> QED
      BY <3>2, <3>3, <3>4
  <2> QED
    BY <1>1, <2>2, <2>3
<1>3. S \in Good
  BY <1>2, SubsetInduction
<1> QED
  BY <1>1, <1>3

(* Two sets that have nothing in common.                                    *)
LEMMA SumsAdd ==
  ASSUME NEW f, NEW S, IsFiniteSet(S), NEW A, IsFiniteSet(A), A \cap S = {},
         \A x \in A \cup S : f[x] \in Int
  PROVE  SumFunctionOnSet(f, A \cup S) = SumFunctionOnSet(f, A) + SumFunctionOnSet(f, S)
<1>1. PICK Good : Good = {T \in SUBSET S :
        SumFunctionOnSet(f, A \cup T) = SumFunctionOnSet(f, A) + SumFunctionOnSet(f, T)}
  OBVIOUS
<1>2. ASSUME NEW T \in SUBSET S, \A U \in SUBSET T : U # T => U \in Good
      PROVE  T \in Good
  <2>1. IsFiniteSet(T) /\ IsFiniteSet(A \cup T)
    BY FS_Subset, FS_Union
  <2>2. SumFunctionOnSet(f, A) \in Int
    BY SumOfIntegers
  <2>3. CASE T = {}
    <3>1. A \cup T = A
      BY <2>3
    <3> QED
      BY <1>1, <2>2, <2>3, <3>1, SumOfNothing
  <2>4. CASE T # {}
    <3>1. PICK x \in T : TRUE
      BY <2>4
    <3>2. PICK U : U = T \ {x}
      OBVIOUS
    <3>3. U \in Good /\ f[x] \in Int
      BY <1>2, <3>2
    <3>4. (A \cup T) \ {x} = A \cup U
      BY <3>2
    <3>5. SumFunctionOnSet(f, A \cup T) = f[x] + SumFunctionOnSet(f, A \cup U)
      BY <2>1, <3>4, SumOfIntegers
    <3>6. SumFunctionOnSet(f, T) = f[x] + SumFunctionOnSet(f, U)
      BY <2>1, <3>2, SumOfIntegers
    <3>7. SumFunctionOnSet(f, U) \in Int
      BY <2>1, <3>2, FS_Subset, SumOfIntegers
    <3> QED
      BY <1>1, <2>2, <3>3, <3>5, <3>6, <3>7
  <2> QED
    BY <2>3, <2>4
<1>3. S \in Good
  BY <1>2, SubsetInduction
<1> QED
  BY <1>1, <1>3

(* Nothing to add.                                                          *)
LEMMA SumOfZeros ==
  ASSUME NEW f, NEW S, IsFiniteSet(S), \A x \in S : f[x] = 0
  PROVE  SumFunctionOnSet(f, S) = 0
<1>1. PICK Good : Good = {T \in SUBSET S : SumFunctionOnSet(f, T) = 0}
  OBVIOUS
<1>2. ASSUME NEW T \in SUBSET S, \A U \in SUBSET T : U # T => U \in Good
      PROVE  T \in Good
  <2>1. CASE T = {}
    BY <1>1, <2>1, SumOfNothing
  <2>2. CASE T # {}
    <3>1. Rest(T) \in Good /\ f[First(T)] = 0
      BY <1>2, <2>2, FirstIsIn DEF Rest
    <3>2. IsFiniteSet(T)
      BY FS_Subset
    <3> QED
      BY <1>1, <2>2, <3>1, <3>2, SumTakesFirst
  <2> QED
    BY <2>1, <2>2
<1>3. S \in Good
  BY <1>2, SubsetInduction
<1> QED
  BY <1>1, <1>3

=============================================================================
