----------------------------- MODULE SumTheorems -----------------------------
(***************************************************************************)
(* Sums over finite sets: what the sums of the ledger and of the metering  *)
(* (SumFunctionOnSet, MapThenSumSet, Max and Min of FiniteSetsExt) do when *)
(* a set gains or loses an element.  The library's fold picks the elements *)
(* in an unknown order; it is shown to agree with a function that adds up  *)
(* every subset, by well-founded induction on the subsets of a finite set. *)
(***************************************************************************)
EXTENDS FiniteSetsExt, FiniteSetTheorems, TLAPS

\* Of the subsets of a finite set with a property, some has it minimally.
LEMMA MinimalSubset ==
    ASSUME NEW S, IsFiniteSet(S), NEW X, X \subseteq SUBSET S, X # {}
    PROVE  \E T \in X : \A x \in T : T \ {x} \notin X
<1>1. FiniteSubsetsOf(S) = SUBSET S
  BY FS_FiniteSubsetsOfFinite
<1>2. IsWellFoundedOn(StrictSubsetOrdering(S), SUBSET S)
  BY <1>1, FS_StrictSubsetOrderingWellFounded, Zenon
<1>3. PICK T \in X : \A U \in X : <<U, T>> \notin StrictSubsetOrdering(S)
  BY <1>2, WFMin, Zenon
<1>4. ASSUME NEW x \in T, T \ {x} \in X PROVE FALSE
  BY <1>3, <1>4 DEF StrictSubsetOrdering
<1> QED
  BY <1>4, Zenon

\* Induction over the subsets of a finite set, for a set X of them.
LEMMA FiniteInduction ==
    ASSUME NEW S, IsFiniteSet(S), NEW X, {} \in X,
           \A T \in SUBSET S : \A x \in S \ T : T \in X => T \cup {x} \in X
    PROVE  \A T \in SUBSET S : T \in X
<1> DEFINE Bad == {T \in SUBSET S : T \notin X}
<1> SUFFICES ASSUME Bad # {} PROVE FALSE
  OBVIOUS
<1>1. PICK T \in Bad : \A x \in T : T \ {x} \notin Bad
  <2>1. Bad \subseteq SUBSET S
    OBVIOUS
  <2> HIDE DEF Bad
  <2> QED
    BY <2>1, MinimalSubset, Zenon
<1>2. PICK x \in T : TRUE
  BY <1>1, Zenon
<1>3. T \ {x} \in SUBSET S /\ x \in S /\ (T \ {x}) \cup {x} = T
  BY <1>1
<1>4. T \ {x} \in X
  BY <1>1, <1>3
<1> QED
  BY <1>1, <1>3, <1>4

-----------------------------------------------------------------------------
PickOne(s) == CHOOSE x \in s : TRUE

\* h adds the values of f up over the subsets of S.
AddsUp(h, f, S) ==
    /\ h \in [SUBSET S -> Int]
    /\ h[{}] = 0
    /\ \A s \in SUBSET S : \A x \in s : h[s] = f[x] + h[s \ {x}]

\* it satisfies the equation by which the library folds f with + over S.
FoldsUp(it, f, S) ==
    it = [s \in SUBSET S |-> IF s = {} THEN 0 ELSE f[PickOne(s)] + it[s \ {PickOne(s)}]]

\* The element that the library's fold takes out of a set is in the set.
LEMMA PickIn == \A s : s # {} => PickOne(s) \in s
BY Zenon DEF PickOne

\* A function that adds up the subsets of a set extends to one element more.
LEMMA AddsOneMore ==
    ASSUME NEW T, NEW f, NEW h, AddsUp(h, f, T), NEW x, x \notin T, f[x] \in Int,
           \A y \in T : f[y] \in Int
    PROVE  \E k : AddsUp(k, f, T \cup {x})
<1> DEFINE U == T \cup {x}
           k == [s \in SUBSET U |-> IF x \in s THEN f[x] + h[s \ {x}] ELSE h[s]]
<1>1. \A s \in SUBSET U : s \ {x} \in SUBSET T /\ (x \notin s => s \in SUBSET T)
  OBVIOUS
<1>2. \A s \in SUBSET T : h[s] \in Int
  BY DEF AddsUp
<1>3. k \in [SUBSET U -> Int]
  BY <1>1, <1>2
<1>4. k[{}] = 0
  BY DEF AddsUp
<1>5. ASSUME NEW s \in SUBSET U, NEW y \in s PROVE k[s] = f[y] + k[s \ {y}]
  <2>0. s \ {y} \in SUBSET U /\ f[y] \in Int
    OBVIOUS
  <2>1. CASE x \notin s
    <3>1. k[s] = h[s] /\ k[s \ {y}] = h[s \ {y}]
      BY <2>0, <2>1
    <3>2. s \in SUBSET T
      BY <2>1
    <3> QED
      BY <3>1, <3>2 DEF AddsUp
  <2>2. CASE x \in s /\ y = x
    <3>1. k[s] = f[x] + h[s \ {x}] /\ k[s \ {x}] = h[s \ {x}]
      BY <2>0, <2>2
    <3> QED
      BY <2>2, <3>1
  <2>3. CASE x \in s /\ y # x
    <3>1. x \in s \ {y}
      BY <2>3
    <3>2. k[s] = f[x] + h[s \ {x}] /\ k[s \ {y}] = f[x] + h[(s \ {y}) \ {x}]
      BY <2>0, <2>3, <3>1
    <3>3. (s \ {y}) \ {x} = (s \ {x}) \ {y}
      BY Zenon
    <3>4. s \ {x} \in SUBSET T /\ y \in s \ {x} /\ (s \ {x}) \ {y} \in SUBSET T
      BY <1>1, <2>3
    <3>5. h[s \ {x}] = f[y] + h[(s \ {x}) \ {y}]
      BY <3>4, Zenon DEF AddsUp
    <3>6. h[(s \ {x}) \ {y}] \in Int
      BY <1>2, <3>4, Zenon
    <3> DEFINE z == h[(s \ {x}) \ {y}]
    <3>7. k[s] = f[x] + (f[y] + z) /\ k[s \ {y}] = f[x] + z
      BY <3>2, <3>3, <3>5
    <3> HIDE DEF k, U, z
    <3>8. z \in Int
      BY <3>6 DEF z
    <3> QED
      BY <2>0, <3>7, <3>8
  <2> QED
    BY <2>1, <2>2, <2>3
<1> HIDE DEF k
<1>6. AddsUp(k, f, U)
  BY <1>3, <1>4, <1>5, Zenon DEF AddsUp
<1> QED
  BY <1>6, Zenon

\* So a finite set has one.
LEMMA AddsExists ==
    ASSUME NEW S, IsFiniteSet(S), NEW f, \A y \in S : f[y] \in Int
    PROVE  \E h : AddsUp(h, f, S)
<1> DEFINE X == {T \in SUBSET S : \E h : AddsUp(h, f, T)}
<1>1. {} \in X
  <2> DEFINE h == [s \in SUBSET {} |-> 0]
  <2>1. h \in [SUBSET {} -> Int] /\ h[{}] = 0
    OBVIOUS
  <2>2. \A s \in SUBSET {} : \A x \in s : h[s] = f[x] + h[s \ {x}]
    OBVIOUS
  <2> HIDE DEF h
  <2>3. AddsUp(h, f, {})
    BY <2>1, <2>2, Zenon DEF AddsUp
  <2> QED
    BY <2>3, Zenon
<1>2. ASSUME NEW T \in SUBSET S, NEW x \in S \ T, T \in X PROVE T \cup {x} \in X
  <2>1. PICK h : AddsUp(h, f, T)
    BY <1>2, Zenon
  <2>2. \E k : AddsUp(k, f, T \cup {x})
    BY <1>2, <2>1, AddsOneMore, Zenon
  <2>3. T \cup {x} \in SUBSET S
    OBVIOUS
  <2> QED
    BY <2>2, <2>3, Zenon
<1>3. \A T \in SUBSET S : T \in X
  <2> HIDE DEF X
  <2> QED
    BY <1>1, <1>2, FiniteInduction, Zenon
<1>4. S \in X
  BY <1>3, Zenon
<1> QED
  BY <1>4, Zenon

\* It also adds up by taking out the element that the library's fold picks.
LEMMA AddsFolds ==
    ASSUME NEW S, NEW f, NEW h, AddsUp(h, f, S)
    PROVE  FoldsUp(h, f, S)
<1>1. \A s \in SUBSET S : h[s] = IF s = {} THEN 0 ELSE f[PickOne(s)] + h[s \ {PickOne(s)}]
  BY PickIn, Zenon DEF AddsUp
<1>2. h = [s \in SUBSET S |-> h[s]]
  BY Zenon DEF AddsUp
<1> QED
  BY <1>1, <1>2, Zenon DEF FoldsUp

\* There is only one function that adds up like that.
LEMMA FoldsAgree ==
    ASSUME NEW S, IsFiniteSet(S), NEW f, NEW h, AddsUp(h, f, S), NEW it, FoldsUp(it, f, S)
    PROVE  it = h
<1> DEFINE X == {s \in SUBSET S : it[s] # h[s]}
<1>1. CASE X = {}
  BY <1>1, Zenon DEF FoldsUp, AddsUp
<1>2. CASE X # {}
  <2>1. PICK T \in X : \A x \in T : T \ {x} \notin X
    <3>1. X \subseteq SUBSET S
      OBVIOUS
    <3> HIDE DEF X
    <3> QED
      BY <1>2, <3>1, MinimalSubset, Zenon
  <2>2. it[T] = IF T = {} THEN 0 ELSE f[PickOne(T)] + it[T \ {PickOne(T)}]
    BY <2>1, Zenon DEF FoldsUp
  <2>3. CASE T = {}
    BY <2>1, <2>2, <2>3, Zenon DEF AddsUp
  <2>4. CASE T # {}
    <3>1. PickOne(T) \in T
      BY <2>4, PickIn, Zenon
    <3>2. T \ {PickOne(T)} \in SUBSET S
      BY <2>1
    <3>3. it[T \ {PickOne(T)}] = h[T \ {PickOne(T)}]
      BY <2>1, <3>1, <3>2, Zenon
    <3>4. h[T] = f[PickOne(T)] + h[T \ {PickOne(T)}]
      BY <2>1, <3>1, Zenon DEF AddsUp
    <3> QED
      BY <2>1, <2>2, <2>4, <3>3, <3>4, Zenon
  <2> QED
    BY <2>3, <2>4
<1> QED
  BY <1>1, <1>2

\* The library's sum of f over S.
LEMMA SumIsAdded ==
    ASSUME NEW S, IsFiniteSet(S), NEW f, \A y \in S : f[y] \in Int, NEW h, AddsUp(h, f, S)
    PROVE  SumFunctionOnSet(f, S) = h[S]
<1>1. FoldsUp(h, f, S)
  BY AddsFolds, Zenon
<1>2. FoldsUp(CHOOSE it : FoldsUp(it, f, S), f, S)
  BY <1>1, Zenon
<1>3. (CHOOSE it : FoldsUp(it, f, S)) = h
  BY <1>2, FoldsAgree, Zenon
<1>4. SumFunctionOnSet(f, S) = (CHOOSE it : FoldsUp(it, f, S))[S]
  BY Zenon DEF SumFunctionOnSet, FoldFunctionOnSet, MapThenFoldSet, FoldsUp, PickOne
<1> QED
  BY <1>3, <1>4, Zenon

SumOver(f, S) == SumFunctionOnSet(f, S)

\* A sum does not depend on the order in which its terms are taken.
LEMMA SumRemove ==
    ASSUME NEW S, IsFiniteSet(S), NEW f, \A y \in S : f[y] \in Int, NEW x \in S
    PROVE  SumOver(f, S) = f[x] + SumOver(f, S \ {x})
<1> DEFINE T == S \ {x}
<1>1. PICK h : AddsUp(h, f, S)
  BY AddsExists, Zenon
<1>2. T \in SUBSET S /\ IsFiniteSet(T) /\ \A y \in T : f[y] \in Int
  BY FS_Subset
<1> DEFINE k == [s \in SUBSET T |-> h[s]]
<1>3. AddsUp(k, f, T)
  <2>1. k \in [SUBSET T -> Int]
    BY <1>1 DEF AddsUp
  <2>2. k[{}] = 0
    BY <1>1 DEF AddsUp
  <2>3. ASSUME NEW s \in SUBSET T, NEW y \in s PROVE k[s] = f[y] + k[s \ {y}]
    <3>1. s \in SUBSET S /\ s \ {y} \in SUBSET T
      OBVIOUS
    <3> QED
      BY <1>1, <3>1, Zenon DEF AddsUp
  <2> HIDE DEF k
  <2> QED
    BY <2>1, <2>2, <2>3, Zenon DEF AddsUp
<1>4. k[T] = h[T]
  OBVIOUS
<1> HIDE DEF k, T
<1>5. SumOver(f, S) = h[S] /\ SumOver(f, T) = k[T]
  BY <1>1, <1>2, <1>3, SumIsAdded, Zenon DEF SumOver
<1>6. h[S] = f[x] + h[T]
  BY <1>1, Zenon DEF AddsUp, T
<1> QED
  BY <1>4, <1>5, <1>6, Zenon DEF T

\* The empty sum.
LEMMA SumEmpty == ASSUME NEW f PROVE SumOver(f, {}) = 0
<1>1. IsFiniteSet({}) /\ \A y \in {} : f[y] \in Int
  BY FS_EmptySet, Zenon
<1>2. PICK h : AddsUp(h, f, {})
  BY <1>1, AddsExists
<1>3. SumOver(f, {}) = h[{}]
  BY <1>1, <1>2, SumIsAdded DEF SumOver
<1> QED
  BY <1>2, <1>3, Zenon DEF AddsUp

\* A sum of integers is an integer.
LEMMA SumInt ==
    ASSUME NEW S, IsFiniteSet(S), NEW f, \A y \in S : f[y] \in Int
    PROVE  SumOver(f, S) \in Int
<1>1. PICK h : AddsUp(h, f, S)
  BY AddsExists, Zenon
<1>2. SumOver(f, S) = h[S]
  BY <1>1, SumIsAdded, Zenon DEF SumOver
<1> QED
  BY <1>1, <1>2, Zenon DEF AddsUp

\* A sum grows by the term of a new element.
LEMMA SumInsert ==
    ASSUME NEW S, IsFiniteSet(S), NEW f, \A y \in S : f[y] \in Int,
           NEW x, x \notin S, f[x] \in Int
    PROVE  IsFiniteSet(S \cup {x}) /\ SumOver(f, S \cup {x}) = f[x] + SumOver(f, S)
<1> DEFINE T == S \cup {x}
<1>1. IsFiniteSet(T)
  BY FS_AddElement, Zenon
<1>2. x \in T /\ T \ {x} = S /\ \A y \in T : f[y] \in Int
  OBVIOUS
<1> HIDE DEF T
<1>3. SumOver(f, T) = f[x] + SumOver(f, T \ {x})
  BY <1>1, <1>2, SumRemove, Zenon
<1> QED
  BY <1>1, <1>2, <1>3, Zenon DEF T

\* Sums of functions that agree where they are summed.
LEMMA SumEqual ==
    ASSUME NEW S, IsFiniteSet(S), NEW f, NEW g, \A y \in S : f[y] \in Int /\ f[y] = g[y]
    PROVE  SumOver(f, S) = SumOver(g, S)
<1>1. PICK h : AddsUp(h, f, S)
  BY AddsExists, Zenon
<1>2. AddsUp(h, g, S)
  <2>1. ASSUME NEW s \in SUBSET S, NEW x \in s PROVE h[s] = g[x] + h[s \ {x}]
    <3>1. x \in S
      OBVIOUS
    <3>2. f[x] = g[x]
      BY <3>1, Zenon
    <3> QED
      BY <1>1, <3>2, Zenon DEF AddsUp
  <2> QED
    BY <1>1, <2>1, Zenon DEF AddsUp
<1>3. SumOver(f, S) = h[S] /\ SumOver(g, S) = h[S]
  BY <1>1, <1>2, SumIsAdded, Zenon DEF SumOver
<1> QED
  BY <1>3, Zenon

\* A sum of larger terms is larger.
LEMMA SumMonotone ==
    ASSUME NEW S, IsFiniteSet(S), NEW f, NEW g,
           \A y \in S : f[y] \in Int /\ g[y] \in Int /\ f[y] <= g[y]
    PROVE  SumOver(f, S) <= SumOver(g, S)
<1> DEFINE X == {T \in SUBSET S : SumOver(f, T) <= SumOver(g, T)}
<1>1. {} \in X
  <2>1. SumOver(f, {}) <= SumOver(g, {})
    BY SumEmpty
  <2> QED
    BY <2>1, Zenon
<1>2. ASSUME NEW T \in SUBSET S, NEW x \in S \ T, T \in X PROVE T \cup {x} \in X
  <2>1. IsFiniteSet(T)
    BY FS_Subset, Zenon
  <2>2. SumOver(f, T \cup {x}) = f[x] + SumOver(f, T) /\ SumOver(g, T \cup {x}) = g[x] + SumOver(g, T)
    BY <2>1, SumInsert
  <2>3. SumOver(f, T) \in Int /\ SumOver(g, T) \in Int
    BY <2>1, SumInt
  <2>4. SumOver(f, T \cup {x}) <= SumOver(g, T \cup {x})
    BY <1>2, <2>2, <2>3
  <2>5. T \cup {x} \in SUBSET S
    OBVIOUS
  <2> QED
    BY <2>4, <2>5, Zenon
<1>3. \A T \in SUBSET S : T \in X
  <2> HIDE DEF X
  <2> QED
    BY <1>1, <1>2, FiniteInduction, Zenon
<1> QED
  BY <1>3, Zenon

\* A sum over two sets without a common element.
LEMMA SumUnion ==
    ASSUME NEW R, IsFiniteSet(R), NEW S, IsFiniteSet(S), R \cap S = {},
           NEW f, \A y \in R \cup S : f[y] \in Int
    PROVE  IsFiniteSet(R \cup S) /\ SumOver(f, R \cup S) = SumOver(f, R) + SumOver(f, S)
<1> DEFINE X == {T \in SUBSET S : IsFiniteSet(R \cup T) /\ SumOver(f, R \cup T) = SumOver(f, R) + SumOver(f, T)}
<1>1. {} \in X
  <2>1. SumOver(f, R) \in Int /\ SumOver(f, {}) = 0
    BY SumEmpty, SumInt
  <2>2. R \cup {} = R
    OBVIOUS
  <2>3. SumOver(f, R \cup {}) = SumOver(f, R) + SumOver(f, {})
    BY <2>1, <2>2
  <2> QED
    BY <2>2, <2>3, Zenon
<1>2. ASSUME NEW T \in SUBSET S, NEW x \in S \ T, T \in X PROVE T \cup {x} \in X
  <2> DEFINE U == R \cup T
  <2>1. IsFiniteSet(T) /\ IsFiniteSet(U)
    BY <1>2, FS_Subset, Zenon
  <2>2. x \notin U /\ R \cup (T \cup {x}) = U \cup {x} /\ T \cup {x} \in SUBSET S
    OBVIOUS
  <2>3. f[x] \in Int /\ \A y \in U : f[y] \in Int
    OBVIOUS
  <2>4. SumOver(f, U) = SumOver(f, R) + SumOver(f, T)
    BY <1>2, Zenon
  <2> HIDE DEF U
  <2>5. IsFiniteSet(U \cup {x}) /\ SumOver(f, U \cup {x}) = f[x] + SumOver(f, U)
    BY <2>1, <2>2, <2>3, SumInsert, Zenon
  <2>6. SumOver(f, T \cup {x}) = f[x] + SumOver(f, T)
    BY <2>1, SumInsert
  <2>7. SumOver(f, T) \in Int /\ SumOver(f, R) \in Int
    BY <2>1, SumInt
  <2>8. SumOver(f, U \cup {x}) = SumOver(f, R) + SumOver(f, T \cup {x})
    BY <2>3, <2>4, <2>5, <2>6, <2>7
  <2> QED
    BY <2>2, <2>5, <2>8, Zenon
<1>3. \A T \in SUBSET S : T \in X
  <2> HIDE DEF X
  <2> QED
    BY <1>1, <1>2, FiniteInduction, Zenon
<1> QED
  BY <1>3, Zenon

\* The sum of two functions' sums.
LEMMA SumPlus ==
    ASSUME NEW S, IsFiniteSet(S), NEW f, NEW g, NEW k,
           \A y \in S : f[y] \in Int /\ g[y] \in Int /\ k[y] = f[y] + g[y]
    PROVE  SumOver(k, S) = SumOver(f, S) + SumOver(g, S)
<1> DEFINE X == {T \in SUBSET S : SumOver(k, T) = SumOver(f, T) + SumOver(g, T)}
<1>1. {} \in X
  <2>1. SumOver(k, {}) = SumOver(f, {}) + SumOver(g, {})
    BY SumEmpty
  <2> QED
    BY <2>1, Zenon
<1>2. ASSUME NEW T \in SUBSET S, NEW x \in S \ T, T \in X PROVE T \cup {x} \in X
  <2>1. IsFiniteSet(T) /\ \A y \in T : f[y] \in Int /\ g[y] \in Int /\ k[y] \in Int
    BY FS_Subset
  <2>2. f[x] \in Int /\ g[x] \in Int /\ k[x] \in Int /\ k[x] = f[x] + g[x]
    OBVIOUS
  <2>3. /\ SumOver(f, T \cup {x}) = f[x] + SumOver(f, T) /\ SumOver(g, T \cup {x}) = g[x] + SumOver(g, T)
        /\ SumOver(k, T \cup {x}) = k[x] + SumOver(k, T)
    BY <2>1, <2>2, SumInsert
  <2>4. SumOver(f, T) \in Int /\ SumOver(g, T) \in Int /\ SumOver(k, T) \in Int
    BY <2>1, SumInt
  <2>5. SumOver(k, T) = SumOver(f, T) + SumOver(g, T)
    BY <1>2, Zenon
  <2>6. SumOver(k, T \cup {x}) = SumOver(f, T \cup {x}) + SumOver(g, T \cup {x})
    BY <2>2, <2>3, <2>4, <2>5
  <2>7. T \cup {x} \in SUBSET S
    OBVIOUS
  <2> QED
    BY <2>6, <2>7, Zenon
<1>3. \A T \in SUBSET S : T \in X
  <2> HIDE DEF X
  <2> QED
    BY <1>1, <1>2, FiniteInduction, Zenon
<1> QED
  BY <1>3, Zenon

\* A sum of zeros.
LEMMA SumZero ==
    ASSUME NEW S, IsFiniteSet(S), NEW f, \A y \in S : f[y] = 0
    PROVE  SumOver(f, S) = 0
<1> DEFINE X == {T \in SUBSET S : SumOver(f, T) = 0}
<1>1. {} \in X
  BY SumEmpty, Zenon
<1>2. ASSUME NEW T \in SUBSET S, NEW x \in S \ T, T \in X PROVE T \cup {x} \in X
  <2>1. IsFiniteSet(T) /\ (\A y \in T : f[y] \in Int) /\ f[x] = 0
    BY FS_Subset
  <2>2. SumOver(f, T \cup {x}) = f[x] + SumOver(f, T)
    BY <2>1, SumInsert
  <2>3. SumOver(f, T) = 0
    BY <1>2, Zenon
  <2>4. SumOver(f, T \cup {x}) = 0
    BY <2>1, <2>2, <2>3
  <2> QED
    BY <2>4
<1>3. \A T \in SUBSET S : T \in X
  <2> HIDE DEF X
  <2> QED
    BY <1>1, <1>2, FiniteInduction, Zenon
<1> QED
  BY <1>3, Zenon

\* A sum of natural numbers.
LEMMA SumNat ==
    ASSUME NEW S, IsFiniteSet(S), NEW f, \A y \in S : f[y] \in Nat
    PROVE  SumOver(f, S) \in Nat
<1> DEFINE z == [y \in S |-> 0]
<1>1. \A y \in S : z[y] = 0 /\ z[y] \in Int /\ f[y] \in Int /\ z[y] <= f[y]
  OBVIOUS
<1> HIDE DEF z
<1>2. SumOver(z, S) = 0 /\ SumOver(z, S) <= SumOver(f, S) /\ SumOver(f, S) \in Int
  BY <1>1, SumZero, SumMonotone, SumInt
<1> QED
  BY <1>2

\* A sum over the image of a set under an injection.
LEMMA SumReindex ==
    ASSUME NEW G, IsFiniteSet(G), NEW m, \A g, h \in G : m[g] = m[h] => g = h,
           NEW f, NEW k, \A g \in G : k[g] \in Int /\ f[m[g]] = k[g]
    PROVE  IsFiniteSet({m[g] : g \in G}) /\ SumOver(f, {m[g] : g \in G}) = SumOver(k, G)
<1> DEFINE I(H) == {m[g] : g \in H}
           X == {H \in SUBSET G : IsFiniteSet(I(H)) /\ SumOver(f, I(H)) = SumOver(k, H)}
<1>1. {} \in X
  <2>1. I({}) = {}
    OBVIOUS
  <2> QED
    BY <2>1, SumEmpty, FS_EmptySet, Zenon
<1>2. ASSUME NEW H \in SUBSET G, NEW x \in G \ H, H \in X PROVE H \cup {x} \in X
  <2>1. IsFiniteSet(H) /\ IsFiniteSet(I(H)) /\ SumOver(f, I(H)) = SumOver(k, H)
    BY <1>2, FS_Subset, Zenon
  <2>2. m[x] \notin I(H) /\ I(H \cup {x}) = I(H) \cup {m[x]}
    OBVIOUS
  <2>3. (\A y \in I(H) : f[y] \in Int) /\ (\A g \in H : k[g] \in Int) /\ k[x] \in Int /\ f[m[x]] = k[x]
    OBVIOUS
  <2> HIDE DEF I
  <2>4. SumOver(k, H \cup {x}) = k[x] + SumOver(k, H)
    BY <2>1, <2>3, SumInsert
  <2>5. IsFiniteSet(I(H) \cup {m[x]}) /\ SumOver(f, I(H) \cup {m[x]}) = f[m[x]] + SumOver(f, I(H))
    BY <2>1, <2>2, <2>3, SumInsert
  <2>6. H \cup {x} \in SUBSET G
    OBVIOUS
  <2> QED
    BY <2>1, <2>2, <2>3, <2>4, <2>5, <2>6, Zenon
<1>3. \A H \in SUBSET G : H \in X
  <2> HIDE DEF X
  <2> QED
    BY <1>1, <1>2, FiniteInduction, Zenon
<1> QED
  BY <1>3, Zenon

\* A finite set that a relation orders has a last element.
LEMMA LastElement ==
    ASSUME NEW S, IsFiniteSet(S), S # {}, NEW R,
           \A x, y \in S : x = y \/ <<x, y>> \in R \/ <<y, x>> \in R,
           \A x, y, z \in S : <<x, y>> \in R /\ <<y, z>> \in R => <<x, z>> \in R
    PROVE  \E m \in S : \A x \in S : x = m \/ <<x, m>> \in R
<1> DEFINE X == {T \in SUBSET S : T = {} \/ \E m \in T : \A x \in T : x = m \/ <<x, m>> \in R}
<1>1. {} \in X
  OBVIOUS
<1>2. ASSUME NEW T \in SUBSET S, NEW y \in S \ T, T \in X PROVE T \cup {y} \in X
  <2>1. CASE T = {}
    BY <2>1
  <2>2. ASSUME NEW m \in T, \A x \in T : x = m \/ <<x, m>> \in R PROVE T \cup {y} \in X
    <3>1. CASE <<m, y>> \in R
      <4>1. \A x \in T \cup {y} : x = y \/ <<x, y>> \in R
        BY <2>2, <3>1
      <4> QED
        BY <4>1
    <3>2. CASE <<y, m>> \in R
      <4>1. \A x \in T \cup {y} : x = m \/ <<x, m>> \in R
        BY <2>2, <3>2
      <4> QED
        BY <4>1
    <3> QED
      BY <3>1, <3>2
  <2> QED
    BY <1>2, <2>1, <2>2, Zenon
<1>3. \A T \in SUBSET S : T \in X
  <2> HIDE DEF X
  <2> QED
    BY <1>1, <1>2, FiniteInduction, Zenon
<1> QED
  BY <1>3, Zenon

\* Induction over the natural numbers, for a set X of them.
LEMMA NatSetInduction ==
    ASSUME NEW X, 0 \in X, \A n \in Nat : n \in X => n + 1 \in X
    PROVE  \A n \in Nat : n \in X
<1> SUFFICES ASSUME NEW n \in Nat, n \notin X PROVE FALSE
  OBVIOUS
<1> DEFINE Bad == {0 .. k : k \in {j \in 0 .. n : j \notin X}}
<1>1. IsFiniteSet(0 .. n) /\ Bad \subseteq SUBSET (0 .. n) /\ Bad # {}
  <2>1. IsFiniteSet(0 .. n)
    BY FS_Interval
  <2>2. 0 .. n \in Bad
    OBVIOUS
  <2> QED
    BY <2>1, <2>2
<1>2. PICK T \in Bad : \A x \in T : T \ {x} \notin Bad
  <2> HIDE DEF Bad
  <2> QED
    BY <1>1, MinimalSubset, Zenon
<1>3. PICK k \in 0 .. n : k \notin X /\ T = 0 .. k
  BY <1>2
<1>4. k # 0 /\ k - 1 \in Nat /\ k - 1 \in 0 .. n /\ k \in T /\ T \ {k} = 0 .. (k - 1)
  BY <1>3
<1>5. k - 1 \in X
  BY <1>2, <1>4
<1>6. (k - 1) + 1 = k
  BY <1>3
<1> QED
  BY <1>3, <1>4, <1>5, <1>6, Zenon

\* The larger and the smaller of two integers.
LEMMA MaxMin ==
    ASSUME NEW a \in Int, NEW b \in Int
    PROVE  Max({a, b}) = (IF a >= b THEN a ELSE b) /\ Min({a, b}) = (IF a <= b THEN a ELSE b)
<1>1. \E x \in {a, b} : \A y \in {a, b} : x >= y
  OBVIOUS
<1>2. Max({a, b}) \in {a, b} /\ \A y \in {a, b} : Max({a, b}) >= y
  BY <1>1, Zenon DEF Max
<1>3. \E x \in {a, b} : \A y \in {a, b} : x =< y
  OBVIOUS
<1>4. Min({a, b}) \in {a, b} /\ \A y \in {a, b} : Min({a, b}) =< y
  BY <1>3, Zenon DEF Min
<1> QED
  BY <1>2, <1>4

\* m maps G one to one onto I, and f on I is k on G.
Reindexes(m, G, k, I, f) ==
    /\ \A g, h \in G : m[g] = m[h] => g = h
    /\ \A g \in G : k[g] \in Int /\ f[m[g]] = k[g]
    /\ \A x : x \in I <=> \E g \in G : x = m[g]

\* The same sum, over a set that is that image.
LEMMA SumOfImage ==
    ASSUME NEW G, IsFiniteSet(G), NEW m, NEW k, NEW I, NEW f, Reindexes(m, G, k, I, f)
    PROVE  IsFiniteSet(I) /\ SumOver(f, I) = SumOver(k, G)
<1>1. /\ \A g, h \in G : m[g] = m[h] => g = h
      /\ \A g \in G : k[g] \in Int /\ f[m[g]] = k[g]
      /\ I = {m[g] : g \in G}
  BY DEF Reindexes
<1> QED
  BY <1>1, SumReindex

\* The sum of the amounts of a set of records.
SumAmounts(S) == MapThenSumSet(LAMBDA d : d.amount, S)

\* A sum of amounts is a sum of any function that gives the amounts.
LEMMA AmountSum ==
    ASSUME NEW S, IsFiniteSet(S), NEW f, \A y \in S : f[y] \in Int /\ f[y] = y.amount
    PROVE  SumAmounts(S) = SumOver(f, S)
<1> DEFINE F(it) == it = [s \in SUBSET S |->
                IF s = {} THEN 0 ELSE PickOne(s).amount + it[s \ {PickOne(s)}]]
<1>2. \A s \in SUBSET S : s # {} => f[PickOne(s)] = PickOne(s).amount
  BY PickIn, Zenon
<1>3. ASSUME NEW it PROVE F(it) <=> FoldsUp(it, f, S)
  BY <1>2, Zenon DEF FoldsUp
<1>4. PICK h : AddsUp(h, f, S)
  BY AddsExists, Zenon
<1>5. FoldsUp(h, f, S)
  BY <1>4, AddsFolds, Zenon
<1>6. F(CHOOSE it : F(it))
  BY <1>3, <1>5, Zenon
<1>7. (CHOOSE it : F(it)) = h
  BY <1>3, <1>4, <1>6, FoldsAgree, Zenon
<1>8. SumAmounts(S) = (CHOOSE it : F(it))[S]
  BY Zenon DEF SumAmounts, MapThenSumSet, MapThenFoldSet, PickOne
<1> QED
  BY <1>4, <1>7, <1>8, SumIsAdded, Zenon DEF SumOver

=============================================================================
