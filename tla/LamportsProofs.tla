--------------------------- MODULE LamportsProofs ---------------------------
(***************************************************************************)
(* Lemmas about the arithmetic of Lamports: how a sum over rounds or       *)
(* players changes when one of them does, what a basis-point cut bounds.   *)
(* The sums are the community fold; its recursion is reduced to minimal    *)
(* counterexamples among the subsets of a finite set.                      *)
(***************************************************************************)
EXTENDS Lamports, FiniteSetTheorems, WellFoundedInduction, TLAPS

-----------------------------------------------------------------------------
(* Sums over a finite set, SumFunctionOnSet(f, S).                         *)

\* Every non-empty collection of subsets of a finite set has a minimal one.
LEMMA MinimalSubset ==
    ASSUME NEW S, IsFiniteSet(S), NEW C \in SUBSET (SUBSET S), C # {}
    PROVE  \E T \in C : \A U \in C : U \subseteq T => U = T
<1> DEFINE R == StrictSubsetOrdering(S)
           F == FiniteSubsetsOf(S)
<1>1. C \subseteq F
  BY FS_Subset DEF FiniteSubsetsOf
<1>2. IsWellFoundedOn(R, F)
  BY FS_StrictSubsetOrderingWellFounded
<1>3. PICK T \in C : \A U \in C : ~ (<<U, T>> \in R)
  <2> HIDE DEF R, F
  <2> QED BY <1>1, <1>2, WFMin
<1>4. ASSUME NEW U \in C, U \subseteq T, U # T PROVE FALSE
  <2>1. <<U, T>> \in R
    BY <1>4 DEF StrictSubsetOrdering
  <2> QED BY <1>3, <2>1
<1> QED BY <1>3, <1>4

\* The element that the fold takes next, and the sums of all subsets.
FirstOf(s) == CHOOSE x \in s : TRUE
SumsOf(u, f, S) ==
    [s \in SUBSET S |-> IF s = {} THEN 0 ELSE f[FirstOf(s)] + u[s \ {FirstOf(s)}]]
IsSums(u, f, S) == u = SumsOf(u, f, S)

LEMMA IsSumsDef ==
    ASSUME NEW u, NEW f, NEW S
    PROVE  IsSums(u, f, S) <=>
             /\ u = [s \in SUBSET S |-> u[s]]
             /\ S \in SUBSET S
             /\ \A s \in SUBSET S :
                   u[s] = IF s = {} THEN 0 ELSE f[FirstOf(s)] + u[s \ {FirstOf(s)}]
<1>1. ASSUME u = [s \in SUBSET S |-> u[s]],
             \A s \in SUBSET S :
                   u[s] = IF s = {} THEN 0 ELSE f[FirstOf(s)] + u[s \ {FirstOf(s)}]
      PROVE  IsSums(u, f, S)
  BY <1>1 DEF IsSums, SumsOf
<1>2. ASSUME IsSums(u, f, S)
      PROVE  /\ u = [s \in SUBSET S |-> u[s]]
             /\ \A s \in SUBSET S :
                   u[s] = IF s = {} THEN 0 ELSE f[FirstOf(s)] + u[s \ {FirstOf(s)}]
  <2>1. ASSUME NEW s \in SUBSET S
        PROVE  u[s] = IF s = {} THEN 0 ELSE f[FirstOf(s)] + u[s \ {FirstOf(s)}]
    <3>1. SumsOf(u, f, S)[s] = IF s = {} THEN 0 ELSE f[FirstOf(s)] + u[s \ {FirstOf(s)}]
      BY <2>1 DEF SumsOf
    <3> QED BY <1>2, <3>1 DEF IsSums
  <2>2. SumsOf(u, f, S) = [s \in SUBSET S |-> SumsOf(u, f, S)[s]]
    BY DEF SumsOf
  <2>3. u = [s \in SUBSET S |-> u[s]]
    BY <1>2, <2>2 DEF IsSums
  <2> QED BY <2>1, <2>3
<1> QED BY <1>1, <1>2

LEMMA FirstOfIn == ASSUME NEW s, s # {} PROVE FirstOf(s) \in s
BY DEF FirstOf

\* Two families of sums agree where both are defined, for summands that agree.
LEMMA SumsUnique ==
    ASSUME NEW S, NEW T, IsFiniteSet(T), T \subseteq S, NEW f, NEW g,
           \A x \in T : f[x] = g[x],
           NEW u, IsSums(u, f, S), NEW v, IsSums(v, g, T)
    PROVE  \A s \in SUBSET T : u[s] = v[s]
<1> DEFINE Bad == {s \in SUBSET T : u[s] # v[s]}
<1> SUFFICES ASSUME Bad # {} PROVE FALSE
  OBVIOUS
<1>1. PICK s \in Bad : \A w \in Bad : w \subseteq s => w = s
  <2>1. Bad \in SUBSET (SUBSET T)
    OBVIOUS
  <2> HIDE DEF Bad
  <2> QED BY <2>1, MinimalSubset
<1>2. s \in SUBSET T /\ s \in SUBSET S
  OBVIOUS
<1>3. u[s] = IF s = {} THEN 0 ELSE f[FirstOf(s)] + u[s \ {FirstOf(s)}]
  BY <1>2, IsSumsDef
<1>4. v[s] = IF s = {} THEN 0 ELSE g[FirstOf(s)] + v[s \ {FirstOf(s)}]
  BY <1>2, IsSumsDef
<1>5. s # {}
  BY <1>3, <1>4
<1>6. FirstOf(s) \in s /\ s \ {FirstOf(s)} # s /\ s \ {FirstOf(s)} \in SUBSET T
  BY <1>2, <1>5, FirstOfIn
<1>7. u[s \ {FirstOf(s)}] = v[s \ {FirstOf(s)}]
  BY <1>1, <1>6
<1> QED BY <1>2, <1>3, <1>4, <1>5, <1>6, <1>7

LEMMA SumsExist ==
    ASSUME NEW S, IsFiniteSet(S), NEW f
    PROVE  \E u : IsSums(u, f, S)
<1> DEFINE Bad == {T \in SUBSET S : ~ \E u : IsSums(u, f, T)}
<1> SUFFICES ASSUME S \in Bad PROVE FALSE
  OBVIOUS
<1>1. PICK T \in Bad : \A U \in Bad : U \subseteq T => U = T
  <2>1. Bad \in SUBSET (SUBSET S) /\ Bad # {}
    OBVIOUS
  <2> HIDE DEF Bad
  <2> QED BY <2>1, MinimalSubset
<1> DEFINE Sums(U) == CHOOSE u : IsSums(u, f, U)
           val(U) == Sums(U)[U]
<1>2. ASSUME NEW U \in SUBSET T, U # T
      PROVE  IsFiniteSet(U) /\ IsSums(Sums(U), f, U)
  <2>1. U \notin Bad /\ U \in SUBSET S
    BY <1>1, <1>2
  <2>2. \E u : IsSums(u, f, U)
    BY <2>1
  <2> QED BY <2>1, <2>2, FS_Subset
<1> HIDE DEF Sums
<1>3. ASSUME NEW U \in SUBSET T, U # T
      PROVE  val(U) = IF U = {} THEN 0 ELSE f[FirstOf(U)] + val(U \ {FirstOf(U)})
  <2>1. IsSums(Sums(U), f, U)
    BY <1>2, <1>3
  <2>2. Sums(U)[U] = IF U = {} THEN 0 ELSE f[FirstOf(U)] + Sums(U)[U \ {FirstOf(U)}]
    BY <2>1, IsSumsDef
  <2>3. ASSUME U # {} PROVE Sums(U)[U \ {FirstOf(U)}] = val(U \ {FirstOf(U)})
    <3> DEFINE W == U \ {FirstOf(U)}
    <3>1. W \in SUBSET T /\ W # T /\ W \subseteq U
      BY <1>3, <2>3, FirstOfIn
    <3>2. IsSums(Sums(W), f, W) /\ IsFiniteSet(W)
      BY <1>2, <3>1
    <3> DEFINE u == Sums(U)
               w == Sums(W)
    <3>3. IsSums(u, f, U) /\ IsSums(w, f, W)
      BY <2>1, <3>2
    <3> HIDE DEF W, u, w
    <3>4. \A s \in SUBSET W : u[s] = w[s]
      BY <3>1, <3>2, <3>3, SumsUnique
    <3>5. u[W] = w[W]
      BY <3>4
    <3> QED BY <3>5 DEF W, u, w
  <2> QED BY <2>2, <2>3
<1> HIDE DEF val
<1> DEFINE v == [s \in SUBSET T |->
                   IF s = T THEN (IF T = {} THEN 0 ELSE f[FirstOf(T)] + val(T \ {FirstOf(T)}))
                   ELSE val(s)]
<1>4. v = [s \in SUBSET T |-> v[s]]
  OBVIOUS
<1>5. ASSUME NEW s \in SUBSET T
      PROVE  v[s] = IF s = {} THEN 0 ELSE f[FirstOf(s)] + v[s \ {FirstOf(s)}]
  <2>1. s # {} => /\ s \ {FirstOf(s)} \in SUBSET T /\ s \ {FirstOf(s)} # T
    BY FirstOfIn
  <2>2. s # {} => v[s \ {FirstOf(s)}] = val(s \ {FirstOf(s)})
    BY <2>1
  <2>3. CASE s = T
    BY <2>2, <2>3
  <2>4. CASE s # T
    BY <1>3, <2>2, <2>4
  <2> QED BY <2>3, <2>4
<1> HIDE DEF v
<1>6. IsSums(v, f, T)
  BY <1>4, <1>5, IsSumsDef
<1> QED BY <1>6

\* The fold is such a family.
LEMMA SumIsSums ==
    ASSUME NEW S, IsFiniteSet(S), NEW f
    PROVE  \E u : IsSums(u, f, S) /\ SumFunctionOnSet(f, S) = u[S]
<1> DEFINE w == CHOOSE u : IsSums(u, f, S)
<1>1. IsSums(w, f, S)
  BY SumsExist
<1>2. SumFunctionOnSet(f, S) = w[S]
  BY DEF SumFunctionOnSet, FoldFunctionOnSet, MapThenFoldSet, IsSums, SumsOf, FirstOf
<1> HIDE DEF w
<1> QED BY <1>1, <1>2

LEMMA SumEmpty == ASSUME NEW f PROVE SumFunctionOnSet(f, {}) = 0
<1>1. IsFiniteSet({})
  BY FS_EmptySet
<1>2. PICK u : IsSums(u, f, {}) /\ SumFunctionOnSet(f, {}) = u[{}]
  BY <1>1, SumIsSums
<1> QED BY <1>2, IsSumsDef

\* Only the summands over S matter.
LEMMA SumSame ==
    ASSUME NEW S, IsFiniteSet(S), NEW f, NEW g, \A x \in S : f[x] = g[x]
    PROVE  SumFunctionOnSet(f, S) = SumFunctionOnSet(g, S)
<1>1. PICK u : IsSums(u, f, S) /\ SumFunctionOnSet(f, S) = u[S]
  BY SumIsSums
<1>2. PICK v : IsSums(v, g, S) /\ SumFunctionOnSet(g, S) = v[S]
  BY SumIsSums
<1>3. \A s \in SUBSET S : u[s] = v[s]
  BY <1>1, <1>2, SumsUnique
<1> QED BY <1>1, <1>2, <1>3

LEMMA SumFirst ==
    ASSUME NEW S, IsFiniteSet(S), S # {}, NEW f
    PROVE  SumFunctionOnSet(f, S) = f[FirstOf(S)] + SumFunctionOnSet(f, S \ {FirstOf(S)})
<1> DEFINE T == S \ {FirstOf(S)}
<1>1. T \subseteq S /\ IsFiniteSet(T)
  BY FS_Subset
<1> HIDE DEF T
<1>2. PICK u : IsSums(u, f, S) /\ SumFunctionOnSet(f, S) = u[S]
  BY SumIsSums
<1>3. PICK v : IsSums(v, f, T) /\ SumFunctionOnSet(f, T) = v[T]
  BY <1>1, SumIsSums
<1>4. u[T] = v[T]
  BY <1>1, <1>2, <1>3, SumsUnique
<1>5. u[S] = f[FirstOf(S)] + u[T]
  BY <1>2, IsSumsDef DEF T
<1> QED BY <1>2, <1>3, <1>4, <1>5 DEF T

\* A sum of integers is an integer.
LEMMA SumInt ==
    ASSUME NEW S, IsFiniteSet(S), NEW f, \A x \in S : f[x] \in Int
    PROVE  SumFunctionOnSet(f, S) \in Int
<1> DEFINE Bad == {T \in SUBSET S : SumFunctionOnSet(f, T) \notin Int}
<1> SUFFICES ASSUME Bad # {} PROVE FALSE
  OBVIOUS
<1>1. PICK T \in Bad : \A U \in Bad : U \subseteq T => U = T
  <2>1. Bad \in SUBSET (SUBSET S)
    OBVIOUS
  <2> HIDE DEF Bad
  <2> QED BY <2>1, MinimalSubset
<1>2. T # {}
  BY SumEmpty
<1>3. FirstOf(T) \in T /\ IsFiniteSet(T)
  BY <1>2, FirstOfIn, FS_Subset
<1>4. SumFunctionOnSet(f, T \ {FirstOf(T)}) \in Int
  BY <1>1, <1>3
<1>5. SumFunctionOnSet(f, T) = f[FirstOf(T)] + SumFunctionOnSet(f, T \ {FirstOf(T)})
  BY <1>2, <1>3, SumFirst
<1> QED BY <1>3, <1>4, <1>5

\* The order of summation does not matter.
LEMMA SumRemove ==
    ASSUME NEW S, IsFiniteSet(S), NEW f, \A x \in S : f[x] \in Int, NEW x \in S
    PROVE  SumFunctionOnSet(f, S) = f[x] + SumFunctionOnSet(f, S \ {x})
<1> DEFINE sum(T) == SumFunctionOnSet(f, T)
           Bad == {T \in SUBSET S : \E y \in T : sum(T) # f[y] + sum(T \ {y})}
<1> SUFFICES ASSUME Bad # {} PROVE FALSE
  OBVIOUS
<1>1. PICK T \in Bad : \A U \in Bad : U \subseteq T => U = T
  <2>1. Bad \in SUBSET (SUBSET S)
    OBVIOUS
  <2> HIDE DEF Bad
  <2> QED BY <2>1, MinimalSubset
<1>2. PICK y \in T : sum(T) # f[y] + sum(T \ {y})
  OBVIOUS
<1> DEFINE z == FirstOf(T)
<1>3. z \in T /\ IsFiniteSet(T)
  BY FirstOfIn, FS_Subset
<1>4. sum(T) = f[z] + sum(T \ {z})
  BY <1>3, SumFirst
<1> HIDE DEF z
<1>5. y # z
  BY <1>2, <1>4
<1>6. /\ T \ {y} \in SUBSET S /\ T \ {z} \in SUBSET S
      /\ T \ {y} \notin Bad /\ T \ {z} \notin Bad
      /\ z \in T \ {y} /\ y \in T \ {z}
  BY <1>1, <1>3, <1>5
<1>7. /\ sum(T \ {z}) = f[y] + sum((T \ {z}) \ {y})
      /\ sum(T \ {y}) = f[z] + sum((T \ {y}) \ {z})
  BY <1>6
<1>8. (T \ {z}) \ {y} = (T \ {y}) \ {z}
  OBVIOUS
<1>9. sum((T \ {y}) \ {z}) \in Int /\ f[y] \in Int /\ f[z] \in Int
  <2>1. (T \ {y}) \ {z} \in SUBSET S
    OBVIOUS
  <2> QED BY <1>3, <2>1, FS_Subset, SumInt
<1> DEFINE W == (T \ {y}) \ {z}
<1>10. /\ sum(T) = f[z] + (f[y] + sum(W))
       /\ sum(T \ {y}) = f[z] + sum(W)
  BY <1>4, <1>7, <1>8
<1> HIDE DEF sum, W, Bad
<1> QED BY <1>2, <1>9, <1>10 DEF W

LEMMA SumInsert ==
    ASSUME NEW S, IsFiniteSet(S), NEW x, x \notin S,
           NEW f, \A y \in S \cup {x} : f[y] \in Int
    PROVE  SumFunctionOnSet(f, S \cup {x}) = f[x] + SumFunctionOnSet(f, S)
<1> DEFINE T == S \cup {x}
<1>1. IsFiniteSet(T) /\ x \in T /\ T \ {x} = S /\ \A y \in T : f[y] \in Int
  BY FS_AddElement
<1> HIDE DEF T
<1>2. SumFunctionOnSet(f, T) = f[x] + SumFunctionOnSet(f, T \ {x})
  BY <1>1, SumRemove
<1> QED BY <1>1, <1>2 DEF T

\* Changing one summand changes the sum by the difference.
LEMMA SumChangeOne ==
    ASSUME NEW S, IsFiniteSet(S), NEW k \in S, NEW f, NEW g,
           \A x \in S : f[x] \in Int /\ g[x] \in Int,
           \A x \in S : x # k => g[x] = f[x]
    PROVE  SumFunctionOnSet(g, S) = SumFunctionOnSet(f, S) + g[k] - f[k]
<1> DEFINE T == S \ {k}
<1>1. IsFiniteSet(T) /\ T \subseteq S /\ \A x \in T : f[x] = g[x]
  BY FS_Subset
<1>2. /\ SumFunctionOnSet(f, S) = f[k] + SumFunctionOnSet(f, T)
      /\ SumFunctionOnSet(g, S) = g[k] + SumFunctionOnSet(g, T)
  BY SumRemove
<1> HIDE DEF T
<1>3. SumFunctionOnSet(f, T) = SumFunctionOnSet(g, T)
  BY <1>1, SumSame
<1>4. SumFunctionOnSet(f, T) \in Int
  BY <1>1, SumInt
<1> QED BY <1>2, <1>3, <1>4

\* A sum of naturals is a natural.
LEMMA SumNat ==
    ASSUME NEW S, IsFiniteSet(S), NEW f, \A x \in S : f[x] \in Nat
    PROVE  SumFunctionOnSet(f, S) \in Nat
<1> DEFINE Bad == {T \in SUBSET S : SumFunctionOnSet(f, T) \notin Nat}
<1> SUFFICES ASSUME Bad # {} PROVE FALSE
  OBVIOUS
<1>1. PICK T \in Bad : \A U \in Bad : U \subseteq T => U = T
  <2>1. Bad \in SUBSET (SUBSET S)
    OBVIOUS
  <2> HIDE DEF Bad
  <2> QED BY <2>1, MinimalSubset
<1>2. T # {}
  BY SumEmpty
<1>3. FirstOf(T) \in T /\ IsFiniteSet(T)
  BY <1>2, FirstOfIn, FS_Subset
<1>4. SumFunctionOnSet(f, T \ {FirstOf(T)}) \in Nat
  BY <1>1, <1>3
<1>5. SumFunctionOnSet(f, T) = f[FirstOf(T)] + SumFunctionOnSet(f, T \ {FirstOf(T)})
  BY <1>2, <1>3, SumFirst
<1> QED BY <1>3, <1>4, <1>5

\* No summand exceeds a sum of naturals.
LEMMA SumTerm ==
    ASSUME NEW S, IsFiniteSet(S), NEW f, \A x \in S : f[x] \in Nat, NEW k \in S
    PROVE  f[k] <= SumFunctionOnSet(f, S)
<1> DEFINE T == S \ {k}
<1>1. IsFiniteSet(T) /\ T \subseteq S /\ \A x \in S : f[x] \in Int
  BY FS_Subset
<1>2. SumFunctionOnSet(f, S) = f[k] + SumFunctionOnSet(f, T)
  BY <1>1, SumRemove
<1> HIDE DEF T
<1>3. SumFunctionOnSet(f, T) \in Nat
  BY <1>1, SumNat
<1> QED BY <1>2, <1>3

\* A sum of zeros is zero.
LEMMA SumZero ==
    ASSUME NEW S, IsFiniteSet(S), NEW f, \A x \in S : f[x] = 0
    PROVE  SumFunctionOnSet(f, S) = 0
<1> DEFINE Bad == {T \in SUBSET S : SumFunctionOnSet(f, T) # 0}
<1> SUFFICES ASSUME Bad # {} PROVE FALSE
  OBVIOUS
<1>1. PICK T \in Bad : \A U \in Bad : U \subseteq T => U = T
  <2>1. Bad \in SUBSET (SUBSET S)
    OBVIOUS
  <2> HIDE DEF Bad
  <2> QED BY <2>1, MinimalSubset
<1>2. T # {}
  BY SumEmpty
<1>3. FirstOf(T) \in T /\ IsFiniteSet(T)
  BY <1>2, FirstOfIn, FS_Subset
<1>4. SumFunctionOnSet(f, T \ {FirstOf(T)}) = 0
  BY <1>1, <1>3
<1>5. SumFunctionOnSet(f, T) = f[FirstOf(T)] + SumFunctionOnSet(f, T \ {FirstOf(T)})
  BY <1>2, <1>3, SumFirst
<1> QED BY <1>3, <1>4, <1>5

-----------------------------------------------------------------------------
(* The same for the sum f[1] + ... + f[n].                                 *)

LEMMA SegmentFinite == ASSUME NEW n \in Nat PROVE IsFiniteSet(1..n)
BY FS_Interval

LEMMA SumToType ==
    ASSUME NEW n \in Nat, NEW f, \A i \in 1..n : f[i] \in Int
    PROVE  SumTo(f, n) \in Int
BY SegmentFinite, SumInt DEF SumTo

LEMMA SumToChangeOne ==
    ASSUME NEW n \in Nat, NEW k \in 1..n, NEW f, NEW g,
           \A i \in 1..n : f[i] \in Int /\ g[i] \in Int,
           \A i \in 1..n : i # k => g[i] = f[i]
    PROVE  SumTo(g, n) = SumTo(f, n) + g[k] - f[k]
<1> DEFINE S == 1..n
<1>1. IsFiniteSet(S)
  BY SegmentFinite
<1> HIDE DEF S
<1>2. SumFunctionOnSet(g, S) = SumFunctionOnSet(f, S) + g[k] - f[k]
  <2>1. /\ k \in S
        /\ \A i \in S : f[i] \in Int /\ g[i] \in Int
        /\ \A i \in S : i # k => g[i] = f[i]
    BY DEF S
  <2> QED BY <1>1, <2>1, SumChangeOne
<1> QED BY <1>2 DEF SumTo, S

LEMMA SumToZero ==
    ASSUME NEW n \in Nat, NEW f, \A i \in 1..n : f[i] = 0
    PROVE  SumTo(f, n) = 0
BY SegmentFinite, SumZero DEF SumTo

LEMMA SumToNat ==
    ASSUME NEW n \in Nat, NEW f, \A i \in 1..n : f[i] \in Nat
    PROVE  SumTo(f, n) \in Nat
BY SegmentFinite, SumNat DEF SumTo

LEMMA SumToTerm ==
    ASSUME NEW n \in Nat, NEW f, \A i \in 1..n : f[i] \in Nat, NEW k \in 1..n
    PROVE  f[k] <= SumTo(f, n)
BY SegmentFinite, SumTerm DEF SumTo

-----------------------------------------------------------------------------
(* Basis-point cuts.                                                       *)

\* A cut of at most the whole takes at most the whole and is never negative.
LEMMA BpsCutBounds ==
    ASSUME NEW amount \in Nat, NEW bps \in 0..BPS_TOTAL
    PROVE  BpsCut(amount, bps) \in Nat /\ BpsCut(amount, bps) <= amount
<1>1. amount * bps \in Nat /\ amount * bps <= amount * 10000
  BY SMT DEF BPS_TOTAL
<1>2. (amount * bps) \div 10000 \in Nat /\ (amount * bps) \div 10000 <= amount
  BY <1>1, SMT
<1> QED BY <1>2 DEF BpsCut, BPS_TOTAL

\* A quotient of naturals is a natural.
LEMMA DivNat ==
    ASSUME NEW a \in Nat, NEW b \in Nat \ {0}
    PROVE  a \div b \in Nat
BY SMT
=============================================================================
