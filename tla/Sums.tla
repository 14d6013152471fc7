-------------------------------- MODULE Sums --------------------------------
(***************************************************************************)
(* What SumFunction of the community modules computes: the facts about     *)
(* sums over functions on a finite set that the accounts of the pipelines  *)
(* rest on.  SumFunction is a fold, that is, a function on the subsets of  *)
(* the domain defined by recursion.  The induction is one over sets of     *)
(* subsets, and rests on the strict subsets being well-founded.            *)
(***************************************************************************)
EXTENDS Integers, FiniteSetTheorems, TLAPS

(* Induction over the subsets of a finite set: a set of subsets that has   *)
(* the empty one, and each one that has it with some element removed, has  *)
(* them all.                                                               *)
LEMMA SubsetInduction ==
  ASSUME NEW S, IsFiniteSet(S), NEW G, {} \in G,
         \A T \in SUBSET S : T # {} /\ (\A x \in T : T \ {x} \in G) => T \in G
  PROVE  \A T \in SUBSET S : T \in G
<1> DEFINE B == {T \in SUBSET S : T \notin G}
<1>1. SUFFICES ASSUME B # {} PROVE FALSE
  OBVIOUS
<1>2. IsWellFoundedOn(StrictSubsetOrdering(S), SUBSET S)
  BY FS_StrictSubsetOrderingWellFounded, FS_FiniteSubsetsOfFinite
<1>3. PICK T \in B : \A U \in B : ~ (<<U, T>> \in StrictSubsetOrdering(S))
  <2>1. B \subseteq SUBSET S
    OBVIOUS
  <2> HIDE DEF B
  <2> QED
    BY <1>1, <1>2, <2>1, WFMin
<1>4. ASSUME NEW x \in T PROVE T \ {x} \in G
  <2> DEFINE U == T \ {x}
  <2>1. T \in SUBSET S /\ U \in SUBSET S /\ U \subseteq T /\ U # T
    BY <1>3
  <2> HIDE DEF U
  <2>2. <<U, T>> \in StrictSubsetOrdering(S)
    BY <2>1 DEF StrictSubsetOrdering
  <2>3. U \notin B
    BY <1>3, <2>2
  <2> QED
    BY <2>1, <2>3 DEF U
<1> QED
  BY <1>3, <1>4

(* The natural numbers up to some number, likewise.                        *)
LEMMA UpToInduction ==
  ASSUME NEW N \in Nat, NEW G, 0 \in G, \A n \in Nat : n \in G => n + 1 \in G
  PROVE  N \in G
<1> DEFINE H == {T \in SUBSET (1..N) : Cardinality(T) \in G}
<1>1. IsFiniteSet(1..N) /\ Cardinality(1..N) = N
  BY FS_Interval
<1>2. {} \in H
  BY FS_EmptySet
<1>3. ASSUME NEW T \in SUBSET (1..N), T # {}, \A x \in T : T \ {x} \in H
      PROVE  T \in H
  <2>1. PICK x \in T : TRUE
    BY <1>3
  <2>2. IsFiniteSet(T)
    BY <1>1, FS_Subset
  <2>3. Cardinality(T) \in Nat /\ Cardinality(T) # 0
    BY <1>3, <2>2, FS_CardinalityType, FS_EmptySet
  <2>4. Cardinality(T \ {x}) = Cardinality(T) - 1
    BY <2>1, <2>2, FS_RemoveElement
  <2>5. Cardinality(T) - 1 \in G
    BY <1>3, <2>1, <2>4
  <2>6. Cardinality(T) - 1 \in Nat /\ (Cardinality(T) - 1) + 1 = Cardinality(T)
    BY <2>3
  <2>7. Cardinality(T) \in G
    BY <2>5, <2>6
  <2> QED
    BY <2>7
<1>4. \A T \in SUBSET (1..N) : T \in H
  <2> HIDE DEF H
  <2> QED
    BY <1>1, <1>2, <1>3, SubsetInduction
<1> QED
  BY <1>1, <1>4

----------------------------------------------------------------------------
(* The fold.                                                               *)

(* The element that the fold takes next.                                   *)
First(s) == CHOOSE x \in s : TRUE

(* The sum of f over the subset s of its domain, in terms of the sums g of *)
(* the smaller subsets.                                                    *)
SumFrom(f, g, s) == IF s = {} THEN 0 ELSE f[First(s)] + g[s \ {First(s)}]

(* The functions that satisfy the recursion.                               *)
SumsOf(f, S, g) == g = [s \in SUBSET S |-> SumFrom(f, g, s)]

(* SumFunction is one of them, at the whole domain.                        *)
LEMMA SumFold ==
  ASSUME NEW f
  PROVE  SumFunction(f) = (CHOOSE g : SumsOf(f, DOMAIN f, g))[DOMAIN f]
BY DEF SumFunction, SumFunctionOnSet, FoldFunctionOnSet, MapThenFoldSet,
       SumsOf, SumFrom, First

(* The rest of a subset is one smaller.                                    *)
LEMMA FirstOf ==
  ASSUME NEW S, IsFiniteSet(S), NEW s \in SUBSET S, s # {}
  PROVE  /\ First(s) \in s /\ s \ {First(s)} \in SUBSET S
         /\ Cardinality(s) \in Nat
         /\ Cardinality(s \ {First(s)}) = Cardinality(s) - 1
<1>1. IsFiniteSet(s)
  BY FS_Subset
<1>2. First(s) \in s
  BY DEF First
<1>3. Cardinality(s) \in Nat
  BY <1>1, FS_CardinalityType
<1> DEFINE x == First(s)
<1> HIDE DEF x
<1>4. Cardinality(s \ {x}) = IF x \in s THEN Cardinality(s) - 1 ELSE Cardinality(s)
  BY <1>1, FS_RemoveElement
<1>5. Cardinality(s \ {x}) = Cardinality(s) - 1
  BY <1>2, <1>4 DEF x
<1> QED
  BY <1>2, <1>3, <1>5 DEF x

(* There is a function that satisfies the recursion: built for the subsets *)
(* of at most n elements, n by n.                                          *)
LEMMA SumsExist ==
  ASSUME NEW S, IsFiniteSet(S), NEW f
  PROVE  \E g : SumsOf(f, S, g)
<1> DEFINE Good(g, n) == \A s \in SUBSET S :
                           Cardinality(s) <= n => g[s] = SumFrom(f, g, s)
           Reached    == {n \in Nat : \E g : Good(g, n)}
<1>1. 0 \in Reached
  <2>1. \A s \in SUBSET S : Cardinality(s) <= 0 => s = {}
    BY FirstOf, FS_EmptySet, FS_Subset, FS_CardinalityType
  <2>2. Good([s \in SUBSET S |-> 0], 0)
    BY <2>1 DEF SumFrom
  <2> QED
    BY <2>2
<1>2. ASSUME NEW n \in Nat, n \in Reached PROVE n + 1 \in Reached
  <2>1. PICK g : Good(g, n)
    BY <1>2
  <2> DEFINE h == [s \in SUBSET S |-> SumFrom(f, g, s)]
  <2>2. ASSUME NEW s \in SUBSET S, Cardinality(s) <= n + 1
        PROVE  h[s] = SumFrom(f, h, s)
    <3>1. CASE s = {}
      BY <3>1 DEF SumFrom
    <3>2. CASE s # {}
      <4> DEFINE r == s \ {First(s)}
      <4>1. r \in SUBSET S /\ Cardinality(r) <= n
        BY <2>2, <3>2, FirstOf
      <4>2. h[r] = g[r]
        BY <2>1, <4>1
      <4> QED
        BY <3>2, <4>2 DEF SumFrom
    <3> QED
      BY <3>1, <3>2
  <2>3. Good(h, n + 1)
    BY <2>2
  <2> HIDE DEF h
  <2>4. \E g_1 : Good(g_1, n + 1)
    BY <2>3
  <2> QED
    BY <2>4
<1>3. Cardinality(S) \in Nat /\ \A s \in SUBSET S : Cardinality(s) <= Cardinality(S)
  BY FS_Subset, FS_CardinalityType
<1>4. Cardinality(S) \in Reached
  <2> HIDE DEF Reached
  <2> QED
    BY <1>1, <1>2, <1>3, UpToInduction
<1>5. PICK g : Good(g, Cardinality(S))
  BY <1>4
<1> DEFINE h == [s \in SUBSET S |-> SumFrom(f, g, s)]
<1>6. ASSUME NEW s \in SUBSET S PROVE SumFrom(f, g, s) = SumFrom(f, h, s)
  <2>1. CASE s = {}
    BY <2>1 DEF SumFrom
  <2>2. CASE s # {}
    <3>1. s \ {First(s)} \in SUBSET S
      BY <2>2, FirstOf
    <3>2. h[s \ {First(s)}] = g[s \ {First(s)}]
      BY <1>3, <1>5, <3>1
    <3> QED
      BY <2>2, <3>2 DEF SumFrom
  <2> QED
    BY <2>1, <2>2
<1>7. SumsOf(f, S, h)
  BY <1>6 DEF SumsOf
<1> QED
  BY <1>7

(* The recursion that SumFunction satisfies, with the partial sums g.      *)
SumRecursively(f, S, g) ==
  /\ SumFunction(f) = g[S]
  /\ g[{}] = 0
  /\ \A s \in SUBSET S : s # {} => g[s] = f[First(s)] + g[s \ {First(s)}]

LEMMA SumRecursion ==
  ASSUME NEW S, IsFiniteSet(S), NEW f, DOMAIN f = S
  PROVE  \E g : SumRecursively(f, S, g)
<1> DEFINE g == CHOOSE h : SumsOf(f, S, h)
<1>1. SumsOf(f, S, g)
  BY SumsExist
<1>2. SumFunction(f) = g[S]
  BY SumFold
<1> HIDE DEF g
<1>3. \A s \in SUBSET S : g[s] = SumFrom(f, g, s)
  BY <1>1 DEF SumsOf
<1>4. {} \in SUBSET S
  OBVIOUS
<1>5. g[{}] = 0
  BY <1>3, <1>4 DEF SumFrom
<1> QED
  BY <1>2, <1>3, <1>5 DEF SumRecursively, SumFrom

----------------------------------------------------------------------------
(* What a sum is.                                                          *)

(* A sum of naturals is one.                                               *)
LEMMA SumIsNat ==
  ASSUME NEW S, IsFiniteSet(S), NEW f \in [S -> Nat]
  PROVE  SumFunction(f) \in Nat
<1>1. DOMAIN f = S
  OBVIOUS
<1>2. PICK g : SumRecursively(f, S, g)
  BY <1>1, SumRecursion
<1> DEFINE G == {s \in SUBSET S : g[s] \in Nat}
<1>3. {} \in G
  BY <1>2 DEF SumRecursively
<1>4. ASSUME NEW T \in SUBSET S, T # {}, \A x \in T : T \ {x} \in G PROVE T \in G
  <2>1. First(T) \in T /\ g[T \ {First(T)}] \in Nat
    BY <1>4, FirstOf
  <2>2. g[T] = f[First(T)] + g[T \ {First(T)}]
    BY <1>2, <1>4 DEF SumRecursively
  <2> QED
    BY <2>1, <2>2
<1>5. \A T \in SUBSET S : T \in G
  <2> HIDE DEF G
  <2> QED
    BY <1>3, <1>4, SubsetInduction
<1> QED
  BY <1>2, <1>5 DEF SumRecursively

(* The sum of the sums is the sum: pointwise, and so whatever the order in *)
(* which the folds take the elements.                                      *)
LEMMA SumOfTwo ==
  ASSUME NEW S, IsFiniteSet(S), NEW f \in [S -> Nat], NEW g \in [S -> Nat],
         NEW h \in [S -> Nat], \A x \in S : h[x] = f[x] + g[x]
  PROVE  SumFunction(h) = SumFunction(f) + SumFunction(g)
<1>1. DOMAIN f = S /\ DOMAIN g = S /\ DOMAIN h = S
  OBVIOUS
<1>2. PICK F : SumRecursively(f, S, F)
  BY <1>1, SumRecursion
<1>3. PICK G : SumRecursively(g, S, G)
  BY <1>1, SumRecursion
<1>4. PICK H : SumRecursively(h, S, H)
  BY <1>1, SumRecursion
<1> DEFINE E == {s \in SUBSET S : /\ F[s] \in Nat /\ G[s] \in Nat
                                  /\ H[s] = F[s] + G[s]}
<1>5. {} \in E
  BY <1>2, <1>3, <1>4 DEF SumRecursively
<1>6. ASSUME NEW T \in SUBSET S, T # {}, \A x \in T : T \ {x} \in E PROVE T \in E
  <2> DEFINE x == First(T)
             r == T \ {First(T)}
  <2>1. x \in S /\ r \in E
    BY <1>6, FirstOf
  <2>2. F[T] = f[x] + F[r] /\ G[T] = g[x] + G[r] /\ H[T] = h[x] + H[r]
    BY <1>2, <1>3, <1>4, <1>6 DEF SumRecursively
  <2>3. f[x] \in Nat /\ g[x] \in Nat /\ h[x] = f[x] + g[x]
    BY <2>1
  <2>4. F[r] \in Nat /\ G[r] \in Nat /\ H[r] = F[r] + G[r]
    BY <2>1
  <2> HIDE DEF x, r
  <2> QED
    BY <2>2, <2>3, <2>4
<1>7. \A T \in SUBSET S : T \in E
  <2> HIDE DEF E
  <2> QED
    BY <1>5, <1>6, SubsetInduction
<1> QED
  BY <1>2, <1>3, <1>4, <1>7 DEF SumRecursively

(* The sum of a function that is zero but at one point.                    *)
LEMMA SumAtPoint ==
  ASSUME NEW S, IsFiniteSet(S), NEW f \in [S -> Nat], NEW a,
         \A x \in S \ {a} : f[x] = 0
  PROVE  SumFunction(f) = IF a \in S THEN f[a] ELSE 0
<1>1. DOMAIN f = S
  OBVIOUS
<1>2. PICK F : SumRecursively(f, S, F)
  BY <1>1, SumRecursion
<1> DEFINE E == {s \in SUBSET S : F[s] = IF a \in s THEN f[a] ELSE 0}
<1>3. {} \in E
  BY <1>2 DEF SumRecursively
<1>4. ASSUME NEW T \in SUBSET S, T # {}, \A x \in T : T \ {x} \in E PROVE T \in E
  <2> DEFINE x == First(T)
             r == T \ {x}
  <2>1. x \in T /\ r \in E
    BY <1>4, FirstOf
  <2>2. F[T] = f[x] + F[r]
    BY <1>2, <1>4 DEF SumRecursively
  <2>3. x \in S /\ f[x] \in Nat
    BY <2>1
  <2> HIDE DEF x
  <2>4. CASE x = a
    BY <2>1, <2>2, <2>3, <2>4
  <2>5. CASE x # a
    <3>1. f[x] = 0 /\ (a \in T <=> a \in r)
      BY <2>3, <2>5
    <3>2. a \in T => f[a] \in Nat
      OBVIOUS
    <3> QED
      BY <2>1, <2>2, <3>1, <3>2
  <2> QED
    BY <2>4, <2>5
<1>5. \A T \in SUBSET S : T \in E
  <2> HIDE DEF E
  <2> QED
    BY <1>3, <1>4, SubsetInduction
<1> QED
  BY <1>2, <1>5 DEF SumRecursively

----------------------------------------------------------------------------
(* What becomes of a sum.                                                  *)

(* A sum of zeros is zero.                                                 *)
LEMMA SumOfZeros ==
  ASSUME NEW S, IsFiniteSet(S), NEW f \in [S -> Nat], \A x \in S : f[x] = 0
  PROVE  SumFunction(f) = 0
<1>1. \A x \in S : f[x] = f[x] + f[x]
  OBVIOUS
<1>2. SumFunction(f) = SumFunction(f) + SumFunction(f)
  BY <1>1, SumOfTwo
<1> QED
  BY <1>2, SumIsNat

(* When one value changes, so does the sum.                                *)
LEMMA SumOfChange ==
  ASSUME NEW S, IsFiniteSet(S), NEW f \in [S -> Nat], NEW g \in [S -> Nat],
         NEW a \in S, \A x \in S \ {a} : g[x] = f[x]
  PROVE  SumFunction(g) + f[a] = SumFunction(f) + g[a]
<1> DEFINE rest == [x \in S |-> IF x = a THEN 0 ELSE f[x]]
           old  == [x \in S |-> IF x = a THEN f[a] ELSE 0]
           new  == [x \in S |-> IF x = a THEN g[a] ELSE 0]
<1>1. rest \in [S -> Nat] /\ old \in [S -> Nat] /\ new \in [S -> Nat]
  OBVIOUS
<1>2. \A x \in S : f[x] = rest[x] + old[x] /\ g[x] = rest[x] + new[x]
  OBVIOUS
<1>3. (\A x \in S \ {a} : old[x] = 0 /\ new[x] = 0) /\ old[a] = f[a] /\ new[a] = g[a]
  OBVIOUS
<1> HIDE DEF rest, old, new
<1>4. SumFunction(f) = SumFunction(rest) + SumFunction(old)
  BY <1>1, <1>2, SumOfTwo
<1>5. SumFunction(g) = SumFunction(rest) + SumFunction(new)
  BY <1>1, <1>2, SumOfTwo
<1>6. SumFunction(old) = f[a] /\ SumFunction(new) = g[a]
  BY <1>1, <1>3, SumAtPoint
<1>7. SumFunction(rest) \in Nat /\ f[a] \in Nat /\ g[a] \in Nat
  BY <1>1, SumIsNat
<1> QED
  BY <1>4, <1>5, <1>6, <1>7

(* A sum grows with its terms.                                             *)
LEMMA SumGrows ==
  ASSUME NEW S, IsFiniteSet(S), NEW f \in [S -> Nat], NEW g \in [S -> Nat],
         \A x \in S : f[x] <= g[x]
  PROVE  SumFunction(f) <= SumFunction(g)
<1> DEFINE d == [x \in S |-> g[x] - f[x]]
<1>1. d \in [S -> Nat] /\ \A x \in S : g[x] = f[x] + d[x]
  OBVIOUS
<1> HIDE DEF d
<1>2. SumFunction(g) = SumFunction(f) + SumFunction(d)
  BY <1>1, SumOfTwo
<1>3. SumFunction(f) \in Nat /\ SumFunction(d) \in Nat
  BY <1>1, SumIsNat
<1> QED
  BY <1>2, <1>3
=============================================================================
