----------------------------- MODULE SumTheorems -----------------------------
(***************************************************************************)
(* Sums of a function over a finite set, the SumFunctionOnSet of module    *)
(* Functions: the facts that the invariants on ledgers, wallets and        *)
(* spending need.                                                          *)
(*                                                                         *)
(* The induction is over the finite subsets of a set and is written with   *)
(* sets alone: a counterexample would have a smallest one, which has none. *)
(***************************************************************************)
EXTENDS FiniteSetsExt, FiniteSetTheorems, TLAPS

-----------------------------------------------------------------------------
(* Induction over the subsets of a finite set.                             *)

\* A nonempty set of subsets of a finite set has a smallest member.
LEMMA SmallestSubset ==
  ASSUME NEW S, IsFiniteSet(S), NEW Bad \in SUBSET SUBSET S, Bad # {}
  PROVE  \E T \in Bad : \A U \in Bad : U \subseteq T => U = T
<1>1. IsWellFoundedOn(StrictSubsetOrdering(S), FiniteSubsetsOf(S))
  BY FS_StrictSubsetOrderingWellFounded
<1>2. Bad \subseteq FiniteSubsetsOf(S)
  BY FS_FiniteSubsetsOfFinite
<1>3. PICK T \in Bad : \A U \in Bad : <<U, T>> \notin StrictSubsetOrdering(S)
  BY <1>1, <1>2, WFMin
<1>4. ASSUME NEW U \in Bad, U \subseteq T
      PROVE  U = T
  BY <1>3, <1>4 DEF StrictSubsetOrdering
<1> QED  BY <1>4

\* A finite nonempty set of integers has a greatest element.
LEMMA FiniteSetHasMax ==
  ASSUME NEW S, IsFiniteSet(S), S # {}, \A x \in S : x \in Int
  PROVE  \E m \in S : \A x \in S : x <= m
<1> DEFINE Bad == {T \in SUBSET S : T # {} /\ ~ \E m \in T : \A x \in T : x <= m}
<1> SUFFICES ASSUME Bad # {} PROVE FALSE
  OBVIOUS
<1>1. PICK T \in Bad : \A U \in Bad : U \subseteq T => U = T
  <2>1. Bad \in SUBSET SUBSET S
    OBVIOUS
  <2> HIDE DEF Bad
  <2> QED  BY <2>1, SmallestSubset
<1>2. PICK t \in T : TRUE
  OBVIOUS
<1>3. T \ {t} \notin Bad
  BY <1>1, <1>2
<1>4. CASE T \ {t} = {}
  BY <1>2, <1>4
<1>5. CASE T \ {t} # {}
  <2>1. PICK m \in T \ {t} : \A x \in T \ {t} : x <= m
    BY <1>3, <1>5
  <2>2. \A x \in T : x <= (IF t <= m THEN m ELSE t)
    BY <2>1, <1>2
  <2> QED  BY <2>1, <2>2, <1>2
<1> QED  BY <1>4, <1>5

-----------------------------------------------------------------------------
(* The recursive function behind a sum.                                    *)

\* The recursion of MapThenFoldSet for a sum of g over the subsets of T.
SumRecursion(h, g, T) ==
  h = [s \in SUBSET T |->
         IF s = {} THEN 0
         ELSE g[CHOOSE x \in s : TRUE] + h[s \ {CHOOSE x \in s : TRUE}]]

LEMMA SumUnfolds ==
  ASSUME NEW g, NEW S
  PROVE  SumFunctionOnSet(g, S) = (CHOOSE h : SumRecursion(h, g, S))[S]
  BY DEF SumFunctionOnSet, FoldFunctionOnSet, MapThenFoldSet, SumRecursion

\* At most one function satisfies the recursion.
LEMMA SumsUnique ==
  ASSUME NEW S, IsFiniteSet(S), NEW g, NEW h, NEW k, SumRecursion(h, g, S), SumRecursion(k, g, S)
  PROVE  h = k
<1> DEFINE Bad == {T \in SUBSET S : h[T] # k[T]}
<1> SUFFICES ASSUME Bad # {} PROVE FALSE
  BY DEF SumRecursion
<1>1. PICK T \in Bad : \A U \in Bad : U \subseteq T => U = T
  <2>1. Bad \in SUBSET SUBSET S
    OBVIOUS
  <2> HIDE DEF Bad
  <2> QED  BY <2>1, SmallestSubset
<1>2. CASE T = {}
  BY <1>2 DEF SumRecursion
<1>3. CASE T # {}
  <2> DEFINE x == CHOOSE x \in T : TRUE
  <2>1. x \in T
    BY <1>3
  <2> HIDE DEF x
  <2>2. h[T \ {x}] = k[T \ {x}]
    BY <1>1, <2>1
  <2>3. h[T] = g[x] + h[T \ {x}] /\ k[T] = g[x] + k[T \ {x}]
    BY <1>3 DEF SumRecursion, x
  <2> QED  BY <2>2, <2>3
<1> QED  BY <1>2, <1>3

\* Restricting it to the subsets of a subset keeps the recursion.
LEMMA SumsRestrict ==
  ASSUME NEW S, NEW g, NEW h, SumRecursion(h, g, S), NEW T \in SUBSET S
  PROVE  SumRecursion([s \in SUBSET T |-> h[s]], g, T)
<1> DEFINE k == [s \in SUBSET T |-> h[s]]
<1>1. ASSUME NEW s \in SUBSET T
      PROVE  k[s] = IF s = {} THEN 0
                    ELSE g[CHOOSE x \in s : TRUE] + k[s \ {CHOOSE x \in s : TRUE}]
  <2>1. s \in SUBSET S /\ k[s] = h[s]
    OBVIOUS
  <2>2. k[s \ {CHOOSE x \in s : TRUE}] = h[s \ {CHOOSE x \in s : TRUE}]
    OBVIOUS
  <2> HIDE DEF k
  <2> QED  BY <2>1, <2>2 DEF SumRecursion
<1> QED  BY <1>1 DEF SumRecursion

\* Some function satisfies the recursion.
LEMMA SumsExists ==
  ASSUME NEW S, IsFiniteSet(S), NEW g
  PROVE  \E h : SumRecursion(h, g, S)
<1> DEFINE Bad == {T \in SUBSET S : ~ \E h : SumRecursion(h, g, T)}
<1> SUFFICES ASSUME Bad # {} PROVE FALSE
  OBVIOUS
<1>1. PICK T \in Bad : \A U \in Bad : U \subseteq T => U = T
  <2>1. Bad \in SUBSET SUBSET S
    OBVIOUS
  <2> HIDE DEF Bad
  <2> QED  BY <2>1, SmallestSubset
<1> DEFINE F(U) == CHOOSE h : SumRecursion(h, g, U)
           first(s) == CHOOSE x \in s : TRUE
           H == [s \in SUBSET T |->
                   IF s = {} THEN 0 ELSE g[first(s)] + F(s \ {first(s)})[s \ {first(s)}]]
<1>2. \A s \in SUBSET T : s # {} => first(s) \in s
  OBVIOUS
<1>3. ASSUME NEW U \in SUBSET T, U # T
      PROVE  SumRecursion(F(U), g, U)
  <2>1. \E h : SumRecursion(h, g, U)
    BY <1>1, <1>3
  <2> QED  BY <2>1
<1> HIDE DEF F, first
<1>4. ASSUME NEW s \in SUBSET T, s # T
      PROVE  F(s)[s] = H[s]
  <2>1. SumRecursion(F(s), g, s)
    BY <1>3, <1>4
  <2>2. CASE s = {}
    BY <2>1, <2>2 DEF SumRecursion
  <2>3. CASE s # {}
    <3> DEFINE u == s \ {first(s)}
               r == [v \in SUBSET u |-> F(s)[v]]
    <3>1. u \in SUBSET s /\ u \in SUBSET T /\ u # T /\ IsFiniteSet(u)
      <4>1. u \in SUBSET S
        BY <1>1
      <4>2. IsFiniteSet(u)
        BY <4>1, FS_Subset
      <4>3. first(s) \in s /\ first(s) \notin u
        BY <1>2, <2>3
      <4> QED  BY <4>2, <4>3
    <3>2. SumRecursion(r, g, u)
      BY <2>1, <3>1, SumsRestrict
    <3>3. SumRecursion(F(u), g, u)
      BY <1>3, <3>1
    <3>4. r = F(u)
      BY <3>1, <3>2, <3>3, SumsUnique
    <3>5. F(s)[u] = F(u)[u]
      BY <3>4
    <3>6. F(s)[s] = g[first(s)] + F(s)[u]
      BY <2>1, <2>3 DEF SumRecursion, first
    <3> QED  BY <2>3, <3>5, <3>6
  <2> QED  BY <2>2, <2>3
<1>5. ASSUME NEW s \in SUBSET T
      PROVE  H[s] = IF s = {} THEN 0 ELSE g[first(s)] + H[s \ {first(s)}]
  <2>1. CASE s = {}
    BY <2>1
  <2>2. CASE s # {}
    <3>1. s \ {first(s)} \in SUBSET T /\ s \ {first(s)} # T
      BY <1>2, <2>2
    <3>2. F(s \ {first(s)})[s \ {first(s)}] = H[s \ {first(s)}]
      BY <1>4, <3>1
    <3> QED  BY <2>2, <3>2
  <2> QED  BY <2>1, <2>2
<1>6. SumRecursion(H, g, T)
  BY <1>5 DEF SumRecursion, first
<1> QED  BY <1>1, <1>6
-----------------------------------------------------------------------------
(* What a sum is.                                                          *)

LEMMA SumIsSums ==
  ASSUME NEW S, IsFiniteSet(S), NEW g, NEW h, SumRecursion(h, g, S)
  PROVE  SumFunctionOnSet(g, S) = h[S]
<1>1. SumRecursion(CHOOSE k : SumRecursion(k, g, S), g, S)
  OBVIOUS
<1>2. (CHOOSE k : SumRecursion(k, g, S)) = h
  BY <1>1, SumsUnique
<1> QED  BY <1>2, SumUnfolds

LEMMA SumEmpty ==
  ASSUME NEW g
  PROVE  SumFunctionOnSet(g, {}) = 0
<1>1. IsFiniteSet({})
  BY FS_EmptySet
<1>2. PICK h : SumRecursion(h, g, {})
  BY <1>1, SumsExists
<1>3. h[{}] = 0
  BY <1>2 DEF SumRecursion
<1> QED  BY <1>1, <1>2, <1>3, SumIsSums

\* A sum over S splits off the element the recursion takes.
LEMMA SumStep ==
  ASSUME NEW S, IsFiniteSet(S), S # {}, NEW g
  PROVE  LET x == CHOOSE x \in S : TRUE
         IN  SumFunctionOnSet(g, S) = g[x] + SumFunctionOnSet(g, S \ {x})
<1> DEFINE x == CHOOSE x \in S : TRUE
           k == [s \in SUBSET (S \ {x}) |-> (CHOOSE h : SumRecursion(h, g, S))[s]]
<1>1. PICK h : SumRecursion(h, g, S)
  BY SumsExists
<1>2. SumFunctionOnSet(g, S) = h[S]
  BY <1>1, SumIsSums
<1>3. h[S] = g[x] + h[S \ {x}]
  BY <1>1 DEF SumRecursion
<1>4. SumFunctionOnSet(g, S \ {x}) = h[S \ {x}]
  <2>1. S \ {x} \in SUBSET S /\ IsFiniteSet(S \ {x})
    BY FS_RemoveElement
  <2>2. SumRecursion([s \in SUBSET (S \ {x}) |-> h[s]], g, S \ {x})
    BY <1>1, <2>1, SumsRestrict
  <2> QED  BY <2>1, <2>2, SumIsSums
<1> QED  BY <1>2, <1>3, <1>4

\* Only the values on S matter.
LEMMA SumSame ==
  ASSUME NEW S, IsFiniteSet(S), NEW g, NEW k, \A x \in S : g[x] = k[x]
  PROVE  SumFunctionOnSet(g, S) = SumFunctionOnSet(k, S)
<1>1. PICK h : SumRecursion(h, g, S)
  BY SumsExists
<1>2. ASSUME NEW s \in SUBSET S
      PROVE  h[s] = IF s = {} THEN 0
                    ELSE k[CHOOSE x \in s : TRUE] + h[s \ {CHOOSE x \in s : TRUE}]
  <2>1. CASE s = {}
    BY <1>1, <2>1 DEF SumRecursion
  <2>2. CASE s # {}
    <3>1. (CHOOSE x \in s : TRUE) \in S
      BY <2>2
    <3>2. h[s] = g[CHOOSE x \in s : TRUE] + h[s \ {CHOOSE x \in s : TRUE}]
      BY <1>1, <2>2 DEF SumRecursion
    <3> QED  BY <2>2, <3>1, <3>2
  <2> QED  BY <2>1, <2>2
<1>3. SumRecursion(h, k, S)
  BY <1>1, <1>2 DEF SumRecursion
<1> QED  BY <1>1, <1>3, SumIsSums

LEMMA SumInt ==
  ASSUME NEW S, IsFiniteSet(S), NEW g, \A x \in S : g[x] \in Int
  PROVE  SumFunctionOnSet(g, S) \in Int
<1> DEFINE Bad == {T \in SUBSET S : SumFunctionOnSet(g, T) \notin Int}
<1> SUFFICES ASSUME Bad # {} PROVE FALSE
  OBVIOUS
<1>1. PICK T \in Bad : \A U \in Bad : U \subseteq T => U = T
  <2>1. Bad \in SUBSET SUBSET S
    OBVIOUS
  <2> HIDE DEF Bad
  <2> QED  BY <2>1, SmallestSubset
<1> DEFINE x == CHOOSE x \in T : TRUE
<1>2. T # {} /\ IsFiniteSet(T)
  <2>1. SumFunctionOnSet(g, {}) = 0
    BY SumEmpty
  <2>2. T # {}
    BY <2>1
  <2>3. IsFiniteSet(T)
    BY FS_Subset
  <2> QED  BY <2>2, <2>3
<1>3. x \in T
  BY <1>2
<1>4. SumFunctionOnSet(g, T) = g[x] + SumFunctionOnSet(g, T \ {x})
  BY <1>2, SumStep
<1> HIDE DEF x
<1>5. SumFunctionOnSet(g, T \ {x}) \in Int
  BY <1>1, <1>3
<1> QED  BY <1>3, <1>4, <1>5

\* The order does not matter: any element may be split off.
LEMMA SumSplit ==
  ASSUME NEW S, IsFiniteSet(S), NEW g, \A x \in S : g[x] \in Int, NEW e \in S
  PROVE  SumFunctionOnSet(g, S) = g[e] + SumFunctionOnSet(g, S \ {e})
<1> DEFINE sum(T) == SumFunctionOnSet(g, T)
           Bad == {T \in SUBSET S : ~ \A y \in T : sum(T) = g[y] + sum(T \ {y})}
<1> SUFFICES ASSUME Bad # {} PROVE FALSE
  OBVIOUS
<1>1. PICK T \in Bad : \A U \in Bad : U \subseteq T => U = T
  <2>1. Bad \in SUBSET SUBSET S
    OBVIOUS
  <2> HIDE DEF Bad
  <2> QED  BY <2>1, SmallestSubset
<1>2. PICK y \in T : sum(T) # g[y] + sum(T \ {y})
  BY <1>1
<1> DEFINE x == CHOOSE x \in T : TRUE
<1>3. x \in T /\ T \subseteq S /\ T # {}
  BY <1>2
<1>4. \A U \in SUBSET S : IsFiniteSet(U) /\ sum(U) \in Int
  <2> TAKE U \in SUBSET S
  <2>1. IsFiniteSet(U)
    BY FS_Subset
  <2> QED  BY <2>1, SumInt
<1>5. sum(T) = g[x] + sum(T \ {x})
  BY <1>3, <1>4, SumStep
<1> HIDE DEF x, sum
<1>6. x # y
  BY <1>2, <1>5
<1>7. sum(T \ {x}) = g[y] + sum((T \ {x}) \ {y})
  <2>1. T \ {x} \in SUBSET S /\ T \ {x} \notin Bad
    BY <1>1, <1>3
  <2> QED  BY <2>1, <1>2, <1>6
<1>8. sum(T \ {y}) = g[x] + sum((T \ {y}) \ {x})
  <2>1. T \ {y} \in SUBSET S /\ T \ {y} \notin Bad
    BY <1>1, <1>2
  <2> QED  BY <2>1, <1>3, <1>6
<1>9. (T \ {x}) \ {y} = (T \ {y}) \ {x} /\ (T \ {x}) \ {y} \in SUBSET S
  BY <1>3
<1>10. g[x] \in Int /\ g[y] \in Int /\ sum((T \ {x}) \ {y}) \in Int
  BY <1>2, <1>3, <1>4, <1>9
<1>11. sum(T) = g[x] + (g[y] + sum((T \ {x}) \ {y}))
  BY <1>5, <1>7
<1>12. sum(T \ {y}) = g[x] + sum((T \ {x}) \ {y})
  BY <1>8, <1>9
<1>13. sum(T) = g[y] + sum(T \ {y})
  BY <1>10, <1>11, <1>12
<1> QED  BY <1>2, <1>13

LEMMA SumAdd ==
  ASSUME NEW S, IsFiniteSet(S), NEW g, NEW e, e \notin S,
         \A x \in S \cup {e} : g[x] \in Int
  PROVE  SumFunctionOnSet(g, S \cup {e}) = g[e] + SumFunctionOnSet(g, S)
<1>1. IsFiniteSet(S \cup {e}) /\ (S \cup {e}) \ {e} = S /\ e \in S \cup {e}
  BY FS_AddElement
<1>2. SumFunctionOnSet(g, S \cup {e}) = g[e] + SumFunctionOnSet(g, (S \cup {e}) \ {e})
  BY <1>1, SumSplit
<1> QED  BY <1>1, <1>2

\* One value changes.
LEMMA SumUpdate ==
  ASSUME NEW S, IsFiniteSet(S), NEW g, NEW k, NEW e \in S,
         \A x \in S : g[x] \in Int, k[e] \in Int,
         \A x \in S \ {e} : k[x] = g[x]
  PROVE  SumFunctionOnSet(k, S) = SumFunctionOnSet(g, S) + k[e] - g[e]
<1> DEFINE rest == SumFunctionOnSet(g, S \ {e})
<1>1. IsFiniteSet(S \ {e})
  BY FS_RemoveElement
<1>2. rest \in Int
  BY <1>1, SumInt
<1>3. SumFunctionOnSet(k, S \ {e}) = rest
  BY <1>1, SumSame
<1>4. SumFunctionOnSet(g, S) = g[e] + rest
  BY SumSplit
<1>5. SumFunctionOnSet(k, S) = k[e] + SumFunctionOnSet(k, S \ {e})
  <2>1. \A x \in S : k[x] \in Int
    OBVIOUS
  <2> QED  BY <2>1, SumSplit
<1> HIDE DEF rest
<1> QED  BY <1>2, <1>3, <1>4, <1>5

\* A function with one more value.
LEMMA SumGrows ==
  ASSUME NEW f, NEW k, NEW e, e \notin DOMAIN f, IsFiniteSet(DOMAIN f),
         DOMAIN k = DOMAIN f \cup {e}, k[e] \in Int,
         \A x \in DOMAIN f : f[x] \in Int /\ k[x] = f[x]
  PROVE  SumFunction(k) = SumFunction(f) + k[e]
<1> DEFINE S == DOMAIN f
<1>1. SumFunctionOnSet(k, S) = SumFunctionOnSet(f, S)
  BY SumSame
<1>2. SumFunctionOnSet(k, S \cup {e}) = k[e] + SumFunctionOnSet(k, S)
  <2>1. IsFiniteSet(S) /\ e \notin S /\ \A x \in S \cup {e} : k[x] \in Int
    OBVIOUS
  <2> HIDE DEF S
  <2> QED  BY <2>1, SumAdd
<1>3. SumFunctionOnSet(f, S) \in Int
  BY SumInt
<1> QED  BY <1>1, <1>2, <1>3 DEF SumFunction

-----------------------------------------------------------------------------
(* Bounds.                                                                 *)

\* Values between 0 and m: the sum is at most m for each element.
LEMMA SumBound ==
  ASSUME NEW S, IsFiniteSet(S), NEW m \in Nat, NEW g, \A x \in S : g[x] \in 0..m
  PROVE  SumFunctionOnSet(g, S) \in 0..(Cardinality(S) * m)
<1> DEFINE sum(T) == SumFunctionOnSet(g, T)
           Bad == {T \in SUBSET S : sum(T) \notin 0..(Cardinality(T) * m)}
<1> SUFFICES ASSUME Bad # {} PROVE FALSE
  OBVIOUS
<1>1. PICK T \in Bad : \A U \in Bad : U \subseteq T => U = T
  <2>1. Bad \in SUBSET SUBSET S
    OBVIOUS
  <2> HIDE DEF Bad
  <2> QED  BY <2>1, SmallestSubset
<1>2. IsFiniteSet(T)
  BY FS_Subset
<1>3. T # {}
  BY SumEmpty, FS_EmptySet
<1>4. PICK x : x \in T
  BY <1>3
<1>5. sum(T) = g[x] + sum(T \ {x})
  BY <1>2, <1>4, SumSplit
<1>6. sum(T \ {x}) \in 0..(Cardinality(T \ {x}) * m)
  BY <1>1, <1>4
<1>7. Cardinality(T) \in Nat /\ Cardinality(T) >= 1 /\ Cardinality(T \ {x}) = Cardinality(T) - 1
  <2>1. Cardinality(T) \in Nat /\ Cardinality(T) # 0
    BY <1>2, <1>3, FS_CardinalityType, FS_EmptySet
  <2>2. Cardinality(T \ {x}) = Cardinality(T) - 1
    BY <1>2, <1>4, FS_RemoveElement
  <2> QED  BY <2>1, <2>2
<1> HIDE DEF sum
<1>8. ASSUME NEW n \in Nat, n >= 1
      PROVE  (n - 1) * m + m = n * m /\ n * m \in Int /\ (n - 1) * m \in Int
  BY <1>8
<1>9. g[x] \in 0..m
  BY <1>4
<1>10. sum(T) \in 0..(Cardinality(T) * m)
  BY <1>5, <1>6, <1>7, <1>8, <1>9
<1> QED  BY <1>1, <1>10

LEMMA SumNat ==
  ASSUME NEW S, IsFiniteSet(S), NEW g, \A x \in S : g[x] \in Nat
  PROVE  SumFunctionOnSet(g, S) \in Nat
<1> DEFINE Bad == {T \in SUBSET S : SumFunctionOnSet(g, T) \notin Nat}
<1> SUFFICES ASSUME Bad # {} PROVE FALSE
  OBVIOUS
<1>1. PICK T \in Bad : \A U \in Bad : U \subseteq T => U = T
  <2>1. Bad \in SUBSET SUBSET S
    OBVIOUS
  <2> HIDE DEF Bad
  <2> QED  BY <2>1, SmallestSubset
<1>2. T # {} /\ IsFiniteSet(T)
  <2>1. SumFunctionOnSet(g, {}) = 0
    BY SumEmpty
  <2>2. T # {}
    BY <2>1
  <2>3. IsFiniteSet(T)
    BY FS_Subset
  <2> QED  BY <2>2, <2>3
<1>3. PICK x : x \in T
  BY <1>2
<1>4. SumFunctionOnSet(g, T) = g[x] + SumFunctionOnSet(g, T \ {x})
  BY <1>2, <1>3, SumSplit
<1>5. SumFunctionOnSet(g, T \ {x}) \in Nat
  BY <1>1, <1>3
<1> QED  BY <1>3, <1>4, <1>5

\* Fewer summands, none of them negative.
LEMMA SumSubset ==
  ASSUME NEW S, IsFiniteSet(S), NEW g, \A x \in S : g[x] \in Nat, NEW U \in SUBSET S
  PROVE  SumFunctionOnSet(g, U) <= SumFunctionOnSet(g, S)
<1> DEFINE sum(T) == SumFunctionOnSet(g, T)
           Bad == {T \in SUBSET S : U \subseteq T /\ ~(sum(U) <= sum(T))}
<1> SUFFICES ASSUME Bad # {} PROVE FALSE
  OBVIOUS
<1>1. PICK T \in Bad : \A V \in Bad : V \subseteq T => V = T
  <2>1. Bad \in SUBSET SUBSET S
    OBVIOUS
  <2> HIDE DEF Bad
  <2> QED  BY <2>1, SmallestSubset
<1>2. \A V \in SUBSET S : IsFiniteSet(V) /\ sum(V) \in Nat
  <2> TAKE V \in SUBSET S
  <2>1. IsFiniteSet(V)
    BY FS_Subset
  <2> QED  BY <2>1, SumNat
<1>3. T # U
  BY <1>1, <1>2
<1>4. PICK x \in T : x \notin U
  BY <1>1, <1>3
<1>5. sum(T) = g[x] + sum(T \ {x})
  BY <1>2, SumSplit
<1>6. sum(U) <= sum(T \ {x})
  BY <1>1, <1>4
<1>7. sum(U) \in Nat /\ sum(T \ {x}) \in Nat /\ g[x] \in Nat
  BY <1>2
<1> HIDE DEF sum
<1>8. sum(U) <= sum(T)
  BY <1>5, <1>6, <1>7
<1> QED  BY <1>1, <1>8

\* A function with fewer values, none of them negative.
LEMMA SumShrinks ==
  ASSUME NEW f, NEW k, IsFiniteSet(DOMAIN f), DOMAIN k \subseteq DOMAIN f,
         \A x \in DOMAIN f : f[x] \in Nat, \A x \in DOMAIN k : k[x] = f[x]
  PROVE  SumFunction(k) <= SumFunction(f)
<1>1. IsFiniteSet(DOMAIN k)
  BY FS_Subset
<1>2. SumFunctionOnSet(k, DOMAIN k) = SumFunctionOnSet(f, DOMAIN k)
  BY <1>1, SumSame
<1>3. SumFunctionOnSet(f, DOMAIN k) <= SumFunctionOnSet(f, DOMAIN f)
  BY SumSubset
<1> QED  BY <1>2, <1>3 DEF SumFunction
=============================================================================
