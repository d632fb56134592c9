------------------------------ MODULE SumTheorems ------------------------------
(***************************************************************************)
(* Sums over finite sets, as SumFunctionOnSet of the community modules     *)
(* computes them: for a function f of natural numbers and a finite set S   *)
(* of its arguments, the sum of f[x] for x in S.  The definition is        *)
(* recursive and takes the elements in an order of its own; the lemmas say *)
(* that the order does not matter, by comparing the sum with the number of *)
(* units that the values stand for (Units), which is a cardinality.        *)
(***************************************************************************)
EXTENDS Integers, FiniteSets, Functions, FiniteSetTheorems, TLAPS

\* f[x] different things for every x.
Units(f, S) == UNION {{x} \X (1 .. f[x]) : x \in S}

LEMMA UnitsFinite ==
    ASSUME NEW S, IsFiniteSet(S), NEW f, \A x \in S : f[x] \in Nat
    PROVE  IsFiniteSet(Units(f, S)) /\ Cardinality(Units(f, S)) \in Nat
  <1> DEFINE Part(x) == {x} \X (1 .. f[x])
             All == {Part(x) : x \in S}
             h == [x \in S |-> Part(x)]
  <1>1. IsFiniteSet(All)
    <2>1. h \in Surjection(S, All)
      BY DEF Surjection
    <2> QED
      BY <2>1, FS_Surjection
  <1>2. ASSUME NEW T \in All PROVE IsFiniteSet(T)
    <2>1. PICK x \in S : T = {x} \X (1 .. f[x])
      BY Zenon
    <2>0. f[x] \in Nat
      BY <2>1
    <2>2. IsFiniteSet({x}) /\ IsFiniteSet(1 .. f[x])
      <3>1. IsFiniteSet({x})
        BY FS_Singleton
      <3>2. IsFiniteSet(1 .. f[x])
        BY <2>0, FS_Interval
      <3> QED
        BY <3>1, <3>2
    <2>3. IsFiniteSet({x} \X (1 .. f[x]))
      BY ONLY <2>2, FS_Product
    <2> QED
      BY <2>1, <2>3
  <1>3. IsFiniteSet(UNION All)
    BY <1>1, <1>2, FS_UNION
  <1> QED
    BY <1>3, FS_CardinalityType DEF Units

\* One argument more adds its value.
LEMMA UnitsAdd ==
    ASSUME NEW S, IsFiniteSet(S), NEW f, \A x \in S : f[x] \in Nat, NEW e \in S
    PROVE  Cardinality(Units(f, S)) = f[e] + Cardinality(Units(f, S \ {e}))
  <1> DEFINE one == {e} \X (1 .. f[e])
             rest == Units(f, S \ {e})
  <1>1. Units(f, S) = one \cup rest
    <2>1. ASSUME NEW u \in Units(f, S) PROVE u \in one \cup rest
      <3>1. PICK x \in S : u \in {x} \X (1 .. f[x])
        BY DEF Units
      <3> QED
        BY <3>1 DEF Units
    <2>2. ASSUME NEW u \in one \cup rest PROVE u \in Units(f, S)
      BY DEF Units
    <2> QED
      BY <2>1, <2>2
  <1>2. one \cap rest = {}
    BY DEF Units
  <1>3. IsFiniteSet(one) /\ Cardinality(one) = f[e]
    <2>1. /\ IsFiniteSet({e}) /\ Cardinality({e}) = 1
          /\ IsFiniteSet(1 .. f[e]) /\ Cardinality(1 .. f[e]) = f[e]
      <3>1. IsFiniteSet({e}) /\ Cardinality({e}) = 1
        BY FS_Singleton
      <3>2. f[e] \in Nat
        OBVIOUS
      <3>3. /\ IsFiniteSet(1 .. f[e])
            /\ Cardinality(1 .. f[e]) = IF 1 > f[e] THEN 0 ELSE f[e] - 1 + 1
        BY <3>2, FS_Interval
      <3> QED
        BY <3>1, <3>2, <3>3
    <2>2. IsFiniteSet(one) /\ Cardinality(one) = 1 * f[e]
      BY <2>1, FS_Product
    <2> QED
      BY <2>2
  <1>4. IsFiniteSet(rest) /\ Cardinality(rest) \in Nat
    <2>1. IsFiniteSet(S \ {e})
      BY FS_RemoveElement
    <2> QED
      BY <2>1, UnitsFinite
  <1>5. Cardinality(one \cap rest) = 0
    BY <1>2, FS_EmptySet
  <1> HIDE DEF one, rest
  <1>6. Cardinality(one \cup rest) = Cardinality(one) + Cardinality(rest) - Cardinality(one \cap rest)
    BY <1>3, <1>4, FS_Union
  <1> QED
    BY <1>1, <1>3, <1>4, <1>5, <1>6 DEF rest

\* The recursion of SumFunctionOnSet, and the function that it defines.
Pick(S) == CHOOSE x \in S : TRUE

SumStep(f, g, T) == IF T = {} THEN 0 ELSE f[Pick(T)] + g[T \ {Pick(T)}]

SumTable(f, S) == CHOOSE g : g = [T \in SUBSET S |-> SumStep(f, g, T)]

LEMMA SumIsTable ==
    ASSUME NEW f, NEW S
    PROVE  SumFunctionOnSet(f, S) = SumTable(f, S)[S]
  BY DEF SumFunctionOnSet, FoldFunctionOnSet, MapThenFoldSet, SumTable, SumStep, Pick

LEMMA TableCounts ==
    ASSUME NEW S, IsFiniteSet(S), NEW f, \A x \in S : f[x] \in Nat, NEW T \in SUBSET S
    PROVE  SumStep(f, [U \in SUBSET S |-> Cardinality(Units(f, U))], T) = Cardinality(Units(f, T))
  <1>1. CASE T = {}
    <2>1. Units(f, {}) = {}
      BY DEF Units
    <2> QED
      BY <1>1, <2>1, FS_EmptySet DEF SumStep
  <1>2. CASE T # {}
    <2>1. Pick(T) \in T
      BY <1>2 DEF Pick
    <2>2. IsFiniteSet(T) /\ \A x \in T : f[x] \in Nat
      BY FS_Subset
    <2>3. T \ {Pick(T)} \in SUBSET S
      OBVIOUS
    <2>4. Cardinality(Units(f, T)) = f[Pick(T)] + Cardinality(Units(f, T \ {Pick(T)}))
      BY <2>1, <2>2, UnitsAdd
    <2> QED
      BY <1>2, <2>3, <2>4 DEF SumStep
  <1> QED
    BY <1>1, <1>2

\* A function that satisfies the recursion counts units: a smallest set for which it did not
\* would have one element fewer.
LEMMA RecursionCounts ==
    ASSUME NEW S, IsFiniteSet(S), NEW f, \A x \in S : f[x] \in Nat,
           NEW g, g = [T \in SUBSET S |-> SumStep(f, g, T)]
    PROVE  \A T \in SUBSET S : g[T] = Cardinality(Units(f, T))
  <1> DEFINE Bad == {T \in SUBSET S : g[T] # Cardinality(Units(f, T))}
             R == StrictSubsetOrdering(S)
  <1> SUFFICES ASSUME Bad # {} PROVE FALSE
    OBVIOUS
  <1>1. IsWellFoundedOn(R, SUBSET S)
    BY FS_StrictSubsetOrderingWellFounded, FS_FiniteSubsetsOfFinite
  <1>2. PICK T \in Bad : \A U \in Bad : ~ (<<U, T>> \in R)
    <2>1. Bad \subseteq SUBSET S
      OBVIOUS
    <2> HIDE DEF Bad, R
    <2> QED
      BY <1>1, <2>1, WFMin
  <1>3. T \in SUBSET S /\ g[T] # Cardinality(Units(f, T))
    BY <1>2
  <1>4. g[T] = SumStep(f, g, T)
    BY <1>3
  <1>5. T # {}
    <2>1. Units(f, {}) = {}
      BY DEF Units
    <2> QED
      BY <1>3, <1>4, <2>1, FS_EmptySet DEF SumStep
  <1> DEFINE U == T \ {Pick(T)}
  <1>6. Pick(T) \in T
    BY <1>5 DEF Pick
  <1>7. U \in SUBSET S /\ U # T /\ U \subseteq T
    BY <1>3, <1>6
  <1>8. <<U, T>> \in R
    BY <1>3, <1>7 DEF StrictSubsetOrdering
  <1>9. g[U] = Cardinality(Units(f, U))
    BY <1>2, <1>7, <1>8
  <1>10. Cardinality(Units(f, T)) = f[Pick(T)] + Cardinality(Units(f, U))
    <2>1. IsFiniteSet(T) /\ \A x \in T : f[x] \in Nat
      BY <1>3, FS_Subset
    <2> QED
      BY <1>6, <2>1, UnitsAdd
  <1> QED
    BY <1>3, <1>4, <1>5, <1>9, <1>10 DEF SumStep

THEOREM SumCounts ==
    ASSUME NEW S, IsFiniteSet(S), NEW f, \A x \in S : f[x] \in Nat
    PROVE  SumFunctionOnSet(f, S) = Cardinality(Units(f, S))
  <1> DEFINE c == [U \in SUBSET S |-> Cardinality(Units(f, U))]
             Def(g) == g = [T \in SUBSET S |-> SumStep(f, g, T)]
  <1>1. Def(c)
    BY TableCounts
  <1>2. SumTable(f, S) = CHOOSE g : Def(g)
    BY DEF SumTable
  <1> HIDE DEF c
  <1>3. Def(SumTable(f, S))
    BY <1>1, <1>2
  <1>4. \A T \in SUBSET S : SumTable(f, S)[T] = Cardinality(Units(f, T))
    <2> DEFINE t == SumTable(f, S)
    <2>1. t = [T \in SUBSET S |-> SumStep(f, t, T)]
      BY <1>3
    <2> HIDE DEF t
    <2>2. \A T \in SUBSET S : t[T] = Cardinality(Units(f, T))
      BY <2>1, RecursionCounts
    <2> QED
      BY <2>2 DEF t
  <1>5. SumTable(f, S)[S] = Cardinality(Units(f, S))
    BY <1>4
  <1> QED
    BY <1>5, SumIsTable

-----------------------------------------------------------------------------
(* What is used of sums *)

LEMMA SumIsNat ==
    ASSUME NEW S, IsFiniteSet(S), NEW f, \A x \in S : f[x] \in Nat
    PROVE  SumFunctionOnSet(f, S) \in Nat
  BY SumCounts, UnitsFinite

LEMMA SumOfNothing ==
    ASSUME NEW f
    PROVE  SumFunctionOnSet(f, {}) = 0
  <1>1. IsFiniteSet({}) /\ \A x \in {} : f[x] \in Nat
    BY FS_EmptySet
  <1>2. Units(f, {}) = {}
    BY DEF Units
  <1> QED
    BY <1>1, <1>2, SumCounts, FS_EmptySet

\* The element that is added last is any that one likes.
LEMMA SumSplit ==
    ASSUME NEW S, IsFiniteSet(S), NEW f, \A x \in S : f[x] \in Nat, NEW e \in S
    PROVE  /\ SumFunctionOnSet(f, S) = f[e] + SumFunctionOnSet(f, S \ {e})
           /\ SumFunctionOnSet(f, S \ {e}) \in Nat
           /\ f[e] <= SumFunctionOnSet(f, S)
  <1>1. IsFiniteSet(S \ {e}) /\ \A x \in S \ {e} : f[x] \in Nat
    BY FS_RemoveElement
  <1>2. SumFunctionOnSet(f, S \ {e}) = Cardinality(Units(f, S \ {e}))
    BY <1>1, SumCounts
  <1>3. SumFunctionOnSet(f, S \ {e}) \in Nat
    BY <1>1, SumIsNat
  <1>4. SumFunctionOnSet(f, S) = f[e] + SumFunctionOnSet(f, S \ {e})
    BY <1>2, SumCounts, UnitsAdd
  <1>5. f[e] \in Nat
    OBVIOUS
  <1> QED
    BY <1>3, <1>4, <1>5

LEMMA SumSame ==
    ASSUME NEW S, IsFiniteSet(S), NEW f, \A x \in S : f[x] \in Nat,
           NEW g, \A x \in S : g[x] = f[x]
    PROVE  SumFunctionOnSet(g, S) = SumFunctionOnSet(f, S)
  <1>1. Units(g, S) = Units(f, S)
    <2>1. ASSUME NEW u \in Units(g, S) PROVE u \in Units(f, S)
      <3>1. PICK x \in S : u \in {x} \X (1 .. g[x])
        BY DEF Units
      <3> QED
        BY <3>1 DEF Units
    <2>2. ASSUME NEW u \in Units(f, S) PROVE u \in Units(g, S)
      <3>1. PICK x \in S : u \in {x} \X (1 .. f[x])
        BY DEF Units
      <3> QED
        BY <3>1 DEF Units
    <2> QED
      BY <2>1, <2>2
  <1>2. \A x \in S : g[x] \in Nat
    OBVIOUS
  <1> QED
    BY <1>1, <1>2, SumCounts

\* A change of one value changes the sum by as much.
LEMMA SumChanges ==
    ASSUME NEW S, IsFiniteSet(S), NEW f, \A x \in S : f[x] \in Nat,
           NEW e \in S, NEW g, g[e] \in Nat, \A x \in S : x # e => g[x] = f[x]
    PROVE  SumFunctionOnSet(g, S) = SumFunctionOnSet(f, S) - f[e] + g[e]
  <1>1. \A x \in S : g[x] \in Nat
    OBVIOUS
  <1>2. /\ SumFunctionOnSet(f, S) = f[e] + SumFunctionOnSet(f, S \ {e})
        /\ SumFunctionOnSet(f, S \ {e}) \in Nat
    BY SumSplit
  <1>3. SumFunctionOnSet(g, S) = g[e] + SumFunctionOnSet(g, S \ {e})
    BY <1>1, SumSplit
  <1>4. SumFunctionOnSet(g, S \ {e}) = SumFunctionOnSet(f, S \ {e})
    <2>1. IsFiniteSet(S \ {e}) /\ \A x \in S \ {e} : f[x] \in Nat /\ g[x] = f[x]
      BY FS_RemoveElement
    <2> QED
      BY <2>1, SumSame
  <1>5. f[e] \in Nat /\ g[e] \in Nat
    OBVIOUS
  <1> QED
    BY <1>2, <1>3, <1>4, <1>5

\* A sum of zeros.
LEMMA SumOfZeros ==
    ASSUME NEW S, IsFiniteSet(S), NEW f, \A x \in S : f[x] = 0
    PROVE  SumFunctionOnSet(f, S) = 0
  <1>1. Units(f, S) = {}
    <2>1. \A x \in S : 1 .. f[x] = {}
      OBVIOUS
    <2> QED
      BY <2>1 DEF Units
  <1> QED
    BY <1>1, SumCounts, FS_EmptySet

\* The sum of sums: a smallest set for which it were another would have an element, without
\* which the sums agree.
LEMMA SumOfSums ==
    ASSUME NEW S, IsFiniteSet(S), NEW f, \A x \in S : f[x] \in Nat,
           NEW g, \A x \in S : g[x] \in Nat, NEW h, \A x \in S : h[x] = f[x] + g[x]
    PROVE  SumFunctionOnSet(h, S) = SumFunctionOnSet(f, S) + SumFunctionOnSet(g, S)
  <1> DEFINE Agree(T) == SumFunctionOnSet(h, T) = SumFunctionOnSet(f, T) + SumFunctionOnSet(g, T)
             Bad == {T \in SUBSET S : ~ Agree(T)}
             R == StrictSubsetOrdering(S)
  <1>0. Bad = {} => Agree(S)
    OBVIOUS
  <1> SUFFICES ASSUME Bad # {} PROVE FALSE
    BY <1>0
  <1>1. IsWellFoundedOn(R, SUBSET S)
    BY FS_StrictSubsetOrderingWellFounded, FS_FiniteSubsetsOfFinite
  <1>2. PICK T \in Bad : \A U \in Bad : ~ (<<U, T>> \in R)
    <2>1. Bad \subseteq SUBSET S
      OBVIOUS
    <2> HIDE DEF Bad, R
    <2> QED
      BY <1>1, <2>1, WFMin
  <1>3. T \in SUBSET S /\ ~ Agree(T)
    BY <1>2
  <1>4. Agree({})
    BY SumOfNothing
  <1>5. PICK e \in T : TRUE
    BY <1>3, <1>4
  <1> DEFINE U == T \ {e}
  <1>6. U \in SUBSET S /\ <<U, T>> \in R
    BY <1>3, <1>5 DEF StrictSubsetOrdering
  <1>7. Agree(U)
    BY <1>2, <1>6
  <1>8. /\ IsFiniteSet(T) /\ \A x \in T : f[x] \in Nat
        /\ \A x \in T : g[x] \in Nat
        /\ \A x \in T : h[x] \in Nat
    BY <1>3, FS_Subset
  <1>9. /\ SumFunctionOnSet(f, T) = f[e] + SumFunctionOnSet(f, U)
        /\ SumFunctionOnSet(f, U) \in Nat
    BY <1>5, <1>8, SumSplit
  <1>10. /\ SumFunctionOnSet(g, T) = g[e] + SumFunctionOnSet(g, U)
         /\ SumFunctionOnSet(g, U) \in Nat
    BY <1>5, <1>8, SumSplit
  <1>11. SumFunctionOnSet(h, T) = h[e] + SumFunctionOnSet(h, U)
    BY <1>5, <1>8, SumSplit
  <1>12. h[e] = f[e] + g[e] /\ f[e] \in Nat /\ g[e] \in Nat
    BY <1>3, <1>5
  <1> HIDE DEF U
  <1> QED
    BY <1>3, <1>7, <1>9, <1>10, <1>11, <1>12

\* Larger values have a larger sum.
LEMMA SumAtMost ==
    ASSUME NEW S, IsFiniteSet(S), NEW f, \A x \in S : f[x] \in Nat,
           NEW g, \A x \in S : g[x] \in Nat /\ f[x] <= g[x]
    PROVE  SumFunctionOnSet(f, S) <= SumFunctionOnSet(g, S)
  <1> DEFINE d == [x \in S |-> g[x] - f[x]]
  <1>1. \A x \in S : d[x] \in Nat /\ g[x] = f[x] + d[x]
    OBVIOUS
  <1> HIDE DEF d
  <1>2. SumFunctionOnSet(g, S) = SumFunctionOnSet(f, S) + SumFunctionOnSet(d, S)
    BY <1>1, SumOfSums
  <1>3. SumFunctionOnSet(f, S) \in Nat /\ SumFunctionOnSet(d, S) \in Nat
    BY <1>1, SumIsNat
  <1> QED
    BY <1>2, <1>3

\* Fewer terms, and one more.
LEMMA SumOfPart ==
    ASSUME NEW S, IsFiniteSet(S), NEW f, \A x \in S : f[x] \in Nat, NEW T \in SUBSET S
    PROVE  SumFunctionOnSet(f, T) <= SumFunctionOnSet(f, S)
  <1>1. Units(f, T) \subseteq Units(f, S)
    BY DEF Units
  <1>2. IsFiniteSet(T) /\ \A x \in T : f[x] \in Nat
    BY FS_Subset
  <1>3. IsFiniteSet(Units(f, S))
    BY UnitsFinite
  <1>4. Cardinality(Units(f, T)) <= Cardinality(Units(f, S))
    BY <1>1, <1>3, FS_Subset
  <1> QED
    BY <1>2, <1>4, SumCounts

LEMMA SumAdds ==
    ASSUME NEW S, IsFiniteSet(S), NEW f, \A x \in S : f[x] \in Nat,
           NEW e, e \notin S, f[e] \in Nat
    PROVE  SumFunctionOnSet(f, S \cup {e}) = SumFunctionOnSet(f, S) + f[e]
  <1> DEFINE T == S \cup {e}
  <1>1. IsFiniteSet(T) /\ \A x \in T : f[x] \in Nat
    BY FS_AddElement
  <1>2. T \ {e} = S /\ e \in T
    OBVIOUS
  <1>3. SumFunctionOnSet(f, T) = f[e] + SumFunctionOnSet(f, T \ {e})
    BY <1>1, <1>2, SumSplit
  <1>4. SumFunctionOnSet(f, S) \in Nat
    BY SumIsNat
  <1>5. SumFunctionOnSet(f, T \ {e}) = SumFunctionOnSet(f, S)
    BY <1>2, Zenon
  <1> HIDE DEF T
  <1>6. SumFunctionOnSet(f, T) = SumFunctionOnSet(f, S) + f[e]
    BY <1>3, <1>4, <1>5
  <1> QED
    BY <1>6 DEF T

\* Terms of two kinds.
LEMMA SumOfParts ==
    ASSUME NEW S, IsFiniteSet(S), NEW T, IsFiniteSet(T), S \cap T = {},
           NEW f, \A x \in S \cup T : f[x] \in Nat
    PROVE  SumFunctionOnSet(f, S \cup T) = SumFunctionOnSet(f, S) + SumFunctionOnSet(f, T)
  <1>1. Units(f, S \cup T) = Units(f, S) \cup Units(f, T)
    <2>1. ASSUME NEW u \in Units(f, S \cup T) PROVE u \in Units(f, S) \cup Units(f, T)
      <3>1. PICK x \in S \cup T : u \in {x} \X (1 .. f[x])
        BY DEF Units
      <3> QED
        BY <3>1 DEF Units
    <2>2. ASSUME NEW u \in Units(f, S) \cup Units(f, T) PROVE u \in Units(f, S \cup T)
      BY DEF Units
    <2> QED
      BY <2>1, <2>2
  <1>2. Units(f, S) \cap Units(f, T) = {}
    BY DEF Units
  <1>3. /\ \A x \in S : f[x] \in Nat
        /\ \A x \in T : f[x] \in Nat
    OBVIOUS
  <1>4. IsFiniteSet(Units(f, S)) /\ Cardinality(Units(f, S)) \in Nat
    BY <1>3, UnitsFinite
  <1>5. IsFiniteSet(Units(f, T)) /\ Cardinality(Units(f, T)) \in Nat
    BY <1>3, UnitsFinite
  <1>6. Cardinality(Units(f, S) \cap Units(f, T)) = 0
    BY <1>2, FS_EmptySet
  <1>7. IsFiniteSet(S \cup T)
    BY FS_Union
  <1>8. /\ SumFunctionOnSet(f, S) = Cardinality(Units(f, S))
        /\ SumFunctionOnSet(f, T) = Cardinality(Units(f, T))
    BY <1>3, SumCounts
  <1>9. SumFunctionOnSet(f, S \cup T) = Cardinality(Units(f, S) \cup Units(f, T))
    BY <1>1, <1>7, SumCounts
  <1>10. Cardinality(Units(f, S) \cup Units(f, T))
             = Cardinality(Units(f, S)) + Cardinality(Units(f, T))
                   - Cardinality(Units(f, S) \cap Units(f, T))
    BY ONLY <1>4, <1>5, FS_Union
  <1> QED
    BY ONLY <1>4, <1>5, <1>6, <1>8, <1>9, <1>10

\* A sum of ones and zeros.
LEMMA SumOfOnes ==
    ASSUME NEW S, IsFiniteSet(S), NEW f, \A x \in S : f[x] \in {0, 1}
    PROVE  SumFunctionOnSet(f, S) <= Cardinality(S)
  <1> DEFINE U == Units(f, S)
             m == [u \in U |-> u[1]]
  <1>1. \A x \in S : f[x] \in Nat
    OBVIOUS
  <1>2. ASSUME NEW u \in U PROVE u[1] \in S /\ u = <<u[1], 1>>
    <2>1. PICK x \in S : u \in {x} \X (1 .. f[x])
      BY DEF Units
    <2>2. 1 .. f[x] \subseteq {1}
      OBVIOUS
    <2> QED
      BY <2>1, <2>2
  <1>3. m \in Injection(U, S)
    <2>1. m \in [U -> S]
      BY <1>2
    <2>2. ASSUME NEW u \in U, NEW v \in U, m[u] = m[v] PROVE u = v
      BY <1>2, <2>2
    <2> HIDE DEF m, U
    <2> QED
      BY <2>1, <2>2 DEF Injection, IsInjective
  <1>4. Cardinality(U) <= Cardinality(S)
    BY <1>3, FS_Injection
  <1> QED
    BY <1>1, <1>4, SumCounts

\* The same values for other arguments.
LEMMA SumMoved ==
    ASSUME NEW S, IsFiniteSet(S), NEW f, \A x \in S : f[x] \in Nat,
           NEW T, NEW h \in Bijection(S, T), NEW g, \A x \in S : g[h[x]] = f[x]
    PROVE  IsFiniteSet(T) /\ SumFunctionOnSet(g, T) = SumFunctionOnSet(f, S)
  <1> DEFINE m == [u \in Units(f, S) |-> <<h[u[1]], u[2]>>]
  <1>1. /\ h \in [S -> T]
        /\ \A x, y \in S : h[x] = h[y] => x = y
        /\ \A t \in T : \E x \in S : h[x] = t
    BY DEF Bijection, Injection, Surjection, IsInjective
  <1>2. IsFiniteSet(T)
    <2>1. ExistsBijection(S, T)
      BY DEF ExistsBijection
    <2> QED
      BY <2>1, FS_Bijection
  <1>3. \A t \in T : g[t] \in Nat
    BY <1>1
  <1>4. ASSUME NEW u \in Units(f, S)
        PROVE  u[1] \in S /\ u[2] \in 1 .. f[u[1]] /\ u = <<u[1], u[2]>>
    <2>1. PICK x \in S : u \in {x} \X (1 .. f[x])
      BY DEF Units
    <2> QED
      BY <2>1
  <1>5. m \in [Units(f, S) -> Units(g, T)]
    <2>1. ASSUME NEW u \in Units(f, S) PROVE <<h[u[1]], u[2]>> \in Units(g, T)
      <3>1. h[u[1]] \in T /\ u[2] \in 1 .. g[h[u[1]]]
        BY <1>1, <1>4
      <3> QED
        BY <3>1 DEF Units
    <2> QED
      BY <2>1
  <1>6. ASSUME NEW u \in Units(f, S), NEW v \in Units(f, S), m[u] = m[v] PROVE u = v
    <2>1. h[u[1]] = h[v[1]] /\ u[2] = v[2]
      BY <1>6
    <2> QED
      BY <1>1, <1>4, <2>1
  <1>7. ASSUME NEW v \in Units(g, T) PROVE \E u \in Units(f, S) : m[u] = v
    <2>1. PICK t \in T : v \in {t} \X (1 .. g[t])
      BY DEF Units
    <2>2. PICK x \in S : h[x] = t
      BY <1>1
    <2>3. v[2] \in 1 .. f[x] /\ v = <<h[x], v[2]>>
      BY <2>1, <2>2
    <2>4. <<x, v[2]>> \in Units(f, S)
      BY <2>3 DEF Units
    <2>5. m[<<x, v[2]>>] = v
      BY <2>3, <2>4
    <2> QED
      BY <2>4, <2>5
  <1>8. ExistsBijection(Units(f, S), Units(g, T))
    <2>1. m \in Bijection(Units(f, S), Units(g, T))
      BY <1>5, <1>6, <1>7 DEF Bijection, Injection, Surjection, IsInjective
    <2> QED
      BY <2>1 DEF ExistsBijection
  <1>9. IsFiniteSet(Units(f, S))
    BY UnitsFinite
  <1>10. Cardinality(Units(g, T)) = Cardinality(Units(f, S))
    BY ONLY <1>8, <1>9, FS_Bijection
  <1> QED
    BY <1>2, <1>3, <1>10, SumCounts
=============================================================================
