------------------------ MODULE LegacyAnalyticsProofs ------------------------
(***************************************************************************)
(* Proofs about LegacyAnalytics: its types; that the rates of the analytics *)
(* page are percentages, that reports add up where nothing moved and cover  *)
(* the total otherwise, and that the bill of a month never falls, for any   *)
(* number of workflows and executions, any prices, and any period of a      *)
(* report.                                                                  *)
(***************************************************************************)
EXTENDS LegacyAnalytics, FiniteSetTheorems, TLAPS

-----------------------------------------------------------------------------
(* Sums over finite sets. *)

\* Induction over a finite set, with the set G of the subsets that have the property in the
\* place of a predicate: a counterexample with the fewest elements.
LEMMA StrongInduction ==
    ASSUME NEW S, IsFiniteSet(S), NEW G,
           \A T \in SUBSET S : (\A U \in SUBSET T : U # T => U \in G) => T \in G
    PROVE  S \in G
<1> SUFFICES ASSUME S \notin G PROVE FALSE
    OBVIOUS
<1>1. PICK Bad : Bad = (SUBSET S) \ G
    OBVIOUS
<1>2. Bad \subseteq FiniteSubsetsOf(S) /\ Bad # {}
    <2>1. FiniteSubsetsOf(S) = SUBSET S
        BY FS_FiniteSubsetsOfFinite
    <2>2. S \in Bad /\ Bad \subseteq SUBSET S
        BY <1>1
    <2> QED
        BY <2>1, <2>2
<1>3. IsWellFoundedOn(StrictSubsetOrdering(S), FiniteSubsetsOf(S))
    BY FS_StrictSubsetOrderingWellFounded
<1>4. PICK T \in Bad : \A U \in Bad : <<U, T>> \notin StrictSubsetOrdering(S)
    BY <1>2, <1>3, WFMin
<1>5. T \in SUBSET S /\ T \notin G
    BY <1>1
<1>6. ASSUME NEW U \in SUBSET T, U # T PROVE U \in G
    <2>1. <<U, T>> \in StrictSubsetOrdering(S)
        BY <1>5, <1>6 DEF StrictSubsetOrdering
    <2>2. U \notin Bad
        BY <1>4, <2>1
    <2> QED
        BY <1>1, <1>5, <2>2
<1> QED
    BY <1>5, <1>6

LEMMA SetInduction ==
    ASSUME NEW S, IsFiniteSet(S), NEW G, {} \in G,
           \A T \in SUBSET S : \A x \in S \ T : T \in G => T \cup {x} \in G
    PROVE  S \in G
<1>1. ASSUME NEW T \in SUBSET S, \A U \in SUBSET T : U # T => U \in G, T # {}
      PROVE  T \in G
    <2>1. PICK x : x \in T
        BY <1>1
    <2>2. PICK U \in SUBSET S : U = T \ {x}
        BY <1>1
    <2>3. U \in G /\ x \in S \ U /\ T = U \cup {x}
        BY <1>1, <2>1, <2>2
    <2> QED
        BY <2>3
<1>2. \A T \in SUBSET S : (\A U \in SUBSET T : U # T => U \in G) => T \in G
    BY <1>1
<1> QED
    BY <1>2, StrongInduction

\* The sum of f over S, and what FoldFunctionOnSet is defined from: the function g that
\* takes out one element after the other.
First(s) == CHOOSE x \in s : TRUE
Iterates(g, f, S) ==
    g = [s \in SUBSET S |-> IF s = {} THEN 0 ELSE f[First(s)] + g[s \ {First(s)}]]
Sum(f, S) == FoldFunctionOnSet(+, 0, f, S)

LEMMA SumChoice ==
    ASSUME NEW f, NEW S
    PROVE  Sum(f, S) = (CHOOSE g : Iterates(g, f, S))[S]
BY DEF Sum, FoldFunctionOnSet, MapThenFoldSet, Iterates, First

LEMMA IteratesAt ==
    ASSUME NEW f, NEW S, NEW g, Iterates(g, f, S), NEW s \in SUBSET S
    PROVE  g[s] = IF s = {} THEN 0 ELSE f[First(s)] + g[s \ {First(s)}]
BY DEF Iterates

LEMMA FirstIn == ASSUME NEW s, s # {} PROVE First(s) \in s
BY DEF First

\* g and h agree where both are defined.
LEMMA IteratesAgree ==
    ASSUME NEW f, NEW S, NEW T, NEW U, IsFiniteSet(U), U \subseteq S, U \subseteq T,
           NEW g, NEW h, Iterates(g, f, S), Iterates(h, f, T)
    PROVE  g[U] = h[U]
<1> DEFINE G == {V \in SUBSET U : g[V] = h[V]}
<1>1. ASSUME NEW V \in SUBSET U, \A W \in SUBSET V : W # V => W \in G
      PROVE  V \in G
    <2>1. CASE V = {}
        BY <2>1, IteratesAt
    <2>2. CASE V # {}
        <3>1. First(V) \in V
            BY <2>2, FirstIn
        <3>2. V \ {First(V)} \in SUBSET V /\ V \ {First(V)} # V
            BY <3>1
        <3>3. g[V \ {First(V)}] = h[V \ {First(V)}]
            BY <1>1, <3>2
        <3> QED
            BY <2>2, <3>3, IteratesAt
    <2> QED
        BY <2>1, <2>2
<1>2. U \in G
    <2> HIDE DEF G
    <2> QED
        BY <1>1, StrongInduction
<1> QED
    BY <1>2

LEMMA IteratesExist ==
    ASSUME NEW f, NEW S, IsFiniteSet(S)
    PROVE  \E g : Iterates(g, f, S)
<1> DEFINE G == {T \in SUBSET S : \E g : Iterates(g, f, T)}
<1>1. ASSUME NEW T \in SUBSET S, \A U \in SUBSET T : U # T => U \in G
      PROVE  T \in G
    <2> DEFINE last == IF T = {} THEN 0 ELSE f[First(T)] + Sum(f, T \ {First(T)})
               g == [s \in SUBSET T |-> IF s = T THEN last ELSE Sum(f, s)]
    <2>1. ASSUME NEW s \in SUBSET T, s # T, s # {}
          PROVE  Sum(f, s) = f[First(s)] + Sum(f, s \ {First(s)})
        <3> DEFINE u == s \ {First(s)}
        <3>0. First(s) \in s
            BY <2>1, FirstIn
        <3>1. s \in G /\ u \in G
            BY <1>1, <2>1, <3>0
        <3>2. PICK a : a = CHOOSE x : Iterates(x, f, s)
            OBVIOUS
        <3>3. PICK b : b = CHOOSE x : Iterates(x, f, u)
            OBVIOUS
        <3>4. Iterates(a, f, s) /\ Iterates(b, f, u)
            BY <3>1, <3>2, <3>3
        <3>5. Sum(f, s) = a[s] /\ Sum(f, u) = b[u]
            BY <3>2, <3>3, SumChoice
        <3>6. a[u] = b[u]
            <4>1. IsFiniteSet(u)
                BY FS_Subset
            <4> HIDE DEF u
            <4> QED
                BY <3>4, <4>1, IteratesAgree DEF u
        <3> QED
            BY <2>1, <3>4, <3>5, <3>6, IteratesAt
    <2>2. ASSUME NEW s \in SUBSET T, s = {}, s # T PROVE Sum(f, s) = 0
        <3>1. PICK a : a = CHOOSE x : Iterates(x, f, s)
            OBVIOUS
        <3>2. s \in G
            BY <1>1, <2>2
        <3>3. Iterates(a, f, s)
            BY <3>1, <3>2
        <3>4. a[s] = 0
            BY <2>2, <3>3, IteratesAt
        <3> QED
            BY <3>1, <3>4, SumChoice
    <2>3. ASSUME NEW s \in SUBSET T
          PROVE  g[s] = IF s = {} THEN 0 ELSE f[First(s)] + g[s \ {First(s)}]
        <3>1. CASE s = {}
            BY <2>2, <3>1
        <3>2. CASE s # {}
            <4>1. s \ {First(s)} \in SUBSET T /\ s \ {First(s)} # T
                BY <3>2, FirstIn
            <4>2. g[s \ {First(s)}] = Sum(f, s \ {First(s)})
                BY <4>1
            <4> QED
                BY <2>1, <3>2, <4>2
        <3> QED
            BY <3>1, <3>2
    <2>4. Iterates(g, f, T)
        <3>1. g = [s \in SUBSET T |-> g[s]]
            OBVIOUS
        <3> HIDE DEF g
        <3> QED
            BY <2>3, <3>1 DEF Iterates
    <2> QED
        BY <2>4
<1>2. S \in G
    <2> HIDE DEF G
    <2> QED
        BY <1>1, StrongInduction
<1> QED
    BY <1>2

\* The fold unfolds.
LEMMA SumDef ==
    ASSUME NEW f, NEW S, IsFiniteSet(S)
    PROVE  Sum(f, S) = IF S = {} THEN 0 ELSE f[First(S)] + Sum(f, S \ {First(S)})
<1>1. PICK g : g = CHOOSE x : Iterates(x, f, S)
    OBVIOUS
<1>2. Iterates(g, f, S)
    BY <1>1, IteratesExist
<1>3. CASE S = {}
    BY <1>1, <1>2, <1>3, SumChoice, IteratesAt
<1>4. CASE S # {}
    <2>1. PICK T : T = S \ {First(S)}
        OBVIOUS
    <2>2. IsFiniteSet(T) /\ T \subseteq S
        BY <2>1, FS_Subset
    <2>3. PICK h : h = CHOOSE x : Iterates(x, f, T)
        OBVIOUS
    <2>4. Iterates(h, f, T)
        BY <2>2, <2>3, IteratesExist
    <2>5. g[T] = h[T]
        BY <1>2, <2>2, <2>4, IteratesAgree
    <2>6. g[S] = f[First(S)] + g[T]
        BY <1>2, <1>4, <2>1, IteratesAt
    <2>7. Sum(f, S) = g[S] /\ Sum(f, T) = h[T]
        BY <1>1, <2>3, SumChoice
    <2> QED
        BY <1>4, <2>1, <2>5, <2>6, <2>7
<1> QED
    BY <1>3, <1>4

LEMMA SumEmpty == ASSUME NEW f PROVE Sum(f, {}) = 0
BY FS_EmptySet, SumDef

LEMMA SumNat ==
    ASSUME NEW f, NEW S, IsFiniteSet(S), \A x \in S : f[x] \in Nat
    PROVE  Sum(f, S) \in Nat
<1> DEFINE G == {T \in SUBSET S : Sum(f, T) \in Nat}
<1>1. ASSUME NEW T \in SUBSET S, \A U \in SUBSET T : U # T => U \in G
      PROVE  T \in G
    <2>1. IsFiniteSet(T)
        BY FS_Subset
    <2>2. T # {} => /\ T \ {First(T)} \in SUBSET T /\ T \ {First(T)} # T
                    /\ First(T) \in S
        BY FirstIn
    <2>3. T # {} => Sum(f, T \ {First(T)}) \in Nat
        BY <1>1, <2>2
    <2>4. T # {} => f[First(T)] \in Nat
        BY <2>2
    <2> QED
        BY <2>1, <2>3, <2>4, SumDef
<1>2. S \in G
    <2> HIDE DEF G
    <2> QED
        BY <1>1, StrongInduction
<1> QED
    BY <1>2

\* Any element may come first.
LEMMA SumRemove ==
    ASSUME NEW f, NEW S, IsFiniteSet(S), \A x \in S : f[x] \in Nat, NEW x \in S
    PROVE  Sum(f, S) = f[x] + Sum(f, S \ {x})
<1> DEFINE G == {T \in SUBSET S : \A y \in T : Sum(f, T) = f[y] + Sum(f, T \ {y})}
<1>1. ASSUME NEW T \in SUBSET S, \A U \in SUBSET T : U # T => U \in G
      PROVE  T \in G
    <2> SUFFICES ASSUME NEW y \in T PROVE Sum(f, T) = f[y] + Sum(f, T \ {y})
        OBVIOUS
    <2>1. PICK z : z = First(T)
        OBVIOUS
    <2>2. z \in T /\ z \in S /\ y \in S
        BY <2>1, FirstIn
    <2>3. IsFiniteSet(T) /\ IsFiniteSet(T \ {y}) /\ IsFiniteSet(T \ {z})
        BY FS_Subset
    <2>4. Sum(f, T) = f[z] + Sum(f, T \ {z})
        BY <2>1, <2>2, <2>3, SumDef
    <2>5. CASE z = y
        BY <2>4, <2>5
    <2>6. CASE z # y
        <3>1. T \ {z} \in G /\ T \ {y} \in G /\ y \in T \ {z} /\ z \in T \ {y}
            BY <1>1, <2>2, <2>6
        <3>2. (T \ {z}) \ {y} = (T \ {y}) \ {z}
            OBVIOUS
        <3>3. Sum(f, T \ {z}) = f[y] + Sum(f, (T \ {z}) \ {y})
            BY <3>1
        <3>4. Sum(f, T \ {y}) = f[z] + Sum(f, (T \ {z}) \ {y})
            BY <3>1, <3>2
        <3>5. IsFiniteSet((T \ {z}) \ {y})
            BY FS_Subset
        <3>6. Sum(f, (T \ {z}) \ {y}) \in Nat
            BY <3>5, SumNat
        <3> QED
            BY <2>2, <2>4, <3>3, <3>4, <3>6
    <2> QED
        BY <2>5, <2>6
<1>2. S \in G
    <2> HIDE DEF G
    <2> QED
        BY <1>1, StrongInduction
<1> QED
    BY <1>2

LEMMA SumAdd ==
    ASSUME NEW f, NEW S, IsFiniteSet(S), NEW x, x \notin S, \A y \in S \cup {x} : f[y] \in Nat
    PROVE  Sum(f, S \cup {x}) = f[x] + Sum(f, S)
<1>1. IsFiniteSet(S \cup {x})
    BY FS_AddElement
<1>2. (S \cup {x}) \ {x} = S
    OBVIOUS
<1>3. PICK T : T = S \cup {x}
    OBVIOUS
<1>4. Sum(f, T) = f[x] + Sum(f, T \ {x})
    BY <1>1, <1>3, SumRemove
<1> QED
    BY <1>2, <1>3, <1>4

\* Larger entries, and more of them, give a larger sum.
LEMMA SumMonotone ==
    ASSUME NEW f, NEW g, NEW S, NEW T, IsFiniteSet(T), S \subseteq T,
           \A x \in S : f[x] \in Nat /\ f[x] <= g[x], \A x \in T : g[x] \in Nat
    PROVE  Sum(f, S) <= Sum(g, T)
<1>1. IsFiniteSet(S) /\ IsFiniteSet(T \ S)
    BY FS_Subset
<1>2. Sum(f, S) <= Sum(g, S)
    <2> DEFINE G == {U \in SUBSET S : Sum(f, U) <= Sum(g, U)}
    <2>1. {} \in G
        BY SumEmpty
    <2>2. ASSUME NEW U \in SUBSET S, NEW x \in S \ U, U \in G PROVE U \cup {x} \in G
        <3>1. IsFiniteSet(U)
            BY <1>1, FS_Subset
        <3>2. (\A y \in U \cup {x} : f[y] \in Nat) /\ (\A y \in U \cup {x} : g[y] \in Nat)
            OBVIOUS
        <3>3. Sum(f, U) \in Nat /\ Sum(g, U) \in Nat
            BY <3>1, <3>2, SumNat
        <3>4. Sum(f, U \cup {x}) = f[x] + Sum(f, U) /\ Sum(g, U \cup {x}) = g[x] + Sum(g, U)
            BY <3>1, <3>2, SumAdd
        <3>5. Sum(f, U \cup {x}) <= Sum(g, U \cup {x})
            BY <2>2, <3>2, <3>3, <3>4
        <3> QED
            BY <3>5
    <2>3. S \in G
        <3>1. \A U \in SUBSET S : \A x \in S \ U : U \in G => U \cup {x} \in G
            BY <2>2
        <3> HIDE DEF G
        <3> QED
            BY <1>1, <2>1, <3>1, SetInduction
    <2> QED
        BY <2>3
<1>3. Sum(g, S) <= Sum(g, T)
    <2> DEFINE G == {U \in SUBSET (T \ S) : Sum(g, S) <= Sum(g, S \cup U)}
    <2>0. Sum(g, S) \in Nat
        BY <1>1, SumNat
    <2>1. {} \in G
        <3>1. S \cup {} = S
            OBVIOUS
        <3> QED
            BY <2>0, <3>1
    <2>2. ASSUME NEW U \in SUBSET (T \ S), NEW x \in (T \ S) \ U, U \in G PROVE U \cup {x} \in G
        <3>1. PICK V : V = S \cup U
            OBVIOUS
        <3>2. IsFiniteSet(V) /\ x \notin V /\ x \in T
            BY <3>1, FS_Subset
        <3>3. \A y \in V \cup {x} : g[y] \in Nat
            BY <3>1
        <3>4. Sum(g, V) \in Nat /\ g[x] \in Nat
            BY <3>2, <3>3, SumNat
        <3>5. Sum(g, V \cup {x}) = g[x] + Sum(g, V)
            BY <3>2, <3>3, SumAdd
        <3>6. Sum(g, S) <= Sum(g, V)
            BY <2>2, <3>1
        <3>7. Sum(g, S) <= Sum(g, V \cup {x})
            BY <2>0, <3>4, <3>5, <3>6
        <3>8. S \cup (U \cup {x}) = V \cup {x}
            BY <3>1
        <3> QED
            BY <3>7, <3>8
    <2>3. T \ S \in G
        <3>1. \A U \in SUBSET (T \ S) : \A x \in (T \ S) \ U : U \in G => U \cup {x} \in G
            BY <2>2
        <3> HIDE DEF G
        <3> QED
            BY <1>1, <2>1, <3>1, SetInduction
    <2>4. S \cup (T \ S) = T
        OBVIOUS
    <2> QED
        BY <2>3, <2>4
<1>4. Sum(f, S) \in Nat /\ Sum(g, S) \in Nat /\ Sum(g, T) \in Nat
    <2>1. \A x \in S : g[x] \in Nat
        OBVIOUS
    <2> QED
        BY <1>1, <2>1, SumNat
<1> QED
    BY <1>2, <1>3, <1>4

LEMMA SumZero ==
    ASSUME NEW f, NEW S, IsFiniteSet(S), \A x \in S : f[x] = 0
    PROVE  Sum(f, S) = 0
<1> DEFINE G == {T \in SUBSET S : Sum(f, T) = 0}
<1>1. {} \in G
    BY SumEmpty
<1>2. ASSUME NEW T \in SUBSET S, NEW x \in S \ T, T \in G PROVE T \cup {x} \in G
    <2>1. IsFiniteSet(T) /\ \A y \in T \cup {x} : f[y] \in Nat
        BY FS_Subset
    <2>2. Sum(f, T \cup {x}) = f[x] + Sum(f, T)
        BY <2>1, SumAdd
    <2>3. Sum(f, T \cup {x}) = 0
        BY <1>2, <2>2
    <2> QED
        BY <2>3
<1>3. S \in G
    <2>1. \A T \in SUBSET S : \A x \in S \ T : T \in G => T \cup {x} \in G
        BY <1>2
    <2> HIDE DEF G
    <2> QED
        BY <1>1, <2>1, SetInduction
<1> QED
    BY <1>3

\* Rows counted by the value that h gives them are counted once each.
LEMMA SumOfCounts ==
    ASSUME NEW R, IsFiniteSet(R), NEW K, IsFiniteSet(K), NEW h, \A e \in R : h[e] \in K
    PROVE  Sum([k \in K |-> Cardinality({e \in R : h[e] = k})], K) = Cardinality(R)
<1>0. PICK count : count = [k \in K |-> Cardinality({e \in R : h[e] = k})]
    OBVIOUS
<1>1. ASSUME NEW k \in K PROVE count[k] = Cardinality({e \in R : h[e] = k}) /\ count[k] \in Nat
    <2>1. IsFiniteSet({e \in R : h[e] = k})
        BY FS_Subset
    <2> QED
        BY <1>0, <2>1, FS_CardinalityType
<1> DEFINE G == {T \in SUBSET K : Sum(count, T) = Cardinality({e \in R : h[e] \in T})}
<1>2. {} \in G
    <2>1. {e \in R : h[e] \in {}} = {}
        OBVIOUS
    <2> QED
        BY <2>1, FS_EmptySet, SumEmpty
<1>3. ASSUME NEW T \in SUBSET K, NEW k \in K \ T, T \in G PROVE T \cup {k} \in G
    <2>1. PICK A : A = {e \in R : h[e] \in T}
        OBVIOUS
    <2>2. PICK B : B = {e \in R : h[e] = k}
        OBVIOUS
    <2>3. IsFiniteSet(A) /\ IsFiniteSet(B) /\ IsFiniteSet(T)
        BY <2>1, <2>2, FS_Subset
    <2>4. A \cap B = {} /\ {e \in R : h[e] \in T \cup {k}} = A \cup B
        BY <2>1, <2>2
    <2>5. Cardinality(A \cup B) = Cardinality(A) + Cardinality(B)
        <3>1. Cardinality(A \cup B) = Cardinality(A) + Cardinality(B) - Cardinality(A \cap B)
            BY <2>3, FS_Union
        <3>2. Cardinality(A) \in Nat /\ Cardinality(B) \in Nat
            BY <2>3, FS_CardinalityType
        <3>3. Cardinality(A \cap B) = 0
            BY <2>4, FS_EmptySet
        <3> QED
            BY <3>1, <3>2, <3>3
    <2>6. Sum(count, T \cup {k}) = count[k] + Sum(count, T)
        BY <1>1, <2>3, SumAdd
    <2>7. count[k] = Cardinality(B) /\ Sum(count, T) = Cardinality(A)
        BY <1>1, <1>3, <2>1, <2>2
    <2>8. Cardinality(A) \in Nat /\ Cardinality(B) \in Nat
        BY <2>3, FS_CardinalityType
    <2>9. Sum(count, T \cup {k}) = Cardinality(A \cup B)
        BY <2>5, <2>6, <2>7, <2>8
    <2>10. Sum(count, T \cup {k}) = Cardinality({e \in R : h[e] \in T \cup {k}})
        BY <2>4, <2>9
    <2> QED
        BY <2>10
<1>4. K \in G
    <2>1. \A T \in SUBSET K : \A k \in K \ T : T \in G => T \cup {k} \in G
        BY <1>3
    <2> HIDE DEF G
    <2> QED
        BY <1>2, <2>1, SetInduction
<1>5. {e \in R : h[e] \in K} = R
    OBVIOUS
<1> QED
    BY <1>0, <1>4, <1>5

-----------------------------------------------------------------------------
(* Counting and rounding. *)

LEMMA CountSubset ==
    ASSUME NEW S \in SUBSET Executions
    PROVE  IsFiniteSet(S) /\ Cardinality(S) \in Count
<1>1. IsFiniteSet(Executions)
    BY AnalyticsSetsAssumption
<1>2. IsFiniteSet(S) /\ Cardinality(S) <= Cardinality(Executions)
    BY <1>1, FS_Subset
<1>3. Cardinality(S) \in Nat /\ Cardinality(Executions) \in Nat
    BY <1>1, <1>2, FS_CardinalityType
<1> QED
    BY <1>2, <1>3 DEF Count

\* Two disjoint groups of rows are no more than the rows.
LEMMA DisjointCount ==
    ASSUME NEW S \in SUBSET Executions, NEW A \in SUBSET S, NEW B \in SUBSET S, A \cap B = {}
    PROVE  Cardinality(A) + Cardinality(B) <= Cardinality(S)
<1>1. IsFiniteSet(A) /\ IsFiniteSet(B) /\ IsFiniteSet(S) /\ IsFiniteSet(A \cup B)
    BY CountSubset
<1>2. Cardinality(A \cap B) = 0
    BY FS_EmptySet
<1>3. Cardinality(A \cup B) = Cardinality(A) + Cardinality(B) - Cardinality(A \cap B)
    BY <1>1, FS_Union
<1>4. Cardinality(A \cup B) <= Cardinality(S)
    BY <1>1, FS_Subset
<1>5. Cardinality(A) \in Nat /\ Cardinality(B) \in Nat /\ Cardinality(S) \in Nat
    BY <1>1, FS_CardinalityType
<1> QED
    BY <1>2, <1>3, <1>4, <1>5

\* toFixed rounds up by half a hundredth at most.
LEMMA RateBound ==
    ASSUME NEW part \in Nat, NEW total \in Nat, total > 0
    PROVE  Rate(part, total) \in Nat /\ Rate(part, total) * (2 * total) <= 20000 * part + total
<1> DEFINE n == 20000 * part + total
           d == 2 * total
<1>1. n \in Nat /\ d \in Nat /\ d > 0
    OBVIOUS
<1>2. \A a, b \in Nat : b > 0 => a \div b \in Nat /\ (a \div b) * b <= a
    OBVIOUS
<1>3. Rate(part, total) = n \div d
    BY DEF Rate
<1> HIDE DEF n, d
<1>4. n \div d \in Nat /\ (n \div d) * d <= n
    BY <1>1, <1>2
<1> QED
    BY <1>3, <1>4 DEF n, d

LEMMA RatesBound ==
    ASSUME NEW a \in Nat, NEW b \in Nat, NEW total \in Nat, a + b <= total
    PROVE  Rate(a, total) + Rate(b, total) <= 10001
<1>1. CASE total = 0
    BY <1>1 DEF Rate
<1>2. CASE total > 0
    <2> DEFINE p == Rate(a, total)
               q == Rate(b, total)
    <2>1. p \in Nat /\ p * (2 * total) <= 20000 * a + total
        BY <1>2, RateBound
    <2>2. q \in Nat /\ q * (2 * total) <= 20000 * b + total
        BY <1>2, RateBound
    <2> HIDE DEF p, q
    <2>3. (p + q) * (2 * total) <= 20002 * total
        <3>1. (p + q) * (2 * total) = p * (2 * total) + q * (2 * total)
            BY <2>1, <2>2
        <3>2. p * (2 * total) \in Nat /\ q * (2 * total) \in Nat
            BY <2>1, <2>2
        <3> QED
            BY <2>1, <2>2, <3>1, <3>2
    <2>4. p + q <= 10001
        <3>1. SUFFICES ASSUME p + q >= 10002 PROVE FALSE
            BY <2>1, <2>2
        <3>2. \A m, n, d \in Nat : m >= n => m * d >= n * d
            OBVIOUS
        <3>3. (p + q) * (2 * total) >= 10002 * (2 * total)
            BY <2>1, <2>2, <3>1, <3>2
        <3>4. (p + q) * (2 * total) \in Nat
            BY <2>1, <2>2
        <3> QED
            BY <1>2, <2>3, <3>3, <3>4
    <2> QED
        BY <2>4 DEF p, q
<1> QED
    BY <1>1, <1>2

-----------------------------------------------------------------------------
(* Types. *)

Report ==
    [kind : Kinds, todo : SUBSET Queries, scope : SUBSET Executions, workflows : SUBSET Workflows,
     groups : [Status -> Count], each : [Workflows -> [Status -> Count]],
     total : Count, page : Count, quiet : BOOLEAN, kept : BOOLEAN]

LEMMA CountTypes ==
    ASSUME AnalyticsTypeOK
    PROVE  /\ \A ws : RowsOf(ws) \in SUBSET Executions
           /\ \A ws : Cardinality(RowsOf(ws)) \in Count
           /\ \A ws : GroupBy(ws) \in [Status -> Count]
           /\ NoGroup \in [Status -> Count]
           /\ NoReport \in Report
<1>1. \A ws : RowsOf(ws) \in SUBSET Executions
    BY DEF RowsOf, AnalyticsTypeOK
<1>2. \A ws : Cardinality(RowsOf(ws)) \in Count
    BY <1>1, CountSubset
<1>3. ASSUME NEW ws PROVE GroupBy(ws) \in [Status -> Count]
    <2>1. \A s \in Status : {e \in RowsOf(ws) : status[e] = s} \in SUBSET Executions
        BY <1>1
    <2>2. \A s \in Status : Cardinality({e \in RowsOf(ws) : status[e] = s}) \in Count
        BY <2>1, CountSubset
    <2> QED
        BY <2>2 DEF GroupBy
<1>4. 0 \in Count
    BY CountSubset, FS_EmptySet
<1>5. NoGroup \in [Status -> Count]
    BY <1>4 DEF NoGroup
<1>6. NoReport \in Report
    BY <1>4, <1>5 DEF NoReport, Report, Kinds, Queries
<1> QED
    BY <1>1, <1>2, <1>3, <1>5, <1>6

\* An answer to one query, whatever of the report it fills in.
LEMMA AnswerType ==
    ASSUME NEW q, NEW r \in Report, Answer(q, r)
    PROVE  report' \in Report
BY DEF Answer, Report

LEMMA OpenType ==
    ASSUME AnalyticsTypeOK, NEW kind \in Kinds, NEW todo \in SUBSET Queries,
           NEW scopes \in SUBSET SUBSET Executions, Open(kind, todo, scopes)
    PROVE  report' \in Report
<1>1. PICK r : r = NoReport
    OBVIOUS
<1>2. PICK scope \in SUBSET Executions :
          report' = [r EXCEPT !.kind = kind, !.todo = todo, !.scope = scope]
    BY <1>1 DEF Open
<1>3. r \in Report
    BY <1>1, CountTypes
<1> QED
    BY <1>2, <1>3 DEF Report

\* The forms that a report takes as the answers come in.
LEMMA ReportTypes ==
    ASSUME AnalyticsTypeOK, NEW r \in Report, NEW ws \in SUBSET Workflows,
           NEW g \in [Status -> Count], NEW h \in [Workflows -> [Status -> Count]], NEW n \in Count
    PROVE  /\ [r EXCEPT !.workflows = ws] \in Report
           /\ [r EXCEPT !.groups = g, !.each = h] \in Report
           /\ [r EXCEPT !.groups = g] \in Report
           /\ [r EXCEPT !.total = n] \in Report
           /\ [r EXCEPT !.page = n] \in Report
           /\ \A w \in Workflows : [r EXCEPT !.each[w] = g] \in Report
BY DEF Report

LEMMA DisturbType ==
    ASSUME report \in Report, NEW deletes \in BOOLEAN, Disturb(deletes)
    PROVE  report' \in Report
BY DEF Disturb, Report

LEMMA ReportTypeNext ==
    ASSUME AnalyticsTypeOK, [AnalyticsNext]_analyticsVars
    PROVE  report' \in Report
<1> USE DEF analyticsVars, pipeline
<1>0. report \in Report /\ report.workflows \in SUBSET Workflows
    BY DEF AnalyticsTypeOK, Report
<1>1. Scopes \in SUBSET SUBSET Executions /\ {Executions} \in SUBSET SUBSET Executions
    BY DEF Scopes
<1>2. \A q, r : r \in Report /\ Answer(q, r) => report' \in Report
    BY AnswerType
<1>3. /\ \A ws : Cardinality(RowsOf(ws)) \in Count
      /\ \A ws : GroupBy(ws) \in [Status -> Count]
      /\ [w \in Workflows |-> IF w \in report.workflows THEN GroupBy({w}) ELSE NoGroup]
            \in [Workflows -> [Status -> Count]]
      /\ workflows \in SUBSET Workflows
    BY CountTypes DEF AnalyticsTypeOK
<1>4. /\ [report EXCEPT !.workflows = workflows] \in Report
      /\ \A ws : [report EXCEPT !.total = Cardinality(RowsOf(ws))] \in Report
      /\ \A ws : [report EXCEPT !.groups = GroupBy(ws)] \in Report
      /\ \A ws : [report EXCEPT !.groups = GroupBy(ws),
                                !.each = [w \in Workflows |-> IF w \in report.workflows
                                                              THEN GroupBy({w}) ELSE NoGroup]] \in Report
      /\ \A w \in Workflows : [report EXCEPT !.each[w] = GroupBy({w})] \in Report
      /\ \A n \in Count : [report EXCEPT !.page = n] \in Report
    BY <1>0, <1>3, ReportTypes
<1>5. CASE AnalyticsExecutionStats
    <2>1. {"workflows", "groups", "total"} \in SUBSET Queries /\ "analytics" \in Kinds
        BY DEF Queries, Kinds
    <2> QED
        BY <1>1, <1>2, <1>4, <1>5, <2>1, OpenType DEF AnalyticsExecutionStats
<1>6. CASE ExecutionStats
    <2>1. {"workflows"} \in SUBSET Queries /\ "stats" \in Kinds
        BY DEF Queries, Kinds
    <2>2. [report EXCEPT !.workflows = workflows, !.todo = {"groups", "total"} \cup workflows] \in Report
        BY <1>0, <1>3 DEF Report, Queries
    <2>3. ASSUME NEW w \in report.workflows, Answer(w, [report EXCEPT !.each[w] = GroupBy({w})])
          PROVE  report' \in Report
        BY <1>0, <1>2, <1>4, <2>3
    <2> QED
        BY <1>1, <1>2, <1>4, <1>6, <2>1, <2>2, <2>3, OpenType DEF ExecutionStats
<1>7. CASE ListExecutions
    <2>1. {"workflows", "page", "total"} \in SUBSET Queries /\ "list" \in Kinds
        BY DEF Queries, Kinds
    <2>2. (LET n == Cardinality(RowsOf(report.workflows)) IN IF n > PageSize THEN PageSize ELSE n)
             \in Count
        <3>1. Cardinality(Executions) \in Nat
            BY AnalyticsSetsAssumption, FS_CardinalityType
        <3>2. Cardinality(RowsOf(report.workflows)) \in Count
            BY <1>3
        <3> QED
            BY <3>1, <3>2, AnalyticsBoundsAssumption DEF Count
    <2> QED
        BY <1>1, <1>2, <1>4, <1>7, <2>1, <2>2, OpenType DEF ListExecutions
<1>8. CASE SystemStats
    <2>1. {"total", "groups"} \in SUBSET Queries /\ "system" \in Kinds
        BY DEF Queries, Kinds
    <2> QED
        BY <1>1, <1>2, <1>4, <1>8, <2>1, OpenType DEF SystemStats
<1>9. CASE Send
    BY <1>9, CountTypes DEF Send
<1>10. ASSUME NEW deletes \in BOOLEAN, Disturb(deletes) PROVE report' \in Report
    BY <1>0, <1>10, DisturbType
<1>11. ASSUME \/ \E e \in Executions : InsertExecution(e)
              \/ \E e \in Executions, s \in Status : ChangeStatus(e, s)
              \/ \E w \in Workflows : DeleteWorkflow(w)
       PROVE  report' \in Report
    BY <1>10, <1>11 DEF InsertExecution, ChangeStatus, DeleteWorkflow
<1>12. CASE \/ \E e \in Executions, tokens \in TokensOfRun : UpdateUsageMetrics(e, tokens)
            \/ NextDay
            \/ UNCHANGED analyticsVars
    BY <1>0, <1>12 DEF UpdateUsageMetrics, NextDay
<1> QED
    BY <1>5, <1>6, <1>7, <1>8, <1>9, <1>11, <1>12 DEF AnalyticsNext

LEMMA AnalyticsTypeInit == AnalyticsInit => AnalyticsTypeOK
<1> SUFFICES ASSUME AnalyticsInit PROVE AnalyticsTypeOK
    OBVIOUS
<1>1. 0 \in Count
    BY CountSubset, FS_EmptySet
<1>2. NoReport \in Report
    BY <1>1 DEF NoReport, NoGroup, Report, Kinds, Queries
<1>3. NoMetric \in Metric /\ 0 \in 0 .. LastDay
    BY AnalyticsBoundsAssumption DEF NoMetric, Metric
<1> QED
    BY <1>2, <1>3 DEF AnalyticsInit, AnalyticsTypeOK, Report

LEMMA TablesTypeNext ==
    ASSUME AnalyticsTypeOK, [AnalyticsNext]_analyticsVars
    PROVE  /\ workflows' \subseteq Workflows
           /\ status' \in [Executions -> Status \cup {"none"}]
           /\ usage' \in [0 .. LastDay -> Metric]
           /\ unmetered' \subseteq Executions
           /\ today' \in 0 .. LastDay
<1> USE DEF pipeline
<1>1. CASE UNCHANGED pipeline
    BY <1>1 DEF AnalyticsTypeOK
<1>2. ASSUME NEW e \in Executions, InsertExecution(e)
      PROVE  /\ UNCHANGED <<workflows, usage, unmetered, today>>
             /\ status' \in [Executions -> Status \cup {"none"}]
    BY <1>2 DEF InsertExecution, AnalyticsTypeOK, Status
<1>3. ASSUME NEW e \in Executions, NEW s \in Status, ChangeStatus(e, s)
      PROVE  /\ UNCHANGED <<workflows, usage, today>>
             /\ status' \in [Executions -> Status \cup {"none"}]
             /\ unmetered' \subseteq Executions
    BY <1>3 DEF ChangeStatus, AnalyticsTypeOK
<1>4. ASSUME NEW e \in Executions, NEW tokens \in TokensOfRun, UpdateUsageMetrics(e, tokens)
      PROVE  /\ UNCHANGED <<workflows, status, today>>
             /\ usage' \in [0 .. LastDay -> Metric]
             /\ unmetered' \subseteq Executions
    <2>1. usage[today] \in Metric /\ tokens \in Nat
        BY AnalyticsBoundsAssumption DEF AnalyticsTypeOK
    <2>2. ASSUME NEW m \in Metric PROVE Metered(m, tokens) \in Metric
        <3>1. m.workflowRuns + 1 \in Nat /\ m.aiTokens + tokens \in Nat
            BY <2>1 DEF Metric
        <3> QED
            BY <3>1 DEF Metered, Metric
    <2> QED
        BY <1>4, <2>1, <2>2 DEF UpdateUsageMetrics, AnalyticsTypeOK
<1>5. ASSUME NEW w \in Workflows, DeleteWorkflow(w)
      PROVE  /\ UNCHANGED <<usage, unmetered, today>>
             /\ workflows' \subseteq Workflows
             /\ status' \in [Executions -> Status \cup {"none"}]
    BY <1>5 DEF DeleteWorkflow, AnalyticsTypeOK
<1>6. NextDay => UNCHANGED <<workflows, status, usage, unmetered>> /\ today' \in 0 .. LastDay
    BY AnalyticsBoundsAssumption DEF NextDay, AnalyticsTypeOK
<1>7. AnalyticsExecutionStats \/ ExecutionStats \/ ListExecutions \/ SystemStats \/ Send
         => UNCHANGED pipeline
    BY DEF AnalyticsExecutionStats, ExecutionStats, ListExecutions, SystemStats, Send, Open, Answer
<1> QED
    BY <1>1, <1>2, <1>3, <1>4, <1>5, <1>6, <1>7 DEF AnalyticsNext, analyticsVars, AnalyticsTypeOK

LEMMA AnalyticsTypeNext ==
    AnalyticsTypeOK /\ [AnalyticsNext]_analyticsVars => AnalyticsTypeOK'
BY ReportTypeNext, TablesTypeNext DEF AnalyticsTypeOK, Report

\* Reports and tables are well typed; no count exceeds the executions there are.
THEOREM AnalyticsTypeCorrect == AnalyticsSpec => []AnalyticsTypeOK
BY AnalyticsTypeInit, AnalyticsTypeNext, PTL DEF AnalyticsSpec

-----------------------------------------------------------------------------
(* Rates of the analytics page. *)

Ended(r) == r.groups["SUCCESS"] + r.groups["FAILED"]

\* The ended executions of the groups are among the rows that the total will count, or has.
RatesInv ==
    report.kind = "analytics" /\ report.kept =>
        /\ "workflows" \in report.todo => "groups" \in report.todo
        /\ "groups" \in report.todo => "total" \in report.todo
        /\ "groups" \notin report.todo =>
              Ended(report) <= IF "total" \in report.todo
                               THEN Cardinality(RowsOf(report.workflows)) ELSE report.total

LEMMA EndedCount ==
    ASSUME AnalyticsTypeOK, NEW ws
    PROVE  GroupBy(ws)["SUCCESS"] + GroupBy(ws)["FAILED"] <= Cardinality(RowsOf(ws))
<1> DEFINE A == {e \in RowsOf(ws) : status[e] = "SUCCESS"}
           B == {e \in RowsOf(ws) : status[e] = "FAILED"}
<1>1. GroupBy(ws)["SUCCESS"] = Cardinality(A) /\ GroupBy(ws)["FAILED"] = Cardinality(B)
    BY DEF GroupBy, Status
<1>2. A \cap B = {}
    OBVIOUS
<1>3. RowsOf(ws) \in SUBSET Executions
    BY CountTypes
<1> QED
    BY <1>1, <1>2, <1>3, DisjointCount

\* More rows keep the bound.
LEMMA RatesFrame ==
    ASSUME AnalyticsTypeOK, RatesInv,
           \/ report' = report
           \/ report.kind # "none" /\ report' = [report EXCEPT !.quiet = FALSE, !.kept = @ /\ ~FALSE],
           status' \in [Executions -> Status \cup {"none"}],
           \A e \in Executions : status[e] # "none" => status'[e] # "none"
    PROVE  RatesInv'
<1>1. /\ report'.kind = report.kind /\ (report'.kept => report.kept)
      /\ report'.todo = report.todo /\ report'.groups = report.groups
      /\ report'.total = report.total /\ report'.workflows = report.workflows
      /\ report'.scope = report.scope
    BY DEF AnalyticsTypeOK
<1>2. RowsOf(report.workflows) \in SUBSET Executions
      /\ RowsOf(report.workflows)' \in SUBSET Executions
      /\ RowsOf(report.workflows) \subseteq RowsOf(report.workflows)'
    BY <1>1 DEF RowsOf, AnalyticsTypeOK
<1>3. \A S, T \in SUBSET Executions : S \subseteq T => Cardinality(S) <= Cardinality(T)
    BY CountSubset, FS_Subset
<1>4. Cardinality(RowsOf(report.workflows)) <= Cardinality(RowsOf(report.workflows)')
    BY <1>2, <1>3
<1>5. /\ Cardinality(RowsOf(report.workflows)) \in Count
      /\ Cardinality(RowsOf(report.workflows)') \in Count
    BY <1>2, CountSubset
<1>6. Ended(report) \in Int /\ Ended(report') = Ended(report)
    <2>1. report.groups["SUCCESS"] \in Count /\ report.groups["FAILED"] \in Count
        BY DEF AnalyticsTypeOK, Status
    <2> QED
        BY <1>1, <2>1 DEF Ended, Count
<1>7. Cardinality(RowsOf(report.workflows)') = Cardinality(RowsOf(report.workflows))'
    OBVIOUS
<1> QED
    BY <1>1, <1>4, <1>5, <1>6 DEF RatesInv, Count

LEMMA RatesNext ==
    ASSUME AnalyticsTypeOK, RatesInv, [AnalyticsNext]_analyticsVars
    PROVE  RatesInv'
<1> USE DEF analyticsVars, pipeline
<1>0. report \in Report
    BY DEF AnalyticsTypeOK, Report
<1>1. CASE AnalyticsExecutionStats
    <2>1. CASE Open("analytics", {"workflows", "groups", "total"}, Scopes)
        <3>1. report'.todo = {"workflows", "groups", "total"}
            BY <2>1 DEF Open, NoReport
        <3> QED
            BY <3>1 DEF RatesInv
    <2>2. CASE report.kind = "analytics"
               /\ Answer("workflows", [report EXCEPT !.workflows = workflows])
        <3>1. /\ "workflows" \in report.todo /\ report'.kind = "analytics"
              /\ report'.kept = report.kept /\ report'.todo = report.todo \ {"workflows"}
            BY <1>0, <2>2 DEF Answer, Report
        <3> QED
            BY <2>2, <3>1 DEF RatesInv
    <2>3. CASE /\ report.kind = "analytics" /\ "workflows" \notin report.todo
               /\ Answer("groups", [report EXCEPT
                      !.groups = GroupBy(report.workflows),
                      !.each = [w \in Workflows |-> IF w \in report.workflows
                                                    THEN GroupBy({w}) ELSE NoGroup]])
        <3>1. /\ "groups" \in report.todo /\ report'.kind = "analytics"
              /\ report'.kept = report.kept /\ report'.todo = report.todo \ {"groups"}
              /\ report'.groups = GroupBy(report.workflows)
              /\ report'.workflows = report.workflows /\ report'.scope = report.scope
              /\ status' = status
            BY <1>0, <2>3 DEF Answer, Report
        <3>2. RowsOf(report.workflows)' = RowsOf(report.workflows)
            BY <3>1 DEF RowsOf
        <3>3. Ended(report') <= Cardinality(RowsOf(report.workflows))
            BY <3>1, EndedCount DEF Ended
        <3> QED
            BY <2>3, <3>1, <3>2, <3>3 DEF RatesInv
    <2>4. CASE /\ report.kind = "analytics" /\ "groups" \notin report.todo
               /\ Answer("total", [report EXCEPT !.total = Cardinality(RowsOf(report.workflows))])
        <3>1. /\ "total" \in report.todo /\ report'.kind = "analytics"
              /\ report'.kept = report.kept /\ report'.todo = report.todo \ {"total"}
              /\ report'.groups = report.groups
              /\ report'.total = Cardinality(RowsOf(report.workflows))
            BY <1>0, <2>4 DEF Answer, Report
        <3> QED
            BY <2>4, <3>1 DEF RatesInv, Ended
    <2> QED
        BY <1>1, <2>1, <2>2, <2>3, <2>4 DEF AnalyticsExecutionStats
<1>2. CASE ExecutionStats \/ ListExecutions \/ SystemStats \/ Send
    <2>1. ExecutionStats => report'.kind # "analytics"
        BY <1>0 DEF ExecutionStats, Open, Answer, NoReport, Report
    <2>2. ListExecutions => report'.kind # "analytics"
        BY <1>0 DEF ListExecutions, Open, Answer, NoReport, Report
    <2>3. SystemStats => report'.kind # "analytics"
        BY <1>0 DEF SystemStats, Open, Answer, NoReport, Report
    <2>4. Send => report'.kind # "analytics"
        BY DEF Send, NoReport
    <2> QED
        BY <1>2, <2>1, <2>2, <2>3, <2>4 DEF RatesInv
<1>3. ASSUME NEW e \in Executions, InsertExecution(e) PROVE RatesInv'
    <2>1. status' \in [Executions -> Status \cup {"none"}]
        BY TablesTypeNext
    <2>2. \A x \in Executions : status[x] # "none" => status'[x] # "none"
        BY <1>3 DEF InsertExecution, AnalyticsTypeOK
    <2> QED
        BY <1>3, <2>1, <2>2, RatesFrame DEF InsertExecution, Disturb
<1>4. ASSUME NEW e \in Executions, NEW s \in Status, ChangeStatus(e, s) PROVE RatesInv'
    <2>1. status' \in [Executions -> Status \cup {"none"}]
        BY TablesTypeNext
    <2>2. \A x \in Executions : status[x] # "none" => status'[x] # "none"
        BY <1>4 DEF ChangeStatus, AnalyticsTypeOK, Status
    <2> QED
        BY <1>4, <2>1, <2>2, RatesFrame DEF ChangeStatus, Disturb
<1>5. ASSUME NEW w \in Workflows, DeleteWorkflow(w) PROVE RatesInv'
    <2>1. report.kind = "none" => report' = report
        BY <1>5 DEF DeleteWorkflow, Disturb
    <2>2. report.kind # "none" => ~report'.kept
        BY <1>0, <1>5 DEF DeleteWorkflow, Disturb, Report
    <2> QED
        BY <2>1, <2>2 DEF RatesInv
<1>6. CASE \/ \E e \in Executions, tokens \in TokensOfRun : UpdateUsageMetrics(e, tokens)
           \/ NextDay
           \/ UNCHANGED analyticsVars
    <2>1. report' = report /\ status' = status
        BY <1>6 DEF UpdateUsageMetrics, NextDay
    <2> QED
        BY <2>1, RatesFrame DEF AnalyticsTypeOK
<1> QED
    BY <1>1, <1>2, <1>3, <1>4, <1>5, <1>6 DEF AnalyticsNext

\* Success and failure rate of an analytics report stay percentages, however many executions
\* arrive and end while it is put together; rounding adds one hundredth at most.
THEOREM AnalyticsRates == AnalyticsSpec => []RatesArePercentages
<1>1. AnalyticsInit => RatesInv
    BY DEF AnalyticsInit, NoReport, RatesInv
<1>2. AnalyticsTypeOK /\ RatesInv => RatesArePercentages
    <2> SUFFICES ASSUME AnalyticsTypeOK, RatesInv, Done, report.kind = "analytics", report.kept
                 PROVE  Rate(report.groups["SUCCESS"], report.total)
                           + Rate(report.groups["FAILED"], report.total) <= 10001
        BY DEF RatesArePercentages
    <2>1. /\ report.groups["SUCCESS"] \in Nat /\ report.groups["FAILED"] \in Nat
          /\ report.total \in Nat
        BY DEF AnalyticsTypeOK, Status, Count
    <2>2. report.groups["SUCCESS"] + report.groups["FAILED"] <= report.total
        BY DEF RatesInv, Done, Ended
    <2> QED
        BY <2>1, <2>2, RatesBound
<1> QED
    BY <1>1, <1>2, AnalyticsTypeInit, AnalyticsTypeNext, RatesNext, PTL DEF AnalyticsSpec

-----------------------------------------------------------------------------
(* Reports that nothing disturbs. *)

CountedWorkflows(r) == IF r.kind = "system" THEN Workflows ELSE r.workflows

EachGroup(ws) == [w \in Workflows |-> IF w \in ws THEN GroupBy({w}) ELSE NoGroup]

PageOf(n) == IF n > PageSize THEN PageSize ELSE n

\* Each answer that has come is the one the query would give now.
Fresh(r) ==
    /\ "total" \notin r.todo => r.total = Cardinality(RowsOf(CountedWorkflows(r)))
    /\ r.kind # "list" /\ "groups" \notin r.todo => r.groups = GroupBy(CountedWorkflows(r))
    /\ r.kind = "analytics" /\ "groups" \notin r.todo => r.each = EachGroup(r.workflows)
    /\ r.kind = "stats" =>
          \A w \in Workflows : w \notin r.todo => r.each[w] = EachGroup(r.workflows)[w]
    /\ r.kind = "list" /\ "page" \notin r.todo =>
          r.page = PageOf(Cardinality(RowsOf(r.workflows)))

\* Until the workflows are read no other answer has come.
QuietAt(r) ==
    r.kind # "none" /\ r.quiet =>
        /\ "workflows" \in r.todo =>
              /\ r.kind = "analytics" => {"groups", "total"} \subseteq r.todo
              /\ r.kind = "stats" => r.each = [w \in Workflows |-> NoGroup] /\ r.todo = {"workflows"}
              /\ r.kind = "list" => {"page", "total"} \subseteq r.todo
              /\ r.kind # "system"
        /\ "workflows" \notin r.todo => Fresh(r)

QuietInv == QuietAt(report)

\* As long as the rows stay what they are it only matters what becomes of the report.
LEMMA QuietFrame ==
    ASSUME report'.scope = report.scope, status' = status, NEW r, r = report', QuietAt(r)
    PROVE  QuietInv'
<1>1. \A ws : RowsOf(ws)' = RowsOf(ws)
    BY DEF RowsOf
<1>2. \A ws : Cardinality(RowsOf(ws))' = Cardinality(RowsOf(ws))
    BY <1>1
<1>3. \A ws : GroupBy(ws)' = GroupBy(ws)
    BY <1>1 DEF GroupBy
<1>4. \A ws : EachGroup(ws)' = EachGroup(ws)
    BY <1>3 DEF EachGroup
<1> QED
    BY <1>2, <1>3, <1>4 DEF QuietInv, QuietAt, Fresh, CountedWorkflows

\* A report that is opened has no answer yet.
LEMMA QuietOpen ==
    ASSUME AnalyticsTypeOK, NEW kind, NEW todo, NEW scopes, Open(kind, todo, scopes),
           \/ kind = "analytics" /\ todo = {"workflows", "groups", "total"}
           \/ kind = "stats" /\ todo = {"workflows"}
           \/ kind = "list" /\ todo = {"workflows", "page", "total"}
           \/ kind = "system" /\ todo = {"total", "groups"}
    PROVE  QuietInv'
<1>1. PICK scope \in scopes : report' = [NoReport EXCEPT !.kind = kind, !.todo = todo, !.scope = scope]
    BY DEF Open
<1>2. PICK r : r = report'
    OBVIOUS
<1>3. r.kind = kind /\ r.todo = todo /\ r.each = [w \in Workflows |-> NoGroup]
    BY <1>1, <1>2 DEF NoReport
<1>4. QuietAt(r)'
    BY <1>2, <1>3 DEF QuietAt, Fresh
<1> QED
    BY <1>2, <1>4 DEF QuietInv

LEMMA QuietNext ==
    ASSUME AnalyticsTypeOK, QuietInv, [AnalyticsNext]_analyticsVars
    PROVE  QuietInv'
<1> USE DEF analyticsVars, pipeline
<1>0. report \in Report
    BY DEF AnalyticsTypeOK, Report
<1>1. CASE AnalyticsExecutionStats
    <2>1. CASE Open("analytics", {"workflows", "groups", "total"}, Scopes)
        BY <2>1, QuietOpen
    <2>2. CASE report.kind = "analytics"
               /\ Answer("workflows", [report EXCEPT !.workflows = workflows])
        <3>1. PICK r : r = report'
            OBVIOUS
        <3>2. /\ r.kind = report.kind /\ r.quiet = report.quiet /\ r.scope = report.scope
              /\ r.todo = report.todo \ {"workflows"} /\ "workflows" \in report.todo
            BY <1>0, <2>2, <3>1 DEF Answer, Report, EachGroup
        <3>3. QuietAt(r)
            BY <2>2, <3>2 DEF QuietAt, Fresh, QuietInv, CountedWorkflows, PageOf, Answer
        <3> QED
            BY <2>2, <3>1, <3>2, <3>3, QuietFrame DEF Answer
    <2>3. CASE /\ report.kind = "analytics" /\ "workflows" \notin report.todo
               /\ Answer("groups", [report EXCEPT
                      !.groups = GroupBy(report.workflows),
                      !.each = [w \in Workflows |-> IF w \in report.workflows
                                                    THEN GroupBy({w}) ELSE NoGroup]])
        <3>1. PICK r : r = report'
            OBVIOUS
        <3>2. /\ r.kind = report.kind /\ r.quiet = report.quiet /\ r.scope = report.scope
              /\ r.todo = report.todo \ {"groups"} /\ r.workflows = report.workflows
              /\ r.groups = GroupBy(report.workflows) /\ r.each = EachGroup(report.workflows)
              /\ r.total = report.total
            BY <1>0, <2>3, <3>1 DEF Answer, Report, EachGroup
        <3>3. QuietAt(r)
            BY <2>3, <3>2 DEF QuietAt, Fresh, QuietInv, CountedWorkflows, PageOf, Answer
        <3> QED
            BY <2>3, <3>1, <3>2, <3>3, QuietFrame DEF Answer
    <2>4. CASE /\ report.kind = "analytics" /\ "groups" \notin report.todo
               /\ Answer("total", [report EXCEPT !.total = Cardinality(RowsOf(report.workflows))])
        <3>1. PICK r : r = report'
            OBVIOUS
        <3>2. /\ r.kind = report.kind /\ r.quiet = report.quiet /\ r.scope = report.scope
              /\ r.todo = report.todo \ {"total"} /\ r.workflows = report.workflows
              /\ r.total = Cardinality(RowsOf(report.workflows))
              /\ r.groups = report.groups /\ r.each = report.each /\ r.page = report.page
            BY <1>0, <2>4, <3>1 DEF Answer, Report, EachGroup
        <3>3. QuietAt(r)
            BY <2>4, <3>2 DEF QuietAt, Fresh, QuietInv, CountedWorkflows, PageOf, Answer
        <3> QED
            BY <2>4, <3>1, <3>2, <3>3, QuietFrame DEF Answer
    <2> QED
        BY <1>1, <2>1, <2>2, <2>3, <2>4 DEF AnalyticsExecutionStats
<1>2. CASE ExecutionStats
    <2>1. CASE Open("stats", {"workflows"}, Scopes)
        BY <2>1, QuietOpen
    <2>2. CASE /\ report.kind = "stats" /\ "workflows" \in report.todo
               /\ report' = [report EXCEPT !.workflows = workflows,
                                           !.todo = {"groups", "total"} \cup workflows]
               /\ UNCHANGED pipeline
        <3>1. PICK r : r = report'
            OBVIOUS
        <3>2. /\ r.kind = report.kind /\ r.quiet = report.quiet /\ r.scope = report.scope
              /\ r.todo = {"groups", "total"} \cup workflows /\ r.workflows = workflows
              /\ r.each = report.each
            BY <1>0, <2>2, <3>1 DEF Report
        <3>3. "workflows" \notin r.todo
            BY <3>2, QueriesAssumption DEF AnalyticsTypeOK
        <3>4. QuietAt(r)
            BY <2>2, <3>2, <3>3 DEF QuietAt, Fresh, QuietInv, EachGroup
        <3> QED
            BY <2>2, <3>1, <3>2, <3>4, QuietFrame
    <2>3. CASE /\ report.kind = "stats"
               /\ Answer("total", [report EXCEPT !.total = Cardinality(RowsOf(report.workflows))])
        <3>1. PICK r : r = report'
            OBVIOUS
        <3>2. /\ r.kind = report.kind /\ r.quiet = report.quiet /\ r.scope = report.scope
              /\ r.todo = report.todo \ {"total"} /\ r.workflows = report.workflows
              /\ r.total = Cardinality(RowsOf(report.workflows))
              /\ r.groups = report.groups /\ r.each = report.each /\ r.page = report.page
            BY <1>0, <2>3, <3>1 DEF Answer, Report, EachGroup
        <3>3. QuietAt(r)
            BY <2>3, <3>2, QueriesAssumption DEF QuietAt, Fresh, QuietInv, CountedWorkflows, PageOf, Answer
        <3> QED
            BY <2>3, <3>1, <3>2, <3>3, QuietFrame DEF Answer
    <2>4. CASE /\ report.kind = "stats"
               /\ Answer("groups", [report EXCEPT !.groups = GroupBy(report.workflows)])
        <3>1. PICK r : r = report'
            OBVIOUS
        <3>2. /\ r.kind = report.kind /\ r.quiet = report.quiet /\ r.scope = report.scope
              /\ r.todo = report.todo \ {"groups"} /\ r.workflows = report.workflows
              /\ r.groups = GroupBy(report.workflows)
              /\ r.total = report.total /\ r.each = report.each
            BY <1>0, <2>4, <3>1 DEF Answer, Report, EachGroup
        <3>3. QuietAt(r)
            BY <2>4, <3>2, QueriesAssumption DEF QuietAt, Fresh, QuietInv, CountedWorkflows, PageOf, Answer
        <3> QED
            BY <2>4, <3>1, <3>2, <3>3, QuietFrame DEF Answer
    <2>5. ASSUME NEW w \in report.workflows, report.kind = "stats",
                 Answer(w, [report EXCEPT !.each[w] = GroupBy({w})])
          PROVE  QuietInv'
        <3>1. PICK r : r = report'
            OBVIOUS
        <3>2. w \in Workflows
            BY <1>0 DEF Report
        <3>3. /\ r.kind = report.kind /\ r.quiet = report.quiet /\ r.scope = report.scope
              /\ r.todo = report.todo \ {w} /\ r.workflows = report.workflows
              /\ r.total = report.total /\ r.groups = report.groups
              /\ r.each[w] = GroupBy({w})
              /\ \A v \in Workflows : v # w => r.each[v] = report.each[v]
            BY <1>0, <2>5, <3>1, <3>2 DEF Answer, Report
        <3>4. w \notin {"workflows", "groups", "total"}
            BY <3>2, QueriesAssumption
        <3>5. w \in report.todo
            BY <2>5 DEF Answer
        <3>6. QuietAt(r)
            BY <2>5, <3>2, <3>3, <3>4, <3>5
               DEF QuietAt, Fresh, QuietInv, CountedWorkflows, EachGroup
        <3> QED
            BY <2>5, <3>1, <3>3, <3>6, QuietFrame DEF Answer
    <2> QED
        BY <1>2, <2>1, <2>2, <2>3, <2>4, <2>5 DEF ExecutionStats
<1>3. CASE ListExecutions
    <2>1. CASE Open("list", {"workflows", "page", "total"}, Scopes)
        BY <2>1, QuietOpen
    <2>2. CASE report.kind = "list"
               /\ Answer("workflows", [report EXCEPT !.workflows = workflows])
        <3>1. PICK r : r = report'
            OBVIOUS
        <3>2. /\ r.kind = report.kind /\ r.quiet = report.quiet /\ r.scope = report.scope
              /\ r.todo = report.todo \ {"workflows"} /\ "workflows" \in report.todo
            BY <1>0, <2>2, <3>1 DEF Answer, Report, EachGroup
        <3>3. QuietAt(r)
            BY <2>2, <3>2 DEF QuietAt, Fresh, QuietInv, CountedWorkflows, PageOf, Answer
        <3> QED
            BY <2>2, <3>1, <3>2, <3>3, QuietFrame DEF Answer
    <2>3. CASE /\ report.kind = "list" /\ "workflows" \notin report.todo
               /\ Answer("total", [report EXCEPT !.total = Cardinality(RowsOf(report.workflows))])
        <3>1. PICK r : r = report'
            OBVIOUS
        <3>2. /\ r.kind = report.kind /\ r.quiet = report.quiet /\ r.scope = report.scope
              /\ r.todo = report.todo \ {"total"} /\ r.workflows = report.workflows
              /\ r.total = Cardinality(RowsOf(report.workflows))
              /\ r.groups = report.groups /\ r.each = report.each /\ r.page = report.page
            BY <1>0, <2>3, <3>1 DEF Answer, Report, EachGroup
        <3>3. QuietAt(r)
            BY <2>3, <3>2 DEF QuietAt, Fresh, QuietInv, CountedWorkflows, PageOf, Answer
        <3> QED
            BY <2>3, <3>1, <3>2, <3>3, QuietFrame DEF Answer
    <2>4. CASE /\ report.kind = "list" /\ "workflows" \notin report.todo
               /\ Answer("page", [report EXCEPT
                      !.page = LET n == Cardinality(RowsOf(report.workflows))
                               IN IF n > PageSize THEN PageSize ELSE n])
        <3>1. PICK r : r = report'
            OBVIOUS
        <3>2. /\ r.kind = report.kind /\ r.quiet = report.quiet /\ r.scope = report.scope
              /\ r.todo = report.todo \ {"page"} /\ r.workflows = report.workflows
              /\ r.page = PageOf(Cardinality(RowsOf(report.workflows)))
              /\ r.total = report.total
            BY <1>0, <2>4, <3>1 DEF Answer, Report, PageOf
        <3>3. QuietAt(r)
            BY <2>4, <3>2 DEF QuietAt, Fresh, QuietInv, CountedWorkflows, Answer
        <3> QED
            BY <2>4, <3>1, <3>2, <3>3, QuietFrame DEF Answer
    <2> QED
        BY <1>3, <2>1, <2>2, <2>3, <2>4 DEF ListExecutions
<1>4. CASE SystemStats
    <2>1. CASE Open("system", {"total", "groups"}, {Executions})
        BY <2>1, QuietOpen
    <2>2. CASE /\ report.kind = "system"
               /\ Answer("total", [report EXCEPT !.total = Cardinality(RowsOf(Workflows))])
        <3>1. PICK r : r = report'
            OBVIOUS
        <3>2. /\ r.kind = report.kind /\ r.quiet = report.quiet /\ r.scope = report.scope
              /\ r.todo = report.todo \ {"total"} /\ r.workflows = report.workflows
              /\ r.total = Cardinality(RowsOf(Workflows))
              /\ r.groups = report.groups /\ r.each = report.each /\ r.page = report.page
            BY <1>0, <2>2, <3>1 DEF Answer, Report, EachGroup
        <3>3. QuietAt(r)
            BY <2>2, <3>2 DEF QuietAt, Fresh, QuietInv, CountedWorkflows, PageOf, Answer
        <3> QED
            BY <2>2, <3>1, <3>2, <3>3, QuietFrame DEF Answer
    <2>3. CASE /\ report.kind = "system" /\ "total" \notin report.todo
               /\ Answer("groups", [report EXCEPT !.groups = GroupBy(Workflows)])
        <3>1. PICK r : r = report'
            OBVIOUS
        <3>2. /\ r.kind = report.kind /\ r.quiet = report.quiet /\ r.scope = report.scope
              /\ r.todo = report.todo \ {"groups"} /\ r.workflows = report.workflows
              /\ r.groups = GroupBy(Workflows)
              /\ r.total = report.total /\ r.each = report.each
            BY <1>0, <2>3, <3>1 DEF Answer, Report, EachGroup
        <3>3. QuietAt(r)
            BY <2>3, <3>2 DEF QuietAt, Fresh, QuietInv, CountedWorkflows, PageOf, Answer
        <3> QED
            BY <2>3, <3>1, <3>2, <3>3, QuietFrame DEF Answer
    <2> QED
        BY <1>4, <2>1, <2>2, <2>3 DEF SystemStats
<1>5. CASE Send
    BY <1>5 DEF Send, NoReport, QuietInv, QuietAt
<1>6. ASSUME NEW deletes \in BOOLEAN, Disturb(deletes) PROVE QuietInv'
    <2>1. report'.kind = "none" \/ ~report'.quiet
        BY <1>0, <1>6 DEF Disturb, Report
    <2> QED
        BY <2>1 DEF QuietInv, QuietAt
<1>7. ASSUME \/ \E e \in Executions : InsertExecution(e)
             \/ \E e \in Executions, s \in Status : ChangeStatus(e, s)
             \/ \E w \in Workflows : DeleteWorkflow(w)
      PROVE  QuietInv'
    BY <1>6, <1>7 DEF InsertExecution, ChangeStatus, DeleteWorkflow
<1>8. CASE \/ \E e \in Executions, tokens \in TokensOfRun : UpdateUsageMetrics(e, tokens)
           \/ NextDay
           \/ UNCHANGED analyticsVars
    <2>1. report' = report /\ status' = status
        BY <1>8 DEF UpdateUsageMetrics, NextDay
    <2> QED
        BY <2>1, QuietFrame DEF QuietInv
<1> QED
    BY <1>1, <1>2, <1>3, <1>4, <1>5, <1>7, <1>8 DEF AnalyticsNext

\* The groups of rows by status add up to the rows.
LEMMA GroupsAddUp ==
    ASSUME AnalyticsTypeOK, NEW ws
    PROVE  SumOf(GroupBy(ws)) = Cardinality(RowsOf(ws))
<1>1. IsFiniteSet(RowsOf(ws)) /\ \A e \in RowsOf(ws) : status[e] \in Status
    <2>1. RowsOf(ws) \in SUBSET Executions
        BY CountTypes
    <2>2. \A e \in RowsOf(ws) : status[e] \in Status
        BY <2>1 DEF RowsOf, AnalyticsTypeOK
    <2> QED
        BY <2>1, <2>2, CountSubset
<1>2. IsFiniteSet(Status)
    <2>1. IsFiniteSet({"PENDING", "RUNNING", "SUCCESS", "FAILED"} \cup {"CANCELLED"})
        <3>1. IsFiniteSet({"PENDING"} \cup {"RUNNING"})
            BY FS_Singleton, FS_Union
        <3>2. IsFiniteSet({"SUCCESS"} \cup {"FAILED"})
            BY FS_Singleton, FS_Union
        <3>3. IsFiniteSet(({"PENDING"} \cup {"RUNNING"}) \cup ({"SUCCESS"} \cup {"FAILED"}))
            BY <3>1, <3>2, FS_Union
        <3>4. ({"PENDING"} \cup {"RUNNING"}) \cup ({"SUCCESS"} \cup {"FAILED"})
                 = {"PENDING", "RUNNING", "SUCCESS", "FAILED"}
            OBVIOUS
        <3> QED
            BY <3>3, <3>4, FS_AddElement
    <2>2. Status = {"PENDING", "RUNNING", "SUCCESS", "FAILED"} \cup {"CANCELLED"}
        BY DEF Status
    <2> QED
        BY <2>1, <2>2
<1>3. GroupBy(ws) = [s \in Status |-> Cardinality({e \in RowsOf(ws) : status[e] = s})]
    BY DEF GroupBy
<1>4. Sum(GroupBy(ws), Status) = Cardinality(RowsOf(ws))
    BY <1>1, <1>2, <1>3, SumOfCounts
<1>5. DOMAIN GroupBy(ws) = Status
    BY <1>3
<1> QED
    BY <1>4, <1>5 DEF SumOf, FoldFunction, Sum

\* The figures of the workflows add up to the organisation's, for every status.
LEMMA WorkflowsAddUp ==
    ASSUME AnalyticsTypeOK, NEW ws \in SUBSET Workflows, NEW s \in Status
    PROVE  GroupBy(ws)[s]
              = FoldFunctionOnSet(+, 0, [w \in Workflows |-> EachGroup(ws)[w][s]], Workflows)
<1>1. PICK R : R = {e \in RowsOf(ws) : status[e] = s}
    OBVIOUS
<1>2. IsFiniteSet(R) /\ \A e \in R : WorkflowOf[e] \in Workflows
    <2>1. R \in SUBSET Executions
        BY <1>1, CountTypes
    <2> QED
        BY <2>1, CountSubset, AnalyticsSetsAssumption
<1>3. ASSUME NEW w \in Workflows
      PROVE  EachGroup(ws)[w][s] = Cardinality({e \in R : WorkflowOf[e] = w})
    <2>1. CASE w \in ws
        <3>1. {e \in RowsOf({w}) : status[e] = s} = {e \in R : WorkflowOf[e] = w}
            BY <1>1, <2>1 DEF RowsOf
        <3> QED
            BY <2>1, <3>1 DEF EachGroup, GroupBy
    <2>2. CASE w \notin ws
        <3>1. {e \in R : WorkflowOf[e] = w} = {}
            BY <1>1, <2>2 DEF RowsOf
        <3> QED
            BY <2>2, <3>1, FS_EmptySet DEF EachGroup, NoGroup
    <2> QED
        BY <2>1, <2>2
<1>4. [w \in Workflows |-> EachGroup(ws)[w][s]]
         = [w \in Workflows |-> Cardinality({e \in R : WorkflowOf[e] = w})]
    BY <1>3
<1>5. Sum([w \in Workflows |-> Cardinality({e \in R : WorkflowOf[e] = w})], Workflows) = Cardinality(R)
    BY <1>2, AnalyticsSetsAssumption, SumOfCounts
<1>6. GroupBy(ws)[s] = Cardinality(R)
    BY <1>1 DEF GroupBy
<1> QED
    BY <1>4, <1>5, <1>6 DEF Sum

\* A report that nothing disturbs adds up, in whatever order its queries are answered.
THEOREM QuietReports == AnalyticsSpec => []QuietReportsAddUp
<1>1. AnalyticsInit => QuietInv
    BY DEF AnalyticsInit, NoReport, QuietInv, QuietAt
<1>2. AnalyticsTypeOK /\ QuietInv => QuietReportsAddUp
    <2> SUFFICES ASSUME AnalyticsTypeOK, QuietInv, Done, report.quiet
                 PROVE  QuietReportsAddUp
        BY DEF QuietReportsAddUp
    <2>1. report.kind \in Kinds \ {"none"} /\ report.todo = {} /\ report.workflows \in SUBSET Workflows
        BY DEF Done, AnalyticsTypeOK
    <2>2. Fresh(report)
        BY <2>1 DEF QuietInv, QuietAt
    <2>3. report.total = Cardinality(RowsOf(CountedWorkflows(report)))
        BY <2>1, <2>2 DEF Fresh
    <2>4. report.kind # "list" => SumOf(report.groups) = report.total
        <3>1. report.kind # "list" => report.groups = GroupBy(CountedWorkflows(report))
            BY <2>1, <2>2 DEF Fresh
        <3> QED
            BY <2>3, <3>1, GroupsAddUp
    <2>5. ASSUME report.kind \in {"analytics", "stats"}, NEW s \in Status
          PROVE  report.groups[s]
                    = FoldFunctionOnSet(+, 0, [w \in Workflows |-> report.each[w][s]], Workflows)
        <3>1. report.groups = GroupBy(report.workflows)
            BY <2>1, <2>2, <2>5 DEF Fresh, CountedWorkflows
        <3>2. \A w \in Workflows : report.each[w] = EachGroup(report.workflows)[w]
            BY <2>1, <2>2, <2>5 DEF Fresh
        <3>3. [w \in Workflows |-> report.each[w][s]]
                 = [w \in Workflows |-> EachGroup(report.workflows)[w][s]]
            BY <3>2
        <3> QED
            BY <2>1, <3>1, <3>3, WorkflowsAddUp
    <2>6. ASSUME report.kind = "list"
          PROVE  HasMore <=> Cardinality(RowsOf(report.workflows)) > PageSize
        <3>1. report.total = Cardinality(RowsOf(report.workflows))
            BY <2>3, <2>6 DEF CountedWorkflows
        <3>2. report.page = PageOf(Cardinality(RowsOf(report.workflows)))
            BY <2>1, <2>2, <2>6 DEF Fresh
        <3>3. Cardinality(RowsOf(report.workflows)) \in Nat
            BY CountTypes DEF Count
        <3> QED
            BY <3>1, <3>2, <3>3, AnalyticsBoundsAssumption DEF HasMore, PageOf
    <2> QED
        BY <2>4, <2>5, <2>6 DEF QuietReportsAddUp
<1> QED
    BY <1>1, <1>2, AnalyticsTypeInit, AnalyticsTypeNext, QuietNext, PTL DEF AnalyticsSpec

-----------------------------------------------------------------------------
(* The platform's figures. *)

\* The rows that the total has counted are there when the groups are counted.
CoverInv ==
    report.kind = "system" /\ report.kept =>
        /\ "total" \in report.todo => "groups" \in report.todo
        /\ "total" \notin report.todo =>
              report.total <= IF "groups" \in report.todo THEN Cardinality(RowsOf(Workflows))
                              ELSE SumOf(report.groups)

LEMMA CoverFrame ==
    ASSUME AnalyticsTypeOK, CoverInv,
           \/ report' = report
           \/ report.kind # "none" /\ report' = [report EXCEPT !.quiet = FALSE, !.kept = @ /\ ~FALSE],
           status' \in [Executions -> Status \cup {"none"}],
           \A e \in Executions : status[e] # "none" => status'[e] # "none"
    PROVE  CoverInv'
<1>1. PICK r : r = report'
    OBVIOUS
<1>2. /\ r.kind = report.kind /\ (r.kept => report.kept)
      /\ r.todo = report.todo /\ r.groups = report.groups
      /\ r.total = report.total /\ r.scope = report.scope
    BY <1>1 DEF AnalyticsTypeOK
<1>3. PICK old : old = RowsOf(Workflows)
    OBVIOUS
<1>4. PICK new : new = RowsOf(Workflows)'
    OBVIOUS
<1>5. old \subseteq new /\ new \in SUBSET Executions
    BY <1>1, <1>2, <1>3, <1>4 DEF RowsOf, AnalyticsTypeOK
<1>6. IsFiniteSet(old) /\ IsFiniteSet(new) /\ Cardinality(old) <= Cardinality(new)
    BY <1>5, CountSubset, FS_Subset
<1>7. Cardinality(old) \in Nat /\ Cardinality(new) \in Nat /\ report.total \in Nat
    BY <1>6, FS_CardinalityType DEF AnalyticsTypeOK, Count
<1>8. SumOf(report.groups)' = SumOf(report.groups)
    BY <1>1, <1>2
<1>9. Cardinality(RowsOf(Workflows))' = Cardinality(new)
    BY <1>4
<1> QED
    BY <1>1, <1>2, <1>3, <1>6, <1>7, <1>8, <1>9 DEF CoverInv

LEMMA CoverNext ==
    ASSUME AnalyticsTypeOK, CoverInv, [AnalyticsNext]_analyticsVars
    PROVE  CoverInv'
<1> USE DEF analyticsVars, pipeline
<1>0. report \in Report
    BY DEF AnalyticsTypeOK, Report
<1>1. CASE SystemStats
    <2>1. CASE Open("system", {"total", "groups"}, {Executions})
        <3>1. report'.todo = {"total", "groups"}
            BY <2>1 DEF Open, NoReport
        <3> QED
            BY <3>1 DEF CoverInv
    <2>2. CASE report.kind = "system"
               /\ Answer("total", [report EXCEPT !.total = Cardinality(RowsOf(Workflows))])
        <3>1. PICK r : r = report'
            OBVIOUS
        <3>2. /\ "total" \in report.todo /\ r.kind = "system" /\ r.kept = report.kept
              /\ r.todo = report.todo \ {"total"} /\ r.total = Cardinality(RowsOf(Workflows))
              /\ r.scope = report.scope /\ status' = status
            BY <1>0, <2>2, <3>1 DEF Answer, Report
        <3>3. RowsOf(Workflows)' = RowsOf(Workflows)
            BY <3>1, <3>2 DEF RowsOf
        <3>4. Cardinality(RowsOf(Workflows)) \in Nat
            BY CountTypes DEF Count
        <3>5. r.kept => "groups" \in r.todo
            BY <2>2, <3>2 DEF CoverInv
        <3> QED
            BY <3>1, <3>2, <3>3, <3>4, <3>5 DEF CoverInv
    <2>3. CASE /\ report.kind = "system" /\ "total" \notin report.todo
               /\ Answer("groups", [report EXCEPT !.groups = GroupBy(Workflows)])
        <3>1. PICK r : r = report'
            OBVIOUS
        <3>2. /\ "groups" \in report.todo /\ r.kept = report.kept
              /\ r.todo = report.todo \ {"groups"} /\ r.total = report.total
              /\ r.groups = GroupBy(Workflows)
            BY <1>0, <2>3, <3>1 DEF Answer, Report
        <3>3. SumOf(r.groups) = Cardinality(RowsOf(Workflows))
            BY <3>2, GroupsAddUp
        <3>4. SumOf(report.groups)' = SumOf(r.groups)
            BY <3>1
        <3> QED
            BY <2>3, <3>1, <3>2, <3>3, <3>4 DEF CoverInv
    <2> QED
        BY <1>1, <2>1, <2>2, <2>3 DEF SystemStats
<1>2. CASE AnalyticsExecutionStats \/ ExecutionStats \/ ListExecutions \/ Send
    <2>1. AnalyticsExecutionStats => report'.kind # "system"
        BY <1>0 DEF AnalyticsExecutionStats, Open, Answer, NoReport, Report
    <2>2. ExecutionStats => report'.kind # "system"
        BY <1>0 DEF ExecutionStats, Open, Answer, NoReport, Report
    <2>3. ListExecutions => report'.kind # "system"
        BY <1>0 DEF ListExecutions, Open, Answer, NoReport, Report
    <2>4. Send => report'.kind # "system"
        BY DEF Send, NoReport
    <2> QED
        BY <1>2, <2>1, <2>2, <2>3, <2>4 DEF CoverInv
<1>3. ASSUME NEW e \in Executions, InsertExecution(e) PROVE CoverInv'
    <2>1. status' \in [Executions -> Status \cup {"none"}]
        BY TablesTypeNext
    <2>2. \A x \in Executions : status[x] # "none" => status'[x] # "none"
        BY <1>3 DEF InsertExecution, AnalyticsTypeOK
    <2> QED
        BY <1>3, <2>1, <2>2, CoverFrame DEF InsertExecution, Disturb
<1>4. ASSUME NEW e \in Executions, NEW s \in Status, ChangeStatus(e, s) PROVE CoverInv'
    <2>1. status' \in [Executions -> Status \cup {"none"}]
        BY TablesTypeNext
    <2>2. \A x \in Executions : status[x] # "none" => status'[x] # "none"
        BY <1>4 DEF ChangeStatus, AnalyticsTypeOK, Status
    <2> QED
        BY <1>4, <2>1, <2>2, CoverFrame DEF ChangeStatus, Disturb
<1>5. ASSUME NEW w \in Workflows, DeleteWorkflow(w) PROVE CoverInv'
    <2>1. report'.kind = "none" \/ ~report'.kept
        BY <1>0, <1>5 DEF DeleteWorkflow, Disturb, Report
    <2> QED
        BY <2>1 DEF CoverInv
<1>6. CASE \/ \E e \in Executions, tokens \in TokensOfRun : UpdateUsageMetrics(e, tokens)
           \/ NextDay
           \/ UNCHANGED analyticsVars
    <2>1. report' = report /\ status' = status
        BY <1>6 DEF UpdateUsageMetrics, NextDay
    <2> QED
        BY <2>1, CoverFrame DEF AnalyticsTypeOK
<1> QED
    BY <1>1, <1>2, <1>3, <1>4, <1>5, <1>6 DEF AnalyticsNext

\* The groups of the system page never fall short of its total unless executions were
\* deleted, for the total is counted first.
THEOREM SystemGroups == AnalyticsSpec => []GroupsCoverTotal
<1>1. AnalyticsInit => CoverInv
    BY DEF AnalyticsInit, NoReport, CoverInv
<1>2. AnalyticsTypeOK /\ CoverInv => GroupsCoverTotal
    <2> SUFFICES ASSUME AnalyticsTypeOK, CoverInv, Done, report.kind = "system", report.kept
                 PROVE  SumOf(report.groups) >= report.total
        BY DEF GroupsCoverTotal
    <2>1. report.total <= SumOf(report.groups)
        BY DEF CoverInv, Done
    <2> QED
        BY <2>1
<1> QED
    BY <1>1, <1>2, AnalyticsTypeInit, AnalyticsTypeNext, CoverNext, PTL DEF AnalyticsSpec

-----------------------------------------------------------------------------
(* The estimated bill. *)

\* Nothing counts API calls, so the free plan has no overage; and within a day the counters
\* only grow.
BillInv == \A d \in 0 .. LastDay : usage[d].apiCalls = 0

\* A larger use of the month has no smaller a bill.
LEMMA BillMonotone ==
    ASSUME NEW u \in Metric, NEW v \in Metric, u.apiCalls = 0, v.apiCalls = 0,
           u.workflowRuns <= v.workflowRuns, u.aiTokens <= v.aiTokens
    PROVE  EstimatedBill(v) >= EstimatedBill(u)
<1>1. /\ u.workflowRuns \in Nat /\ u.aiTokens \in Nat
      /\ v.workflowRuns \in Nat /\ v.aiTokens \in Nat
    BY DEF Metric
<1>2. /\ FreeRuns \in Nat /\ FreeTokens \in Nat /\ FreeCalls \in Nat
      /\ ProRuns \in Nat /\ ProTokens \in Nat /\ ProPrice \in Nat /\ EnterprisePrice \in Nat
    BY PlansAssumption
<1>3. ASSUME NEW m \in Metric, m.apiCalls = 0, CurrentPlan(m) = "free"
      PROVE  EstimatedBill(m) = 0
    <2>1. m.workflowRuns \in Nat /\ m.aiTokens \in Nat
        BY DEF Metric
    <2>2. m.workflowRuns <= FreeRuns /\ m.aiTokens <= FreeTokens
        BY <1>2, <1>3, <2>1 DEF CurrentPlan
    <2>3. Overage(m) = 0
        BY <1>2, <1>3, <2>1, <2>2 DEF Overage, Over
    <2> QED
        BY <1>3, <2>3 DEF EstimatedBill
<1>4. \A m : CurrentPlan(m) \in {"free", "pro", "enterprise"}
    BY DEF CurrentPlan
<1>5. ASSUME NEW m, CurrentPlan(m) = "pro" PROVE EstimatedBill(m) = ProPrice
    BY <1>5 DEF EstimatedBill
<1>6. ASSUME NEW m, CurrentPlan(m) = "enterprise" PROVE EstimatedBill(m) = EnterprisePrice
    BY <1>6 DEF EstimatedBill
<1>7. CurrentPlan(u) = "enterprise" => CurrentPlan(v) = "enterprise"
    BY <1>1, <1>2 DEF CurrentPlan
<1>8. CurrentPlan(u) = "pro" => CurrentPlan(v) \in {"pro", "enterprise"}
    BY <1>1, <1>2, PlansAssumption DEF CurrentPlan
<1>9. EstimatedBill(v) \in {0, ProPrice, EnterprisePrice}
    BY <1>3, <1>4, <1>5, <1>6
<1>10. CASE CurrentPlan(u) = "free"
    BY <1>2, <1>3, <1>9, <1>10
<1>11. CASE CurrentPlan(u) = "pro"
    BY <1>2, <1>5, <1>6, <1>8, <1>11, PlansAssumption
<1>12. CASE CurrentPlan(u) = "enterprise"
    BY <1>2, <1>6, <1>7, <1>12
<1> QED
    BY <1>4, <1>10, <1>11, <1>12

LEMMA MonthUsageNext ==
    MonthUsage' = Totals(usage', {d \in 0 .. today' : MonthOf(d) = MonthOf(today')})
BY DEF MonthUsage, MonthOf

\* The bill grows with the table and the days.
LEMMA BillGrows ==
    ASSUME NEW old, NEW new, NEW S, NEW T, IsFiniteSet(T), S \subseteq T,
           \A d \in S : /\ old[d] \in Metric /\ old[d].apiCalls = 0
                        /\ old[d].workflowRuns <= new[d].workflowRuns
                        /\ old[d].aiTokens <= new[d].aiTokens,
           \A d \in T : new[d] \in Metric /\ new[d].apiCalls = 0
    PROVE  EstimatedBill(Totals(new, T)) >= EstimatedBill(Totals(old, S))
<1> DEFINE u == Totals(old, S)
           v == Totals(new, T)
<1>1. IsFiniteSet(S)
    BY FS_Subset
<1>2. u.apiCalls = 0 /\ v.apiCalls = 0
    <2>1. PICK f : f = [d \in S |-> old[d]["apiCalls"]]
        OBVIOUS
    <2>2. PICK g : g = [d \in T |-> new[d]["apiCalls"]]
        OBVIOUS
    <2>3. Sum(f, S) = 0 /\ Sum(g, T) = 0
        BY <1>1, <2>1, <2>2, SumZero
    <2>4. u.apiCalls = Sum(f, S) /\ v.apiCalls = Sum(g, T)
        BY <2>1, <2>2 DEF Totals, Sum
    <2> QED
        BY <2>3, <2>4
<1>3. u.workflowRuns \in Nat /\ v.workflowRuns \in Nat /\ u.workflowRuns <= v.workflowRuns
    <2>1. PICK f : f = [d \in S |-> old[d]["workflowRuns"]]
        OBVIOUS
    <2>2. PICK g : g = [d \in T |-> new[d]["workflowRuns"]]
        OBVIOUS
    <2>3. (\A d \in S : f[d] \in Nat /\ f[d] <= g[d]) /\ \A d \in T : g[d] \in Nat
        BY <2>1, <2>2 DEF Metric
    <2>4. Sum(f, S) <= Sum(g, T) /\ Sum(f, S) \in Nat /\ Sum(g, T) \in Nat
        BY <1>1, <2>3, SumMonotone, SumNat
    <2>5. u.workflowRuns = Sum(f, S) /\ v.workflowRuns = Sum(g, T)
        BY <2>1, <2>2 DEF Totals, Sum
    <2> QED
        BY <2>4, <2>5
<1>4. u.aiTokens \in Nat /\ v.aiTokens \in Nat /\ u.aiTokens <= v.aiTokens
    <2>1. PICK f : f = [d \in S |-> old[d]["aiTokens"]]
        OBVIOUS
    <2>2. PICK g : g = [d \in T |-> new[d]["aiTokens"]]
        OBVIOUS
    <2>3. (\A d \in S : f[d] \in Nat /\ f[d] <= g[d]) /\ \A d \in T : g[d] \in Nat
        BY <2>1, <2>2 DEF Metric
    <2>4. Sum(f, S) <= Sum(g, T) /\ Sum(f, S) \in Nat /\ Sum(g, T) \in Nat
        BY <1>1, <2>3, SumMonotone, SumNat
    <2>5. u.aiTokens = Sum(f, S) /\ v.aiTokens = Sum(g, T)
        BY <2>1, <2>2 DEF Totals, Sum
    <2> QED
        BY <2>4, <2>5
<1>5. /\ u = [apiCalls |-> u.apiCalls, workflowRuns |-> u.workflowRuns, aiTokens |-> u.aiTokens]
      /\ v = [apiCalls |-> v.apiCalls, workflowRuns |-> v.workflowRuns, aiTokens |-> v.aiTokens]
    BY DEF Totals, Sum
<1>6. u \in Metric /\ v \in Metric
    <2> HIDE DEF u, v
    <2> QED
        BY <1>2, <1>3, <1>4, <1>5 DEF Metric
<1> HIDE DEF u, v
<1>7. EstimatedBill(v) >= EstimatedBill(u)
    BY <1>2, <1>3, <1>4, <1>6, BillMonotone
<1> QED
    BY <1>7 DEF u, v

\* A step of the same month, on which no counter falls, does not lower the bill.
LEMMA BillStep ==
    ASSUME AnalyticsTypeOK, AnalyticsTypeOK', BillInv, BillInv', MonthOf(today') = MonthOf(today),
           today <= today', \A d \in 0 .. LastDay : \A c \in {"workflowRuns", "aiTokens"} :
                               usage[d][c] <= usage'[d][c]
    PROVE  EstimatedBill(MonthUsage') >= EstimatedBill(MonthUsage)
<1>1. PICK S : S = {d \in 0 .. today : MonthOf(d) = MonthOf(today)}
    OBVIOUS
<1>2. PICK T : T = {d \in 0 .. today' : MonthOf(d) = MonthOf(today')}
    OBVIOUS
<1>3. LastDay \in Nat /\ today \in 0 .. LastDay /\ today' \in 0 .. LastDay
    BY AnalyticsBoundsAssumption DEF AnalyticsTypeOK
<1>4. S \subseteq T /\ T \subseteq 0 .. LastDay
    BY <1>1, <1>2, <1>3
<1>5. IsFiniteSet(T)
    <2>1. IsFiniteSet(0 .. LastDay)
        BY <1>3, FS_Interval
    <2> QED
        BY <1>4, <2>1, FS_Subset
<1>6. PICK old : old = usage
    OBVIOUS
<1>7. PICK new : new = usage'
    OBVIOUS
<1>8. /\ \A d \in S : /\ old[d] \in Metric /\ old[d].apiCalls = 0
                      /\ old[d].workflowRuns <= new[d].workflowRuns
                      /\ old[d].aiTokens <= new[d].aiTokens
      /\ \A d \in T : new[d] \in Metric /\ new[d].apiCalls = 0
    BY <1>4, <1>6, <1>7 DEF AnalyticsTypeOK, BillInv
<1>9. EstimatedBill(Totals(new, T)) >= EstimatedBill(Totals(old, S))
    BY <1>4, <1>5, <1>8, BillGrows
<1>10. MonthUsage = Totals(old, S)
    BY <1>1, <1>6 DEF MonthUsage
<1>11. MonthUsage' = Totals(new, T)
    BY <1>2, <1>7, MonthUsageNext
<1> QED
    BY <1>9, <1>10, <1>11

LEMMA BillNext ==
    ASSUME AnalyticsTypeOK, BillInv, [AnalyticsNext]_analyticsVars
    PROVE  /\ BillInv'
           /\ MonthOf(today') = MonthOf(today) => EstimatedBill(MonthUsage') >= EstimatedBill(MonthUsage)
<1> USE DEF analyticsVars, pipeline
<1>1. AnalyticsTypeOK'
    BY AnalyticsTypeNext
<1>2. LastDay \in Nat /\ today \in 0 .. LastDay /\ \A d \in 0 .. LastDay : usage[d] \in Metric
    BY AnalyticsBoundsAssumption DEF AnalyticsTypeOK
<1>3. ASSUME today <= today',
             \A d \in 0 .. LastDay : /\ usage'[d].apiCalls = usage[d].apiCalls
                                     /\ usage[d].workflowRuns <= usage'[d].workflowRuns
                                     /\ usage[d].aiTokens <= usage'[d].aiTokens
      PROVE  /\ BillInv'
             /\ MonthOf(today') = MonthOf(today) => EstimatedBill(MonthUsage') >= EstimatedBill(MonthUsage)
    <2>1. BillInv'
        BY <1>3 DEF BillInv
    <2>2. \A d \in 0 .. LastDay : \A c \in {"workflowRuns", "aiTokens"} : usage[d][c] <= usage'[d][c]
        BY <1>3
    <2> QED
        BY <1>1, <1>3, <2>1, <2>2, BillStep
<1>4. ASSUME usage' = usage, today <= today'
      PROVE  /\ today <= today'
             /\ \A d \in 0 .. LastDay : /\ usage'[d].apiCalls = usage[d].apiCalls
                                        /\ usage[d].workflowRuns <= usage'[d].workflowRuns
                                        /\ usage[d].aiTokens <= usage'[d].aiTokens
    BY <1>2, <1>4 DEF Metric
<1>5. CASE usage' = usage /\ today' = today
    BY <1>2, <1>3, <1>4, <1>5
<1>6. CASE NextDay
    BY <1>2, <1>3, <1>4, <1>6 DEF NextDay
<1>7. ASSUME NEW e \in Executions, NEW tokens \in TokensOfRun, UpdateUsageMetrics(e, tokens)
      PROVE  /\ today <= today'
             /\ \A d \in 0 .. LastDay : /\ usage'[d].apiCalls = usage[d].apiCalls
                                        /\ usage[d].workflowRuns <= usage'[d].workflowRuns
                                        /\ usage[d].aiTokens <= usage'[d].aiTokens
    <2>1. tokens \in Nat
        BY AnalyticsBoundsAssumption
    <2>2. ASSUME NEW m \in Metric
          PROVE  /\ Metered(m, tokens).apiCalls = m.apiCalls
                 /\ m.workflowRuns <= Metered(m, tokens).workflowRuns
                 /\ m.aiTokens <= Metered(m, tokens).aiTokens
        BY <2>1 DEF Metered, Metric
    <2>3. today' = today /\ \A d \in 0 .. LastDay :
             usage'[d] = IF d = today THEN Metered(usage[d], tokens) ELSE usage[d]
        BY <1>7 DEF UpdateUsageMetrics, AnalyticsTypeOK
    <2>4. ASSUME NEW d \in 0 .. LastDay
          PROVE  /\ usage'[d].apiCalls = usage[d].apiCalls
                 /\ usage[d].workflowRuns <= usage'[d].workflowRuns
                 /\ usage[d].aiTokens <= usage'[d].aiTokens
        <3>1. CASE d = today
            BY <1>2, <2>2, <2>3, <3>1
        <3>2. CASE d # today
            BY <1>2, <2>3, <3>2 DEF Metric
        <3> QED
            BY <3>1, <3>2
    <2> QED
        BY <1>2, <2>3, <2>4
<1>8. ASSUME \/ AnalyticsExecutionStats \/ ExecutionStats \/ ListExecutions \/ SystemStats \/ Send
             \/ \E e \in Executions : InsertExecution(e)
             \/ \E e \in Executions, s \in Status : ChangeStatus(e, s)
             \/ \E w \in Workflows : DeleteWorkflow(w)
             \/ UNCHANGED analyticsVars
      PROVE  usage' = usage /\ today' = today
    BY <1>8 DEF AnalyticsExecutionStats, ExecutionStats, ListExecutions, SystemStats, Send, Open, Answer,
                InsertExecution, ChangeStatus, DeleteWorkflow
<1>9. CASE \E e \in Executions, tokens \in TokensOfRun : UpdateUsageMetrics(e, tokens)
    BY <1>3, <1>7, <1>9
<1>10. \/ NextDay
       \/ \E e \in Executions, tokens \in TokensOfRun : UpdateUsageMetrics(e, tokens)
       \/ usage' = usage /\ today' = today
    BY <1>8 DEF AnalyticsNext
<1> QED
    BY <1>5, <1>6, <1>9, <1>10

\* Within a month the bill never falls.
THEOREM MonthlyBill == AnalyticsSpec => BillNeverFalls
<1>1. AnalyticsInit => BillInv
    BY DEF AnalyticsInit, NoMetric, BillInv
<1>2. AnalyticsTypeOK /\ BillInv /\ [AnalyticsNext]_analyticsVars
         => BillInv' /\ (MonthOf(today') = MonthOf(today)
                            => EstimatedBill(MonthUsage') >= EstimatedBill(MonthUsage))
    BY BillNext
<1> QED
    BY <1>1, <1>2, AnalyticsTypeInit, AnalyticsTypeNext, PTL DEF AnalyticsSpec, BillNeverFalls
====
