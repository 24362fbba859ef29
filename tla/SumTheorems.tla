---------------------------- MODULE SumTheorems ----------------------------
(***************************************************************************)
(* Facts about Sum for every finite set: the lemmas that the proofs about  *)
(* counters rest on.  Each is proved by taking a smallest counterexample.  *)
(***************************************************************************)
EXTENDS Sums, FiniteSetTheorems, TLAPS

\* The element that MapThenFoldSet folds first.
Pick(s) == CHOOSE x \in s : TRUE

\* g is the recursive function that MapThenFoldSet chooses for f on S.
Summing(g, f, S) ==
  g = [s \in SUBSET S |-> IF s = {} THEN 0 ELSE f[Pick(s)] + g[s \ {Pick(s)}]]

-----------------------------------------------------------------------------
\* Induction over a finite set, as a fact about sets: a nonempty collection of
\* its subsets has a smallest member.
LEMMA Smallest ==
  ASSUME NEW S, IsFiniteSet(S), NEW C, C \subseteq SUBSET S, C # {}
  PROVE  \E T \in C : \A U \in C : U \subseteq T => U = T
<1>1. IsWellFoundedOn(StrictSubsetOrdering(S), SUBSET S)
  BY FS_StrictSubsetOrderingWellFounded, FS_FiniteSubsetsOfFinite
<1>2. PICK T \in C : \A U \in C : ~(<<U, T>> \in StrictSubsetOrdering(S))
  BY <1>1, WFMin
<1> QED
  BY <1>2 DEF StrictSubsetOrdering

\* The element picked is an element.
LEMMA PickIn == ASSUME NEW s, s # {} PROVE Pick(s) \in s
  BY DEF Pick

\* A sum is the value of that recursive function.
LEMMA SumDef ==
  ASSUME NEW f, NEW S
  PROVE  Sum(f, S) = (CHOOSE g : Summing(g, f, S))[S]
  BY DEF Sum, MapThenSumSet, MapThenFoldSet, Summing, Pick

\* Two such functions agree on what both are defined on.
LEMMA Unique ==
  ASSUME NEW S, IsFiniteSet(S), NEW U \in SUBSET S, NEW V \in SUBSET S, NEW f,
         NEW g, NEW h, Summing(g, f, U), Summing(h, f, V)
  PROVE  \A s \in SUBSET (U \cap V) : g[s] = h[s]
<1> DEFINE C == {s \in SUBSET (U \cap V) : g[s] # h[s]}
<1> SUFFICES ASSUME C # {} PROVE FALSE
  OBVIOUS
<1>0. C \subseteq SUBSET S
  OBVIOUS
<1>1. PICK s \in C : \A t \in C : t \subseteq s => t = s
  <2> HIDE DEF C
  <2> QED  BY <1>0, Smallest
<1>2. s # {}
  BY <1>1 DEF Summing
<1>3. Pick(s) \in s
  BY <1>2, PickIn
<1>4. g[s] = f[Pick(s)] + g[s \ {Pick(s)}] /\ h[s] = f[Pick(s)] + h[s \ {Pick(s)}]
  BY <1>2 DEF Summing
<1>5. g[s \ {Pick(s)}] = h[s \ {Pick(s)}]
  BY <1>1, <1>3
<1> QED
  BY <1>1, <1>4, <1>5

\* On a finite set there is such a function.
LEMMA Exists ==
  ASSUME NEW S, IsFiniteSet(S), NEW f
  PROVE  \E g : Summing(g, f, S)
<1> DEFINE C == {T \in SUBSET S : ~ \E g : Summing(g, f, T)}
<1> SUFFICES ASSUME C # {} PROVE FALSE
  OBVIOUS
<1>0. C \subseteq SUBSET S
  OBVIOUS
<1>1. PICK T \in C : \A U \in C : U \subseteq T => U = T
  <2> HIDE DEF C
  <2> QED  BY <1>0, Smallest
<1> DEFINE G(s) == CHOOSE g : Summing(g, f, s)
           Below(s) == s \ {Pick(s)}
           g0 == [s \in SUBSET T |->
                   IF s = {} THEN 0 ELSE f[Pick(s)] + G(Below(s))[Below(s)]]
<1>2. \A s \in SUBSET T : s # {} => Below(s) \in SUBSET T /\ Below(s) # T /\ Below(s) \subseteq s /\ Below(s) # s
  BY PickIn
<1>3. \A s \in SUBSET T : s # T => Summing(G(s), f, s)
  BY <1>1
<1>4. ASSUME NEW s \in SUBSET T, s # {}, s # T
      PROVE  G(s)[s] = f[Pick(s)] + G(Below(s))[Below(s)]
  <2>1. Summing(G(s), f, s) /\ Summing(G(Below(s)), f, Below(s))
    BY <1>2, <1>3, <1>4
  <2>2. G(s)[s] = f[Pick(s)] + G(s)[Below(s)]
    <3> HIDE DEF G
    <3> QED  BY <2>1, <1>4 DEF Summing
  <2>3. Below(s) \in SUBSET (s \cap Below(s)) /\ s \in SUBSET S /\ Below(s) \in SUBSET S
    BY <1>0, <1>2, <1>4
  <2>4. ASSUME NEW a, NEW b, NEW t, t \in SUBSET (s \cap t), t \in SUBSET S, s \in SUBSET S,
               Summing(a, f, s), Summing(b, f, t)
        PROVE  a[t] = b[t]
    BY <2>4, Unique
  <2>5. G(s)[Below(s)] = G(Below(s))[Below(s)]
    <3> HIDE DEF G, Below
    <3> QED  BY <2>1, <2>3, <2>4
  <2> QED  BY <2>2, <2>5
<1>5. ASSUME NEW s \in SUBSET T, s # T
      PROVE  g0[s] = G(s)[s]
  <2>1. CASE s = {}
    <3>1. Summing(G(s), f, s)
      BY <1>3, <1>5
    <3>2. G(s)[s] = 0
      <4> HIDE DEF G
      <4> QED  BY <2>1, <3>1 DEF Summing
    <3> QED  BY <2>1, <3>2
  <2>2. CASE s # {}
    BY <1>4, <1>5, <2>2
  <2> QED  BY <2>1, <2>2
<1>6. ASSUME NEW s \in SUBSET T, s # {}
      PROVE  g0[s] = f[Pick(s)] + g0[Below(s)]
  BY <1>2, <1>5, <1>6
<1>7. Summing(g0, f, T)
  <2>1. g0[{}] = 0
    OBVIOUS
  <2>2. g0 = [s \in SUBSET T |-> g0[s]]
    OBVIOUS
  <2> HIDE DEF g0, G
  <2> QED  BY <1>6, <2>1, <2>2 DEF Summing
<1> QED  BY <1>1, <1>7

\* A sum is the picked term plus the sum of the rest.
LEMMA SumSolves ==
  ASSUME NEW S, IsFiniteSet(S), NEW f, NEW T \in SUBSET S, T # {}
  PROVE  Sum(f, T) = f[Pick(T)] + Sum(f, T \ {Pick(T)})
<1> DEFINE U == T \ {Pick(T)}
           g == CHOOSE h : Summing(h, f, T)
           k == CHOOSE h : Summing(h, f, U)
<1>1. IsFiniteSet(T) /\ IsFiniteSet(U) /\ U \in SUBSET S
  BY FS_Subset, PickIn
<1>2. Summing(g, f, T) /\ Summing(k, f, U)
  BY <1>1, Exists
<1>3. Sum(f, T) = g[T] /\ Sum(f, U) = k[U]
  BY SumDef
<1> HIDE DEF g, k
<1>4. g[T] = f[Pick(T)] + g[U]
  BY <1>2 DEF Summing
<1>5. g[U] = k[U]
  <2>1. U \in SUBSET (T \cap U)
    OBVIOUS
  <2> HIDE DEF U
  <2> QED  BY <1>1, <1>2, <2>1, Unique
<1> QED  BY <1>3, <1>4, <1>5

\* The empty sum.
LEMMA SumEmpty ==
  ASSUME NEW f PROVE Sum(f, {}) = 0
<1> DEFINE g == CHOOSE h : Summing(h, f, {})
<1>1. IsFiniteSet({})
  BY FS_EmptySet
<1>2. Summing(g, f, {})
  BY <1>1, Exists
<1>3. Sum(f, {}) = g[{}]
  BY SumDef
<1> HIDE DEF g
<1> QED  BY <1>2, <1>3 DEF Summing

\* A sum of integers is an integer.
LEMMA SumInt ==
  ASSUME NEW S, IsFiniteSet(S), NEW f, \A x \in S : f[x] \in Int
  PROVE  \A T \in SUBSET S : Sum(f, T) \in Int
<1> DEFINE C == {T \in SUBSET S : Sum(f, T) \notin Int}
<1> SUFFICES ASSUME C # {} PROVE FALSE
  OBVIOUS
<1>0. C \subseteq SUBSET S
  OBVIOUS
<1>1. PICK T \in C : \A U \in C : U \subseteq T => U = T
  <2> HIDE DEF C
  <2> QED  BY <1>0, Smallest
<1>2. T # {}
  BY <1>1, SumEmpty
<1>3. Pick(T) \in T
  BY <1>2, PickIn
<1>4. Sum(f, T \ {Pick(T)}) \in Int /\ f[Pick(T)] \in Int
  BY <1>1, <1>3
<1>5. Sum(f, T) = f[Pick(T)] + Sum(f, T \ {Pick(T)})
  BY <1>2, SumSolves
<1> QED  BY <1>4, <1>5

\* The order of the terms does not matter: any one may come first.
LEMMA SumAny ==
  ASSUME NEW S, IsFiniteSet(S), NEW f, \A x \in S : f[x] \in Int
  PROVE  \A T \in SUBSET S : \A x \in T : Sum(f, T) = f[x] + Sum(f, T \ {x})
<1> DEFINE C == {T \in SUBSET S : \E x \in T : Sum(f, T) # f[x] + Sum(f, T \ {x})}
<1> SUFFICES ASSUME C # {} PROVE FALSE
  OBVIOUS
<1>0. C \subseteq SUBSET S
  OBVIOUS
<1>1. PICK T \in C : \A U \in C : U \subseteq T => U = T
  <2> HIDE DEF C
  <2> QED  BY <1>0, Smallest
<1>2. PICK x \in T : Sum(f, T) # f[x] + Sum(f, T \ {x})
  OBVIOUS
<1> DEFINE p == Pick(T)
<1>3. p \in T /\ Sum(f, T) = f[p] + Sum(f, T \ {p})
  BY <1>2, PickIn, SumSolves
<1>4. x # p
  BY <1>2, <1>3
<1>5. Sum(f, T \ {p}) = f[x] + Sum(f, (T \ {p}) \ {x})
  <2>1. T \ {p} \in SUBSET S /\ T \ {p} \notin C /\ x \in T \ {p}
    BY <1>1, <1>3, <1>4
  <2> QED  BY <2>1
<1>6. Sum(f, T \ {x}) = f[p] + Sum(f, (T \ {x}) \ {p})
  <2>1. T \ {x} \in SUBSET S /\ T \ {x} \notin C /\ p \in T \ {x}
    BY <1>1, <1>3, <1>4
  <2> QED  BY <2>1
<1>7. (T \ {p}) \ {x} = (T \ {x}) \ {p}
  OBVIOUS
<1>8. f[x] \in Int /\ f[p] \in Int /\ Sum(f, (T \ {x}) \ {p}) \in Int
  BY <1>2, <1>3, SumInt
<1>9. \A a, b, c \in Int : a + (b + c) = b + (a + c)
  OBVIOUS
<1> DEFINE rest == Sum(f, (T \ {x}) \ {p})
<1>10. Sum(f, T) = f[p] + (f[x] + rest) /\ Sum(f, T \ {x}) = f[p] + rest
  BY <1>3, <1>5, <1>6, <1>7
<1> HIDE DEF p, rest
<1>11. rest \in Int /\ f[x] \in Int /\ f[p] \in Int
  BY <1>8 DEF rest
<1> QED  BY ONLY <1>2, <1>9, <1>10, <1>11

\* Adding an element adds its term.
LEMMA SumAdd ==
  ASSUME NEW S, IsFiniteSet(S), NEW f, NEW x, x \notin S, \A y \in S \cup {x} : f[y] \in Int
  PROVE  Sum(f, S \cup {x}) = Sum(f, S) + f[x]
<1>1. IsFiniteSet(S \cup {x})
  BY FS_AddElement
<1>2. (S \cup {x}) \ {x} = S
  OBVIOUS
<1>3. Sum(f, S \cup {x}) = f[x] + Sum(f, (S \cup {x}) \ {x})
  BY <1>1, SumAny
<1>4. Sum(f, S) \in Int /\ f[x] \in Int
  BY SumInt
<1>5. Sum(f, S \cup {x}) = f[x] + Sum(f, S)
  BY <1>2, <1>3
<1> QED  BY <1>4, <1>5

\* Removing an element subtracts its term.
LEMMA SumRemove ==
  ASSUME NEW S, IsFiniteSet(S), NEW f, NEW x \in S, \A y \in S : f[y] \in Int
  PROVE  Sum(f, S \ {x}) = Sum(f, S) - f[x]
<1>1. Sum(f, S) = f[x] + Sum(f, S \ {x})
  BY SumAny
<1>2. Sum(f, S \ {x}) \in Int /\ f[x] \in Int
  BY SumInt
<1> QED  BY <1>1, <1>2

\* A sum depends on the terms of its set only.
LEMMA SumSame ==
  ASSUME NEW S, IsFiniteSet(S), NEW f, NEW g, \A x \in S : f[x] = g[x]
  PROVE  Sum(f, S) = Sum(g, S)
<1> DEFINE C == {T \in SUBSET S : Sum(f, T) # Sum(g, T)}
<1> SUFFICES ASSUME C # {} PROVE FALSE
  OBVIOUS
<1>0. C \subseteq SUBSET S
  OBVIOUS
<1>1. PICK T \in C : \A U \in C : U \subseteq T => U = T
  <2> HIDE DEF C
  <2> QED  BY <1>0, Smallest
<1>2. T # {}
  BY <1>1, SumEmpty
<1>3. Pick(T) \in T
  BY <1>2, PickIn
<1>4. Sum(f, T \ {Pick(T)}) = Sum(g, T \ {Pick(T)}) /\ f[Pick(T)] = g[Pick(T)]
  BY <1>1, <1>3
<1> QED  BY <1>1, <1>2, <1>4, SumSolves

\* A sum of naturals is a natural, and grows with its set.
LEMMA SumNat ==
  ASSUME NEW S, IsFiniteSet(S), NEW f, \A x \in S : f[x] \in Nat
  PROVE  /\ Sum(f, S) \in Nat
         /\ \A T \in SUBSET S : Sum(f, T) \in Nat /\ Sum(f, T) <= Sum(f, S)
<1>n. \A T \in SUBSET S : Sum(f, T) \in Nat
  <2> DEFINE C == {T \in SUBSET S : Sum(f, T) \notin Nat}
  <2> SUFFICES ASSUME C # {} PROVE FALSE
    OBVIOUS
  <2>0. C \subseteq SUBSET S
    OBVIOUS
  <2>1. PICK T \in C : \A U \in C : U \subseteq T => U = T
    <3> HIDE DEF C
    <3> QED  BY <2>0, Smallest
  <2>e. Sum(f, {}) \in Nat
    BY SumEmpty
  <2>2. T # {}
    BY <2>1, <2>e
  <2>3. Pick(T) \in T
    BY <2>2, PickIn
  <2>4. Sum(f, T \ {Pick(T)}) \in Nat /\ f[Pick(T)] \in Nat
    BY <2>1, <2>3
  <2>5. Sum(f, T) = f[Pick(T)] + Sum(f, T \ {Pick(T)})
    BY <2>2, SumSolves
  <2> QED  BY <2>4, <2>5
<1>m. \A T \in SUBSET S : Sum(f, S \ T) <= Sum(f, S)
  <2> DEFINE C == {T \in SUBSET S : ~(Sum(f, S \ T) <= Sum(f, S))}
  <2> SUFFICES ASSUME C # {} PROVE FALSE
    OBVIOUS
  <2>0. C \subseteq SUBSET S
    OBVIOUS
  <2>1. PICK T \in C : \A U \in C : U \subseteq T => U = T
    <3> HIDE DEF C
    <3> QED  BY <2>0, Smallest
  <2>a. S \in SUBSET S /\ S \ {} = S
    OBVIOUS
  <2>b. Sum(f, S) \in Nat
    BY <1>n, <2>a
  <2>c. {} \notin C
    BY <2>a, <2>b
  <2>2. T # {}
    BY <2>1, <2>c
  <2>3. PICK x \in T : TRUE
    BY <2>2
  <2>d. T \ {x} \in SUBSET S /\ T \ {x} \notin C
    <3> HIDE DEF C
    <3> QED  BY <2>0, <2>1, <2>3
  <2>4. Sum(f, S \ (T \ {x})) <= Sum(f, S)
    BY <2>d
  <2>5. S \ T = (S \ (T \ {x})) \ {x} /\ x \in S \ (T \ {x}) /\ S \ (T \ {x}) \in SUBSET S
    OBVIOUS
  <2>6. Sum(f, S \ (T \ {x})) = f[x] + Sum(f, S \ T)
    BY <2>5, SumAny
  <2>7. Sum(f, S \ T) \in Nat /\ f[x] \in Nat /\ Sum(f, S) \in Nat
    BY <1>n, <2>a
  <2> QED  BY <2>4, <2>6, <2>7
<1>1. ASSUME NEW T \in SUBSET S PROVE Sum(f, T) <= Sum(f, S)
  <2>1. S \ T \in SUBSET S /\ S \ (S \ T) = T
    OBVIOUS
  <2> QED  BY <1>m, <2>1
<1>2. S \in SUBSET S
  OBVIOUS
<1> QED  BY <1>n, <1>1, <1>2

\* Changing one term changes the sum by as much.
LEMMA SumChange ==
  ASSUME NEW S, IsFiniteSet(S), NEW f, NEW g, NEW x \in S,
         \A y \in S : f[y] \in Int /\ g[y] \in Int, \A y \in S : y # x => g[y] = f[y]
  PROVE  Sum(g, S) = Sum(f, S) - f[x] + g[x]
<1>1. IsFiniteSet(S \ {x})
  BY FS_RemoveElement
<1>2. Sum(f, S \ {x}) = Sum(g, S \ {x})
  BY <1>1, SumSame
<1>3. Sum(f, S) = f[x] + Sum(f, S \ {x}) /\ Sum(g, S) = g[x] + Sum(g, S \ {x})
  <2>1. S \in SUBSET S
    OBVIOUS
  <2> QED
    BY <2>1, SumAny
<1>4. Sum(f, S \ {x}) \in Int
  <2>1. S \ {x} \in SUBSET S
    OBVIOUS
  <2> QED
    BY <2>1, SumInt
<1>5. f[x] \in Int /\ g[x] \in Int
  OBVIOUS
<1> QED
  BY <1>2, <1>3, <1>4, <1>5

\* Terms that are zero may be left out.
LEMMA SumZeros ==
  ASSUME NEW S, IsFiniteSet(S), NEW f, \A x \in S : f[x] \in Int, NEW T \in SUBSET S,
         \A x \in S \ T : f[x] = 0
  PROVE  Sum(f, S) = Sum(f, T)
<1> DEFINE C == {U \in SUBSET S : T \subseteq U /\ Sum(f, U) # Sum(f, T)}
<1> SUFFICES ASSUME C # {} PROVE FALSE
  OBVIOUS
<1>0. C \subseteq SUBSET S
  OBVIOUS
<1>1. PICK U \in C : \A V \in C : V \subseteq U => V = U
  <2> HIDE DEF C
  <2> QED  BY <1>0, Smallest
<1>a. T \subseteq U /\ U # T
  BY <1>1
<1>2. PICK x \in U : x \notin T
  <2>1. ~(U \subseteq T)
    BY <1>a
  <2> QED  BY ONLY <2>1
<1>3. U \ {x} \in SUBSET S /\ T \subseteq U \ {x} /\ U \ {x} \notin C
  <2>1. U \ {x} \in SUBSET S /\ T \subseteq U \ {x} /\ U \ {x} # U
    BY <1>2
  <2>2. U \ {x} \notin C
    <3> HIDE DEF C
    <3> QED  BY <1>1, <2>1
  <2> QED  BY <2>1, <2>2
<1>4. Sum(f, U \ {x}) = Sum(f, T)
  BY <1>3
<1>5. Sum(f, U) = f[x] + Sum(f, U \ {x})
  BY <1>2, SumAny
<1>6. f[x] = 0 /\ Sum(f, T) \in Int
  BY <1>2, SumInt
<1> QED
  BY <1>4, <1>5, <1>6

=============================================================================
