------------------------------- MODULE SumProofs -------------------------------
(***************************************************************************)
(* What the sum of a finite function's values does when an element is      *)
(* taken out, when the domain is split in two and when values change.      *)
(* The library states such facts about folds with operator parameters;     *)
(* here they are stated of functions, by least counterexamples.            *)
(***************************************************************************)
EXTENDS Sums, FiniteSetTheorems, WellFoundedInduction, TLAPS

-----------------------------------------------------------------------------
(* The recursion behind the fold *)

Elem(s) == CHOOSE x \in s : TRUE

\* g sums f over the subsets of S, one chosen element after the other
Sums(f, S, g) == g = [s \in SUBSET S |-> IF s = {} THEN 0 ELSE f[Elem(s)] + g[s \ {Elem(s)}]]

\* Among subsets of a finite set there is one without smaller ones
LEMMA SmallestSet ==
  ASSUME NEW D, IsFiniteSet(D), NEW T \in SUBSET SUBSET D, T # {}
  PROVE  \E s \in T : \A x \in s : s \ {x} \notin T
<1>1. T \subseteq FiniteSubsetsOf(D)
  BY FS_Subset DEF FiniteSubsetsOf
<1>2. PICK s \in T : \A t \in T : <<t, s>> \notin StrictSubsetOrdering(D)
  BY <1>1, FS_StrictSubsetOrderingWellFounded, WFMin
<1>3. ASSUME NEW x \in s, s \ {x} \in T PROVE FALSE
  <2>1. <<s \ {x}, s>> \in StrictSubsetOrdering(D)
    BY <1>3 DEF StrictSubsetOrdering
  <2> QED BY <1>2, <1>3, <2>1
<1> QED BY <1>3

\* What the recursion starts from has no members less
LEMMA ElemIn == \A s : s # {} => Elem(s) \in s
BY DEF Elem

\* The recursion has a solution, as it has one up to every size
LEMMA Solved ==
  ASSUME NEW D, IsFiniteSet(D), NEW f \in [D -> Int]
  PROVE  \E g \in [SUBSET D -> Int] : Sums(f, D, g)
<1> DEFINE UpTo(E) == {s \in SUBSET D : Cardinality(s) <= Cardinality(E)}
           SumsUpTo(E, g) ==
             \A s \in UpTo(E) : g[s] = IF s = {} THEN 0 ELSE f[Elem(s)] + g[s \ {Elem(s)}]
           Bad == {E \in SUBSET D : ~ \E g \in [UpTo(E) -> Int] : SumsUpTo(E, g)}
<1>1. \A s \in SUBSET D : /\ Cardinality(s) \in Nat
                          /\ Cardinality(s) = 0 <=> s = {}
                          /\ Cardinality(s) <= Cardinality(D)
                          /\ \A x \in s : Cardinality(s \ {x}) = Cardinality(s) - 1
  BY FS_Subset, FS_CardinalityType, FS_EmptySet, FS_RemoveElement
<1>2. ASSUME NEW E \in Bad, \A x \in E : E \ {x} \notin Bad PROVE FALSE
  <2>1. E # {}
    <3> SUFFICES ASSUME E = {} PROVE FALSE
      OBVIOUS
    <3>1. UpTo(E) = {{}}
      BY <1>1
    <3> DEFINE zero == [s \in UpTo(E) |-> 0]
    <3>2. zero \in [UpTo(E) -> Int] /\ SumsUpTo(E, zero)
      BY <3>1
    <3> QED BY <3>2
  <2>2. PICK x \in E : TRUE
    BY <2>1
  <2>3. Cardinality(E \ {x}) = Cardinality(E) - 1
    BY <1>1
  <2>4. PICK g \in [UpTo(E \ {x}) -> Int] : SumsUpTo(E \ {x}, g)
    BY <1>2
  <2> DEFINE h == [s \in UpTo(E) |-> IF s = {} THEN 0 ELSE f[Elem(s)] + g[s \ {Elem(s)}]]
  <2>5. \A s \in UpTo(E) : s # {} => Elem(s) \in D /\ s \ {Elem(s)} \in UpTo(E \ {x})
    BY <1>1, <2>3, ElemIn
  <2>6. UpTo(E \ {x}) \subseteq UpTo(E)
    BY <1>1, <2>3
  <2>8. \A s \in UpTo(E) : h[s] = IF s = {} THEN 0 ELSE f[Elem(s)] + g[s \ {Elem(s)}]
    OBVIOUS
  <2> HIDE DEF UpTo
  <2>9. ASSUME NEW s \in UpTo(E) PROVE h[s] \in Int
    <3>1. s # {} => f[Elem(s)] \in Int /\ g[s \ {Elem(s)}] \in Int
      BY <2>5
    <3> QED BY <2>8, <3>1
  <2>10. h \in [UpTo(E) -> Int]
    BY <2>9
  <2> HIDE DEF h
  <2>11. \A s \in UpTo(E \ {x}) : h[s] = g[s]
    BY <2>4, <2>6, <2>8
  <2>12. SumsUpTo(E, h)
    BY <2>5, <2>8, <2>11
  <2> QED BY <2>10, <2>12
<1>3. Bad = {}
  <2> HIDE DEF Bad
  <2>1. Bad \in SUBSET SUBSET D
    BY DEF Bad
  <2> QED BY <1>2, <2>1, SmallestSet
<1>4. PICK g \in [UpTo(D) -> Int] : SumsUpTo(D, g)
  BY <1>3
<1>5. UpTo(D) = SUBSET D
  BY <1>1
<1>6. g = [s \in SUBSET D |-> g[s]]
  BY <1>5
<1> QED BY <1>4, <1>5, <1>6 DEF Sums

\* Solutions over a set and over a subset of it agree where the values do
LEMMA SolutionsAgree ==
  ASSUME NEW D, IsFiniteSet(D), NEW E \in SUBSET D, NEW f, NEW e, \A t \in E : e[t] = f[t],
         NEW g, Sums(f, D, g), NEW h, Sums(e, E, h)
  PROVE  \A s \in SUBSET E : g[s] = h[s]
<1> DEFINE Bad == {s \in SUBSET E : g[s] # h[s]}
<1> SUFFICES ASSUME Bad # {} PROVE FALSE
  OBVIOUS
<1>1. PICK s \in Bad : \A x \in s : s \ {x} \notin Bad
  BY SmallestSet
<1>2. s # {}
  BY <1>1 DEF Sums
<1>3. Elem(s) \in E /\ g[s \ {Elem(s)}] = h[s \ {Elem(s)}]
  BY <1>1, <1>2, ElemIn
<1>4. g[s] = f[Elem(s)] + g[s \ {Elem(s)}] /\ h[s] = e[Elem(s)] + h[s \ {Elem(s)}]
  BY <1>1, <1>2 DEF Sums
<1> QED BY <1>1, <1>3, <1>4

\* The fold is the solution's value for the whole domain
LEMMA SumSolved ==
  ASSUME NEW D, IsFiniteSet(D), NEW f \in [D -> Int]
  PROVE  \E g \in [SUBSET D -> Int] : Sums(f, D, g) /\ SumOf(f) = g[D]
<1>1. SumOf(f) = (CHOOSE g : Sums(f, D, g))[D]
  <2>1. SumOf(f) = (CHOOSE g : Sums(f, DOMAIN f, g))[DOMAIN f]
    BY DEF SumOf, MapThenSumSet, MapThenFoldSet, Sums, Elem
  <2>2. DOMAIN f = D
    OBVIOUS
  <2> QED BY <2>1, <2>2
<1>2. PICK g \in [SUBSET D -> Int] : Sums(f, D, g)
  BY Solved
<1> DEFINE c == CHOOSE k : Sums(f, D, k)
<1>3. Sums(f, D, c)
  BY <1>2
<1> HIDE DEF c
<1>4. \A s \in SUBSET D : g[s] = c[s]
  BY <1>2, <1>3, SolutionsAgree
<1> QED BY <1>1, <1>2, <1>4 DEF c
-----------------------------------------------------------------------------
(* Sums over the parts of a domain *)

\* g holds the sums of f over the subsets of its domain
PartSums(f, D, g) ==
  /\ \A S \in SUBSET D : SumOf([t \in S |-> f[t]]) = g[S]
  /\ g[{}] = 0
  /\ \A S \in SUBSET D : \A x \in S : g[S] = f[x] + g[S \ {x}]

\* There are such sums
LEMMA SumParts ==
  ASSUME NEW D, IsFiniteSet(D), NEW f \in [D -> Int]
  PROVE  \E g \in [SUBSET D -> Int] : PartSums(f, D, g)
<1>1. PICK g \in [SUBSET D -> Int] : Sums(f, D, g)
  BY Solved
<1>2. ASSUME NEW S \in SUBSET D PROVE SumOf([t \in S |-> f[t]]) = g[S]
  <2> DEFINE e == [t \in S |-> f[t]]
  <2>1. e \in [S -> Int] /\ \A t \in S : e[t] = f[t]
    OBVIOUS
  <2> HIDE DEF e
  <2>2. IsFiniteSet(S)
    BY FS_Subset
  <2>3. PICK h \in [SUBSET S -> Int] : Sums(e, S, h) /\ SumOf(e) = h[S]
    BY <2>1, <2>2, SumSolved
  <2>4. g[S] = h[S]
    BY <1>1, <2>1, <2>3, SolutionsAgree
  <2> QED BY <2>3, <2>4 DEF e
<1>3. g[{}] = 0
  BY <1>1 DEF Sums
<1>4. \A S \in SUBSET D : \A x \in S : g[S] = f[x] + g[S \ {x}]
  <2> DEFINE Bad == {S \in SUBSET D : \E x \in S : g[S] # f[x] + g[S \ {x}]}
  <2>1. ASSUME NEW S \in Bad, \A x \in S : S \ {x} \notin Bad PROVE FALSE
    <3>1. PICK x \in S : g[S] # f[x] + g[S \ {x}]
      OBVIOUS
    <3> DEFINE y == Elem(S)
    <3>2. y \in S /\ g[S] = f[y] + g[S \ {y}]
      BY <1>1, ElemIn DEF Sums
    <3> HIDE DEF y
    <3>3. x # y
      BY <3>1, <3>2
    <3>4. g[S \ {y}] = f[x] + g[(S \ {y}) \ {x}]
      BY <2>1, <3>2, <3>3
    <3>5. g[S \ {x}] = f[y] + g[(S \ {x}) \ {y}]
      BY <2>1, <3>2, <3>3
    <3>6. (S \ {y}) \ {x} = (S \ {x}) \ {y}
      OBVIOUS
    <3> DEFINE c == g[(S \ {x}) \ {y}]
    <3>7. f[x] \in Int /\ f[y] \in Int /\ c \in Int
      BY <3>2
    <3>8. g[S] = f[y] + (f[x] + c) /\ g[S \ {x}] = f[y] + c
      BY <3>2, <3>4, <3>5, <3>6
    <3> HIDE DEF c, Bad
    <3>9. g[S] = f[x] + g[S \ {x}]
      BY <3>7, <3>8
    <3> QED BY <3>1, <3>9
  <2>2. Bad = {}
    <3> HIDE DEF Bad
    <3>1. Bad \in SUBSET SUBSET D
      BY DEF Bad
    <3> QED BY <2>1, <3>1, SmallestSet
  <2> QED BY <2>2
<1> QED BY <1>2, <1>3, <1>4 DEF PartSums

\* A sum of integers is one
LEMMA SumInt == ASSUME NEW D, IsFiniteSet(D), NEW f \in [D -> Int] PROVE SumOf(f) \in Int
<1>1. PICK g \in [SUBSET D -> Int] : SumOf(f) = g[D]
  BY SumSolved
<1> QED BY <1>1

\* The sum of no values
LEMMA SumEmpty == ASSUME NEW f, DOMAIN f = {}, NEW D, f \in [D -> Int] PROVE SumOf(f) = 0
<1>1. D = {} /\ IsFiniteSet({})
  BY FS_EmptySet
<1>2. PICK g \in [SUBSET D -> Int] : Sums(f, D, g) /\ SumOf(f) = g[D]
  BY <1>1, SumSolved
<1> QED BY <1>1, <1>2 DEF Sums

\* Taking one element out
LEMMA SumRemove ==
  ASSUME NEW D, IsFiniteSet(D), NEW f \in [D -> Int], NEW x \in D
  PROVE  SumOf(f) = f[x] + SumOf([t \in D \ {x} |-> f[t]])
<1>1. PICK g \in [SUBSET D -> Int] : PartSums(f, D, g)
  BY SumParts
<1>2. [t \in D |-> f[t]] = f
  OBVIOUS
<1> QED BY <1>1, <1>2 DEF PartSums

\* A sum over a domain is the sums over a part of it and over the rest
LEMMA SumSplit ==
  ASSUME NEW D, IsFiniteSet(D), NEW f \in [D -> Int], NEW P \in SUBSET D
  PROVE  SumOf(f) = SumOf([t \in P |-> f[t]]) + SumOf([t \in D \ P |-> f[t]])
<1>1. PICK g \in [SUBSET D -> Int] : PartSums(f, D, g)
  BY SumParts
<1> DEFINE Bad == {S \in SUBSET D : g[S] # g[S \cap P] + g[S \ P]}
<1>2. ASSUME NEW S \in Bad, \A x \in S : S \ {x} \notin Bad PROVE FALSE
  <2>1. S # {}
    <3> SUFFICES ASSUME S = {} PROVE FALSE
      OBVIOUS
    <3>1. S \cap P = {} /\ S \ P = {}
      OBVIOUS
    <3> QED BY <1>1, <3>1 DEF PartSums
  <2>2. PICK x \in S : TRUE
    BY <2>1
  <2> DEFINE T == S \ {x}
             m == g[T \cap P]
             n == g[T \ P]
  <2>3. T \in SUBSET D /\ g[T] = m + n /\ g[S] = f[x] + g[T]
    BY <1>1, <1>2 DEF PartSums
  <2>4. f[x] \in Int /\ m \in Int /\ n \in Int
    OBVIOUS
  <2>5. CASE x \in P
    <3>1. S \cap P \in SUBSET D /\ x \in S \cap P /\ T \cap P = (S \cap P) \ {x} /\ T \ P = S \ P
      BY <2>5
    <3>2. g[S \cap P] = f[x] + g[T \cap P]
      BY <1>1, <3>1 DEF PartSums
    <3>3. g[S] = f[x] + (m + n) /\ g[S \cap P] = f[x] + m /\ g[S \ P] = n
      BY <2>3, <3>1, <3>2
    <3> HIDE DEF m, n
    <3>4. g[S] = g[S \cap P] + g[S \ P]
      BY <2>4, <3>3
    <3> QED BY <3>4
  <2>6. CASE x \notin P
    <3>1. S \ P \in SUBSET D /\ x \in S \ P /\ T \ P = (S \ P) \ {x} /\ T \cap P = S \cap P
      BY <2>6
    <3>2. g[S \ P] = f[x] + g[T \ P]
      BY <1>1, <3>1 DEF PartSums
    <3>3. g[S] = f[x] + (m + n) /\ g[S \cap P] = m /\ g[S \ P] = f[x] + n
      BY <2>3, <3>1, <3>2
    <3> HIDE DEF m, n
    <3>4. g[S] = g[S \cap P] + g[S \ P]
      BY <2>4, <3>3
    <3> QED BY <3>4
  <2> QED BY <2>5, <2>6
<1>3. Bad = {}
  <2> HIDE DEF Bad
  <2>1. Bad \in SUBSET SUBSET D
    BY DEF Bad
  <2> QED BY <1>2, <2>1, SmallestSet
<1>4. D \cap P = P /\ [t \in D |-> f[t]] = f /\ g[D] = g[D \cap P] + g[D \ P]
  BY <1>3
<1> QED BY <1>1, <1>4 DEF PartSums

\* Larger values have a larger sum
LEMMA SumMonotone ==
  ASSUME NEW D, IsFiniteSet(D), NEW f \in [D -> Int], NEW h \in [D -> Int], \A t \in D : f[t] <= h[t]
  PROVE  SumOf(f) <= SumOf(h)
<1>1. PICK g \in [SUBSET D -> Int] : PartSums(f, D, g)
  BY SumParts
<1>2. PICK k \in [SUBSET D -> Int] : PartSums(h, D, k)
  BY SumParts
<1> DEFINE Bad == {S \in SUBSET D : ~(g[S] <= k[S])}
<1>3. ASSUME NEW S \in Bad, \A x \in S : S \ {x} \notin Bad PROVE FALSE
  <2>1. PICK x \in S : TRUE
    <3> SUFFICES ASSUME S = {} PROVE FALSE
      OBVIOUS
    <3> QED BY <1>1, <1>2 DEF PartSums
  <2>2. g[S \ {x}] <= k[S \ {x}] /\ g[S] = f[x] + g[S \ {x}] /\ k[S] = h[x] + k[S \ {x}]
    BY <1>1, <1>2, <1>3 DEF PartSums
  <2>3. f[x] <= h[x] /\ f[x] \in Int /\ h[x] \in Int /\ g[S \ {x}] \in Int /\ k[S \ {x}] \in Int
        /\ ~(g[S] <= k[S])
    OBVIOUS
  <2> QED BY <2>2, <2>3
<1>4. Bad = {}
  <2> HIDE DEF Bad
  <2>1. Bad \in SUBSET SUBSET D
    BY DEF Bad
  <2> QED BY <1>3, <2>1, SmallestSet
<1>5. [t \in D |-> f[t]] = f /\ [t \in D |-> h[t]] = h /\ g[D] <= k[D]
  BY <1>4
<1> QED BY <1>1, <1>2, <1>5 DEF PartSums

\* Values that are not negative have a sum that is not
LEMMA SumNat == ASSUME NEW D, IsFiniteSet(D), NEW f \in [D -> Nat] PROVE SumOf(f) \in Nat
<1>1. f \in [D -> Int]
  OBVIOUS
<1>2. PICK g \in [SUBSET D -> Int] : PartSums(f, D, g)
  BY <1>1, SumParts
<1> DEFINE Bad == {S \in SUBSET D : g[S] \notin Nat}
<1>3. ASSUME NEW S \in Bad, \A x \in S : S \ {x} \notin Bad PROVE FALSE
  <2>1. PICK x \in S : TRUE
    <3> SUFFICES ASSUME S = {} PROVE FALSE
      OBVIOUS
    <3> QED BY <1>2 DEF PartSums
  <2>2. g[S \ {x}] \in Nat /\ f[x] \in Nat /\ g[S] = f[x] + g[S \ {x}]
    BY <1>2, <1>3 DEF PartSums
  <2>3. g[S] \notin Nat
    OBVIOUS
  <2> QED BY <2>2, <2>3
<1>4. Bad = {}
  <2> HIDE DEF Bad
  <2>1. Bad \in SUBSET SUBSET D
    BY DEF Bad
  <2> QED BY <1>3, <2>1, SmallestSet
<1>5. [t \in D |-> f[t]] = f /\ g[D] \in Nat
  BY <1>4
<1> QED BY <1>2, <1>5 DEF PartSums

\* Part of a sum of such values is at most the whole
LEMMA SumPart ==
  ASSUME NEW D, IsFiniteSet(D), NEW f \in [D -> Nat], NEW P \in SUBSET D
  PROVE  SumOf([t \in P |-> f[t]]) <= SumOf(f)
<1>1. f \in [D -> Int]
  OBVIOUS
<1>2. SumOf(f) = SumOf([t \in P |-> f[t]]) + SumOf([t \in D \ P |-> f[t]])
  BY <1>1, SumSplit
<1>3. IsFiniteSet(P) /\ IsFiniteSet(D \ P)
  BY FS_Subset
<1>4. [t \in P |-> f[t]] \in [P -> Nat] /\ [t \in D \ P |-> f[t]] \in [D \ P -> Nat]
  OBVIOUS
<1>5. SumOf([t \in P |-> f[t]]) \in Nat /\ SumOf([t \in D \ P |-> f[t]]) \in Nat
  BY <1>3, <1>4, SumNat
<1> QED BY <1>2, <1>5

================================================================================
