---- MODULE SumTheorems ----
\* Facts about SumFunctionOnSet, the sum of a function's values over a finite
\* set, that the proofs about quantities and money rest on: the refunds of a
\* sale, the receipts of a purchase order, the payments of a provider's intents.
\* The sum is the fold of the community module Functions, a function on sets
\* that is chosen to satisfy its own recursion.  The lemmas show that such a
\* function exists, and then that the sum does not depend on the element picked.
EXTENDS Integers, Functions, FiniteSetTheorems, WellFoundedInduction, TLAPS

Pick(s) == CHOOSE x \in s : TRUE

\* g satisfies the recursion of the sum of f at the set s.
SumsAt(f, g, s) ==
  g[s] = IF s = {} THEN 0 ELSE f[Pick(s)] + g[s \ {Pick(s)}]

NatValued(f, S) == \A x \in S : f[x] \in Nat

----
\* A set of subsets of a finite set that misses one misses a smallest one.
LEMMA SmallestSubset ==
  ASSUME NEW S, IsFiniteSet(S), NEW B, B \subseteq SUBSET S, B # {}
  PROVE  \E M \in B : \A T \in SUBSET M : T # M => T \notin B
<1>1. IsWellFoundedOn(StrictSubsetOrdering(S), FiniteSubsetsOf(S))
  BY FS_StrictSubsetOrderingWellFounded
<1>2. B \subseteq FiniteSubsetsOf(S)
  BY FS_Subset DEF FiniteSubsetsOf
<1>3. PICK M \in B : \A y \in B : ~ (<<y, M>> \in StrictSubsetOrdering(S))
  BY <1>1, <1>2, WFMin
<1>4. ASSUME NEW T \in SUBSET M, T # M, T \in B PROVE FALSE
  <2>1. <<T, M>> \in (SUBSET S) \X (SUBSET S)
    BY <1>4
  <2>2. <<T, M>> \in StrictSubsetOrdering(S)
    BY <2>1, <1>4 DEF StrictSubsetOrdering
  <2> QED BY <2>2, <1>3, <1>4
<1> QED BY <1>4

\* Induction over the natural numbers, for a set of them.
LEMMA NatSetInduction ==
  ASSUME NEW G, 0 \in G, \A n \in Nat : n \in G => n + 1 \in G
  PROVE  Nat \subseteq G
<1> DEFINE B == {n \in Nat : n \notin G}
<1> SUFFICES ASSUME B # {} PROVE FALSE
  OBVIOUS
<1>1. PICK M \in B : \A y \in B : ~ (<<y, M>> \in OpToRel(<, Nat))
  BY NatLessThanWellFounded, WFMin
<1>2. \A y \in B : ~ (y < M)
  BY <1>1 DEF OpToRel
<1> QED BY <1>2

\* Induction over the subsets of a finite set, one element at a time.
LEMMA SubsetInduction ==
  ASSUME NEW S, IsFiniteSet(S), NEW G, {} \in G,
         \A T \in SUBSET S : \A x \in S \ T : T \in G => T \cup {x} \in G
  PROVE  SUBSET S \subseteq G
<1> DEFINE B == {T \in SUBSET S : T \notin G}
<1> SUFFICES ASSUME B # {} PROVE FALSE
  OBVIOUS
<1>0. B \subseteq SUBSET S
  OBVIOUS
<1>1. PICK M \in B : \A T \in SUBSET M : T # M => T \notin B
  <2> HIDE DEF B
  <2> QED BY <1>0, SmallestSubset
<1>2. PICK x \in M : TRUE
  BY <1>1
<1>3. M \ {x} \in G
  BY <1>1
<1>4. (M \ {x}) \cup {x} \in G
  BY <1>1, <1>3
<1>5. (M \ {x}) \cup {x} = M
  OBVIOUS
<1> QED BY <1>4, <1>5

----
LEMMA PickIn == ASSUME NEW s, s # {} PROVE Pick(s) \in s
BY DEF Pick

\* The recursion has a solution on the subsets of at most n elements.
LEMMA SumsUpTo ==
  ASSUME NEW S, IsFiniteSet(S), NEW f, NatValued(f, S), NEW n \in Nat
  PROVE  \E g \in [{s \in SUBSET S : Cardinality(s) \leq n} -> Nat] :
           \A s \in SUBSET S : Cardinality(s) \leq n => SumsAt(f, g, s)
<1> DEFINE D(m) == {s \in SUBSET S : Cardinality(s) \leq m}
           Has(m) == \E g \in [D(m) -> Nat] : \A s \in D(m) : SumsAt(f, g, s)
           G == {m \in Nat : Has(m)}
<1>1. 0 \in G
  <2>1. \A s \in D(0) : s = {}
    BY FS_Subset, FS_CardinalityType, FS_EmptySet
  <2> DEFINE z == [s \in D(0) |-> 0]
  <2>2. \A s \in D(0) : SumsAt(f, z, s)
    BY <2>1 DEF SumsAt
  <2>3. z \in [D(0) -> Nat]
    OBVIOUS
  <2> QED BY <2>2, <2>3
<1>2. ASSUME NEW m \in Nat, m \in G PROVE m + 1 \in G
  <2>1. PICK g \in [D(m) -> Nat] : \A s \in D(m) : SumsAt(f, g, s)
    BY <1>2
  <2> DEFINE h == [s \in D(m + 1) |->
                     IF s = {} THEN 0 ELSE f[Pick(s)] + g[s \ {Pick(s)}]]
  <2>2. ASSUME NEW s \in D(m + 1), s # {}
        PROVE  /\ Pick(s) \in s
               /\ s \ {Pick(s)} \in D(m)
               /\ s \ {Pick(s)} \in D(m + 1)
    <3>1. IsFiniteSet(s) /\ Cardinality(s) \in Nat /\ Cardinality(s) \leq m + 1
      BY FS_Subset, FS_CardinalityType
    <3>2. Pick(s) \in s
      BY <2>2, PickIn
    <3>3. Cardinality(s \ {Pick(s)}) = Cardinality(s) - 1
      BY <3>1, <3>2, FS_RemoveElement
    <3> QED BY <3>1, <3>2, <3>3
  <2>3. h \in [D(m + 1) -> Nat]
    <3> SUFFICES ASSUME NEW s \in D(m + 1), s # {}
                 PROVE  f[Pick(s)] + g[s \ {Pick(s)}] \in Nat
      OBVIOUS
    <3>1. f[Pick(s)] \in Nat
      BY <2>2 DEF NatValued
    <3>2. g[s \ {Pick(s)}] \in Nat
      BY <2>2, <2>1
    <3> QED BY <3>1, <3>2
  <2>4. ASSUME NEW s \in D(m) PROVE s \in D(m + 1) /\ h[s] = g[s]
    <3>1. s \in D(m + 1)
      BY FS_Subset, FS_CardinalityType
    <3>2. SumsAt(f, g, s)
      BY <2>1
    <3> QED BY <3>1, <3>2 DEF SumsAt
  <2>5. ASSUME NEW s \in D(m + 1) PROVE SumsAt(f, h, s)
    <3>1. CASE s = {}
      BY <3>1 DEF SumsAt
    <3>2. CASE s # {}
      BY <3>2, <2>2, <2>4 DEF SumsAt
    <3> QED BY <3>1, <3>2
  <2> HIDE DEF h
  <2>6. Has(m + 1)
    BY <2>3, <2>5
  <2> QED BY <2>6
<1> HIDE DEF G
<1>3. Nat \subseteq G
  BY <1>1, <1>2, NatSetInduction
<1>4. Has(n)
  BY <1>3 DEF G
<1> QED BY <1>4

\* The recursion has a solution on all subsets of a finite set.
LEMMA SumsExist ==
  ASSUME NEW S, IsFiniteSet(S), NEW f, NatValued(f, S)
  PROVE  \E g \in [SUBSET S -> Nat] : \A s \in SUBSET S : SumsAt(f, g, s)
<1>1. Cardinality(S) \in Nat
  BY FS_CardinalityType
<1>2. \A s \in SUBSET S : Cardinality(s) \leq Cardinality(S)
  BY FS_Subset
<1>3. {s \in SUBSET S : Cardinality(s) \leq Cardinality(S)} = SUBSET S
  BY <1>2
<1> QED BY <1>1, <1>2, <1>3, SumsUpTo

\* Two solutions agree on every set both are solutions on.
LEMMA SumsAgree ==
  ASSUME NEW S, IsFiniteSet(S), NEW f, NEW g, NEW h,
         \A s \in SUBSET S : SumsAt(f, g, s) /\ SumsAt(f, h, s)
  PROVE  g[S] = h[S]
<1> DEFINE B == {s \in SUBSET S : g[s] # h[s]}
<1> SUFFICES ASSUME B # {} PROVE FALSE
  OBVIOUS
<1>0. B \subseteq SUBSET S
  OBVIOUS
<1>1. PICK M \in B : \A T \in SUBSET M : T # M => T \notin B
  <2> HIDE DEF B
  <2> QED BY <1>0, SmallestSubset
<1>2. M # {}
  BY <1>1 DEF SumsAt
<1>3. Pick(M) \in M
  BY <1>2, PickIn
<1>4. g[M \ {Pick(M)}] = h[M \ {Pick(M)}]
  BY <1>1, <1>3
<1> QED BY <1>1, <1>2, <1>4 DEF SumsAt

\* The function the fold chooses for a finite set solves the recursion.
LEMMA SumSolves ==
  ASSUME NEW S, IsFiniteSet(S), NEW f, NatValued(f, S)
  PROVE  \E g \in [SUBSET S -> Nat] : /\ \A s \in SUBSET S : SumsAt(f, g, s)
                                      /\ SumFunctionOnSet(f, S) = g[S]
<1> DEFINE P(g) == g = [s \in SUBSET S |->
                          IF s = {} THEN 0
                          ELSE f[CHOOSE x \in s : TRUE]
                               + g[s \ {CHOOSE x \in s : TRUE}]]
           c == CHOOSE g : P(g)
<1>1. SumFunctionOnSet(f, S) = c[S]
  BY DEF SumFunctionOnSet, FoldFunctionOnSet, MapThenFoldSet
<1>2. PICK g \in [SUBSET S -> Nat] : \A s \in SUBSET S : SumsAt(f, g, s)
  BY SumsExist
<1>3. P(g)
  BY <1>2 DEF SumsAt, Pick
<1>4. P(c)
  BY <1>3
<1>5. \A s \in SUBSET S : SumsAt(f, c, s)
  BY <1>4 DEF SumsAt, Pick
<1>6. c[S] = g[S]
  BY <1>2, <1>5, SumsAgree
<1> QED BY <1>1, <1>2, <1>6

----
LEMMA SumEmpty == ASSUME NEW f PROVE SumFunctionOnSet(f, {}) = 0
<1>1. IsFiniteSet({}) /\ NatValued(f, {})
  BY FS_EmptySet DEF NatValued
<1>2. PICK g : SumsAt(f, g, {}) /\ SumFunctionOnSet(f, {}) = g[{}]
  BY <1>1, SumSolves
<1> QED BY <1>2 DEF SumsAt

LEMMA SumNat ==
  ASSUME NEW S, IsFiniteSet(S), NEW f, NatValued(f, S)
  PROVE  SumFunctionOnSet(f, S) \in Nat
<1>1. PICK g \in [SUBSET S -> Nat] : SumFunctionOnSet(f, S) = g[S]
  BY SumSolves
<1> QED BY <1>1

\* The sum over a set is the picked element's value and the sum over the rest.
LEMMA SumOfPicked ==
  ASSUME NEW S, IsFiniteSet(S), S # {}, NEW f, NatValued(f, S)
  PROVE  SumFunctionOnSet(f, S)
           = f[Pick(S)] + SumFunctionOnSet(f, S \ {Pick(S)})
<1> DEFINE R == S \ {Pick(S)}
<1>1. IsFiniteSet(R) /\ NatValued(f, R) /\ R \subseteq S
  BY FS_Subset DEF NatValued
<1>2. PICK g : /\ \A s \in SUBSET S : SumsAt(f, g, s)
               /\ SumFunctionOnSet(f, S) = g[S]
  BY SumSolves
<1>3. PICK h : /\ \A s \in SUBSET R : SumsAt(f, h, s)
               /\ SumFunctionOnSet(f, R) = h[R]
  BY <1>1, SumSolves
<1>4. \A s \in SUBSET R : SumsAt(f, g, s)
  BY <1>1, <1>2
<1>5. g[R] = h[R]
  <2> HIDE DEF R
  <2> QED BY <1>1, <1>3, <1>4, SumsAgree
<1>6. SumsAt(f, g, S)
  BY <1>2
<1> QED BY <1>2, <1>3, <1>5, <1>6 DEF SumsAt

\* ... and so it is of any element: the sum does not depend on the order.
LEMMA SumRemove ==
  ASSUME NEW S, IsFiniteSet(S), NEW f, NatValued(f, S), NEW x \in S
  PROVE  SumFunctionOnSet(f, S) = f[x] + SumFunctionOnSet(f, S \ {x})
<1> DEFINE Splits(T) == \A y \in T : SumFunctionOnSet(f, T)
                                      = f[y] + SumFunctionOnSet(f, T \ {y})
           B == {T \in SUBSET S : ~ Splits(T)}
<1>1. SUFFICES ASSUME B # {} PROVE FALSE
  OBVIOUS
<1>2. PICK M \in B : \A T \in SUBSET M : T # M => T \notin B
  <2>1. B \subseteq SUBSET S
    OBVIOUS
  <2> HIDE DEF B
  <2> QED BY <1>1, <2>1, SmallestSubset
<1>3. PICK y \in M : SumFunctionOnSet(f, M)
                        # f[y] + SumFunctionOnSet(f, M \ {y})
  BY <1>2
<1>4. \A T \in SUBSET S : IsFiniteSet(T) /\ NatValued(f, T)
  BY FS_Subset DEF NatValued
<1> DEFINE p == Pick(M)
           rest == SumFunctionOnSet(f, (M \ {p}) \ {y})
<1>5. p \in M
  BY <1>3, PickIn
<1>6. SumFunctionOnSet(f, M) = f[p] + SumFunctionOnSet(f, M \ {p})
  BY <1>3, <1>4, SumOfPicked
<1>7. p # y
  BY <1>3, <1>6
<1>8. M \ {p} \notin B /\ M \ {y} \notin B
  BY <1>2, <1>3, <1>5
<1>9. SumFunctionOnSet(f, M \ {p}) = f[y] + rest
  BY <1>3, <1>7, <1>8
<1>10. SumFunctionOnSet(f, M \ {y}) = f[p] + SumFunctionOnSet(f, (M \ {y}) \ {p})
  BY <1>5, <1>7, <1>8
<1>11. (M \ {y}) \ {p} = (M \ {p}) \ {y}
  OBVIOUS
<1>12. f[p] \in Nat /\ f[y] \in Nat /\ rest \in Nat
  <2>1. p \in S /\ y \in S /\ (M \ {p}) \ {y} \in SUBSET S
    BY <1>5
  <2> QED BY <2>1, <1>4, SumNat DEF NatValued
<1>13. SumFunctionOnSet(f, M \ {y}) = f[p] + rest
  BY <1>10, <1>11
<1> HIDE DEF p, rest
<1> QED BY <1>3, <1>6, <1>9, <1>12, <1>13

LEMMA SumAdd ==
  ASSUME NEW S, IsFiniteSet(S), NEW f, NEW x, x \notin S, NatValued(f, S \cup {x})
  PROVE  SumFunctionOnSet(f, S \cup {x}) = SumFunctionOnSet(f, S) + f[x]
<1>1. IsFiniteSet(S \cup {x})
  BY FS_AddElement
<1>2. (S \cup {x}) \ {x} = S
  OBVIOUS
<1>3. SumFunctionOnSet(f, S \cup {x})
        = f[x] + SumFunctionOnSet(f, (S \cup {x}) \ {x})
  BY <1>1, SumRemove
<1>4. f[x] \in Nat /\ NatValued(f, S)
  BY DEF NatValued
<1>5. SumFunctionOnSet(f, S) \in Nat
  BY <1>4, SumNat
<1>6. SumFunctionOnSet(f, S \cup {x}) = f[x] + SumFunctionOnSet(f, S)
  BY <1>2, <1>3
<1> QED BY <1>4, <1>5, <1>6

\* The sum depends only on the values on the set.
LEMMA SumSame ==
  ASSUME NEW S, IsFiniteSet(S), NEW f, NEW g, NatValued(f, S),
         \A x \in S : f[x] = g[x]
  PROVE  SumFunctionOnSet(f, S) = SumFunctionOnSet(g, S)
<1> DEFINE G == {T \in SUBSET S : SumFunctionOnSet(f, T) = SumFunctionOnSet(g, T)}
<1>1. {} \in G
  BY SumEmpty
<1>2. ASSUME NEW T \in SUBSET S, NEW x \in S \ T, T \in G PROVE T \cup {x} \in G
  <2>1. IsFiniteSet(T)
    BY FS_Subset
  <2>2. NatValued(f, T \cup {x}) /\ NatValued(g, T \cup {x})
    BY DEF NatValued
  <2>3. SumFunctionOnSet(f, T \cup {x}) = SumFunctionOnSet(f, T) + f[x]
    BY <2>1, <2>2, SumAdd
  <2>4. SumFunctionOnSet(g, T \cup {x}) = SumFunctionOnSet(g, T) + g[x]
    BY <2>1, <2>2, SumAdd
  <2> QED BY <1>2, <2>3, <2>4
<1>3. SUBSET S \subseteq G
  <2> HIDE DEF G
  <2> QED BY <1>1, <1>2, SubsetInduction
<1> QED BY <1>3

\* Larger values make a larger sum ...
LEMMA SumMonotonic ==
  ASSUME NEW S, IsFiniteSet(S), NEW f, NEW g, NatValued(f, S), NatValued(g, S),
         \A x \in S : f[x] \leq g[x]
  PROVE  SumFunctionOnSet(f, S) \leq SumFunctionOnSet(g, S)
<1> DEFINE G == {T \in SUBSET S :
                   SumFunctionOnSet(f, T) \leq SumFunctionOnSet(g, T)}
<1>1. {} \in G
  BY SumEmpty
<1>2. ASSUME NEW T \in SUBSET S, NEW x \in S \ T, T \in G PROVE T \cup {x} \in G
  <2>1. IsFiniteSet(T)
    BY FS_Subset
  <2>2. /\ NatValued(f, T \cup {x}) /\ NatValued(g, T \cup {x})
        /\ NatValued(f, T) /\ NatValued(g, T)
        /\ f[x] \in Nat /\ g[x] \in Nat
    BY DEF NatValued
  <2>3. SumFunctionOnSet(f, T \cup {x}) = SumFunctionOnSet(f, T) + f[x]
    BY <2>1, <2>2, SumAdd
  <2>4. SumFunctionOnSet(g, T \cup {x}) = SumFunctionOnSet(g, T) + g[x]
    BY <2>1, <2>2, SumAdd
  <2>5. SumFunctionOnSet(f, T) \in Nat /\ SumFunctionOnSet(g, T) \in Nat
    BY <2>1, <2>2, SumNat
  <2> QED BY <1>2, <2>2, <2>3, <2>4, <2>5
<1>3. SUBSET S \subseteq G
  <2> HIDE DEF G
  <2> QED BY <1>1, <1>2, SubsetInduction
<1> QED BY <1>3

\* ... and a strictly larger one if one value is strictly larger.
LEMMA SumStrictlyMonotonic ==
  ASSUME NEW S, IsFiniteSet(S), NEW f, NEW g, NatValued(f, S), NatValued(g, S),
         \A x \in S : f[x] \leq g[x], NEW y \in S, f[y] < g[y]
  PROVE  SumFunctionOnSet(f, S) < SumFunctionOnSet(g, S)
<1> DEFINE R == S \ {y}
<1>1. IsFiniteSet(R) /\ NatValued(f, R) /\ NatValued(g, R)
  BY FS_Subset DEF NatValued
<1>2. SumFunctionOnSet(f, R) \leq SumFunctionOnSet(g, R)
  BY <1>1, SumMonotonic
<1>3. SumFunctionOnSet(f, R) \in Nat /\ SumFunctionOnSet(g, R) \in Nat
  BY <1>1, SumNat
<1>4. f[y] \in Nat /\ g[y] \in Nat
  BY DEF NatValued
<1>5. /\ SumFunctionOnSet(f, S) = f[y] + SumFunctionOnSet(f, R)
      /\ SumFunctionOnSet(g, S) = g[y] + SumFunctionOnSet(g, R)
  BY SumRemove
<1> HIDE DEF R
<1> QED BY <1>2, <1>3, <1>4, <1>5

\* A sum of natural numbers is zero only if each of them is.
LEMMA SumZero ==
  ASSUME NEW S, IsFiniteSet(S), NEW f, NatValued(f, S)
  PROVE  SumFunctionOnSet(f, S) = 0 <=> \A x \in S : f[x] = 0
<1>1. ASSUME NEW x \in S, f[x] # 0 PROVE SumFunctionOnSet(f, S) # 0
  <2>1. IsFiniteSet(S \ {x}) /\ NatValued(f, S \ {x})
    BY FS_Subset DEF NatValued
  <2>2. SumFunctionOnSet(f, S \ {x}) \in Nat
    BY <2>1, SumNat
  <2>3. SumFunctionOnSet(f, S) = f[x] + SumFunctionOnSet(f, S \ {x})
    BY SumRemove
  <2>4. f[x] \in Nat
    BY DEF NatValued
  <2> QED BY <1>1, <2>2, <2>3, <2>4
<1>2. ASSUME \A x \in S : f[x] = 0 PROVE SumFunctionOnSet(f, S) = 0
  <2> DEFINE G == {T \in SUBSET S : SumFunctionOnSet(f, T) = 0}
  <2>1. {} \in G
    BY SumEmpty
  <2>2. ASSUME NEW T \in SUBSET S, NEW x \in S \ T, T \in G PROVE T \cup {x} \in G
    <3>1. IsFiniteSet(T) /\ NatValued(f, T \cup {x})
      BY FS_Subset DEF NatValued
    <3>2. SumFunctionOnSet(f, T \cup {x}) = SumFunctionOnSet(f, T) + f[x]
      BY <3>1, SumAdd
    <3> QED BY <1>2, <2>2, <3>2
  <2>3. SUBSET S \subseteq G
    <3> HIDE DEF G
    <3> QED BY <2>1, <2>2, SubsetInduction
  <2> QED BY <2>3
<1> QED BY <1>1, <1>2

\* The sum of two functions' values is the sum of their sums.
LEMMA SumOfSums ==
  ASSUME NEW S, IsFiniteSet(S), NEW f, NEW g, NEW h,
         NatValued(f, S), NatValued(g, S), \A x \in S : h[x] = f[x] + g[x]
  PROVE  SumFunctionOnSet(h, S) = SumFunctionOnSet(f, S) + SumFunctionOnSet(g, S)
<1> DEFINE G == {T \in SUBSET S : SumFunctionOnSet(h, T)
                   = SumFunctionOnSet(f, T) + SumFunctionOnSet(g, T)}
<1>1. {} \in G
  BY SumEmpty
<1>2. ASSUME NEW T \in SUBSET S, NEW x \in S \ T, T \in G PROVE T \cup {x} \in G
  <2>1. IsFiniteSet(T)
    BY FS_Subset
  <2>2. /\ NatValued(f, T \cup {x}) /\ NatValued(g, T \cup {x})
        /\ NatValued(f, T) /\ NatValued(g, T)
        /\ f[x] \in Nat /\ g[x] \in Nat
    BY DEF NatValued
  <2>3. NatValued(h, T \cup {x})
    BY DEF NatValued
  <2>4. /\ SumFunctionOnSet(f, T \cup {x}) = SumFunctionOnSet(f, T) + f[x]
        /\ SumFunctionOnSet(g, T \cup {x}) = SumFunctionOnSet(g, T) + g[x]
    BY <2>1, <2>2, SumAdd
  <2>5. SumFunctionOnSet(h, T \cup {x}) = SumFunctionOnSet(h, T) + h[x]
    BY <2>1, <2>3, SumAdd
  <2>6. SumFunctionOnSet(f, T) \in Nat /\ SumFunctionOnSet(g, T) \in Nat
    BY <2>1, <2>2, SumNat
  <2>7. h[x] = f[x] + g[x]
    OBVIOUS
  <2>8. SumFunctionOnSet(h, T)
          = SumFunctionOnSet(f, T) + SumFunctionOnSet(g, T)
    BY <1>2
  <2>9. SumFunctionOnSet(h, T \cup {x})
          = SumFunctionOnSet(f, T \cup {x}) + SumFunctionOnSet(g, T \cup {x})
    BY <2>2, <2>4, <2>5, <2>6, <2>7, <2>8
  <2> QED BY <2>9
<1>3. SUBSET S \subseteq G
  <2> HIDE DEF G
  <2> QED BY <1>1, <1>2, SubsetInduction
<1> QED BY <1>3

\* The sum over a part of the set is at most the sum over the whole.
LEMMA SumOfPart ==
  ASSUME NEW S, IsFiniteSet(S), NEW f, NatValued(f, S), NEW P \in SUBSET S
  PROVE  SumFunctionOnSet(f, P) \leq SumFunctionOnSet(f, S)
<1> DEFINE G == {T \in SUBSET S : SumFunctionOnSet(f, P)
                                    \leq SumFunctionOnSet(f, P \cup T)}
<1>1. \A T \in SUBSET S : IsFiniteSet(T) /\ NatValued(f, T)
  BY FS_Subset DEF NatValued
<1>2. {} \in G
  <2>1. SumFunctionOnSet(f, P) \in Nat /\ P \cup {} = P
    BY <1>1, SumNat
  <2> QED BY <2>1
<1>3. ASSUME NEW T \in SUBSET S, NEW x \in S \ T, T \in G PROVE T \cup {x} \in G
  <2> DEFINE U == P \cup T
  <2>1. P \cup (T \cup {x}) = U \cup {x} /\ U \in SUBSET S
    OBVIOUS
  <2>2. SumFunctionOnSet(f, P) \leq SumFunctionOnSet(f, U)
    BY <1>3
  <2>3. SumFunctionOnSet(f, P) \in Nat /\ SumFunctionOnSet(f, U) \in Nat
    BY <1>1, <2>1, SumNat
  <2>4. CASE x \in U
    <3>1. U \cup {x} = U
      BY <2>4
    <3> QED BY <2>1, <2>2, <3>1
  <2>5. CASE x \notin U
    <3>1. IsFiniteSet(U) /\ NatValued(f, U \cup {x}) /\ f[x] \in Nat
      BY <1>1, <2>1 DEF NatValued
    <3> HIDE DEF U
    <3>2. SumFunctionOnSet(f, U \cup {x}) = SumFunctionOnSet(f, U) + f[x]
      BY <3>1, <2>5, SumAdd
    <3>3. SumFunctionOnSet(f, P) \leq SumFunctionOnSet(f, U \cup {x})
      BY <2>2, <2>3, <3>1, <3>2
    <3> QED BY <2>1, <3>3
  <2> QED BY <2>4, <2>5
<1>4. SUBSET S \subseteq G
  <2> HIDE DEF G
  <2> QED BY <1>2, <1>3, SubsetInduction
<1>5. S \in G /\ P \cup S = S
  BY <1>4
<1> QED BY <1>5

----
\* A common factor, and equal values.
LEMMA SumTimes ==
  ASSUME NEW S, IsFiniteSet(S), NEW f, NatValued(f, S), NEW c \in Nat, NEW h,
         \A x \in S : h[x] = c * f[x]
  PROVE  SumFunctionOnSet(h, S) = c * SumFunctionOnSet(f, S)
<1> DEFINE G == {T \in SUBSET S : SumFunctionOnSet(h, T) = c * SumFunctionOnSet(f, T)}
<1>1. {} \in G
  BY SumEmpty
<1>2. ASSUME NEW T \in SUBSET S, NEW x \in S \ T, T \in G PROVE T \cup {x} \in G
  <2>1. /\ IsFiniteSet(T) /\ NatValued(f, T) /\ NatValued(f, T \cup {x})
        /\ f[x] \in Nat
    BY FS_Subset DEF NatValued
  <2>2. NatValued(h, T \cup {x})
    <3> SUFFICES ASSUME NEW y \in T \cup {x} PROVE h[y] \in Nat
      BY DEF NatValued
    <3>1. h[y] = c * f[y] /\ f[y] \in Nat
      BY DEF NatValued
    <3> QED BY <3>1
  <2>3. SumFunctionOnSet(f, T \cup {x}) = SumFunctionOnSet(f, T) + f[x]
    BY <2>1, SumAdd
  <2>4. SumFunctionOnSet(h, T \cup {x}) = SumFunctionOnSet(h, T) + h[x]
    BY <2>1, <2>2, SumAdd
  <2>5. SumFunctionOnSet(f, T) \in Nat
    BY <2>1, SumNat
  <2>6. SumFunctionOnSet(h, T) = c * SumFunctionOnSet(f, T) /\ h[x] = c * f[x]
    BY <1>2
  <2>7. c * (SumFunctionOnSet(f, T) + f[x]) = c * SumFunctionOnSet(f, T) + c * f[x]
    BY <2>1, <2>5
  <2> QED BY <2>3, <2>4, <2>6, <2>7
<1>3. SUBSET S \subseteq G
  <2> HIDE DEF G
  <2> QED BY <1>1, <1>2, SubsetInduction
<1> QED BY <1>3

LEMMA SumConstant ==
  ASSUME NEW S, IsFiniteSet(S), NEW c \in Nat, NEW h, \A x \in S : h[x] = c
  PROVE  SumFunctionOnSet(h, S) = c * Cardinality(S)
<1> DEFINE G == {T \in SUBSET S : SumFunctionOnSet(h, T) = c * Cardinality(T)}
<1>1. {} \in G
  BY SumEmpty, FS_EmptySet
<1>2. ASSUME NEW T \in SUBSET S, NEW x \in S \ T, T \in G PROVE T \cup {x} \in G
  <2>1. IsFiniteSet(T) /\ NatValued(h, T \cup {x}) /\ h[x] = c
    BY FS_Subset DEF NatValued
  <2>2. SumFunctionOnSet(h, T \cup {x}) = SumFunctionOnSet(h, T) + c
    BY <2>1, SumAdd
  <2>3. Cardinality(T \cup {x}) = Cardinality(T) + 1 /\ Cardinality(T) \in Nat
    BY <2>1, FS_AddElement, FS_CardinalityType
  <2>4. SumFunctionOnSet(h, T) = c * Cardinality(T)
    BY <1>2
  <2>5. c * (Cardinality(T) + 1) = c * Cardinality(T) + c
    BY <2>3
  <2> QED BY <2>2, <2>3, <2>4, <2>5
<1>3. SUBSET S \subseteq G
  <2> HIDE DEF G
  <2> QED BY <1>1, <1>2, SubsetInduction
<1> QED BY <1>3

====
