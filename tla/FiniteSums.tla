----------------------------- MODULE FiniteSums -----------------------------
(***************************************************************************)
(* Sums over finite sets, for the proofs about money: SumFunctionOnSet of  *)
(* the module Functions adds the elements in an arbitrary order, one       *)
(* CHOOSE at a time; here is shown that the order does not matter and what *)
(* a change of one summand does to the sum.                                *)
(*                                                                         *)
(* The induction over finite sets needs no induction theorem with an       *)
(* operator as its parameter: a set of counterexamples that is not empty   *)
(* has a minimal element, since strict inclusion is well-founded on the    *)
(* subsets of a finite set.                                                *)
(***************************************************************************)
EXTENDS Integers, FiniteSets, Functions, FiniteSetTheorems, TLAPS

\* The element the fold takes first, and the table of the partial sums.
First(s) == CHOOSE x \in s : TRUE
Rest(s) == s \ {First(s)}
Table(F, D, g) ==
    g = [s \in SUBSET D |-> IF s = {} THEN 0 ELSE F[First(s)] + g[Rest(s)]]

\* Strict inclusion is well-founded on the subsets of a finite set.
LEMMA MinimalSubset ==
    ASSUME NEW S, IsFiniteSet(S), NEW T, T \subseteq SUBSET S, T # {}
    PROVE  \E A \in T : \A B \in T : ~ (<<B, A>> \in StrictSubsetOrdering(S))
  <1>1. IsWellFoundedOn(StrictSubsetOrdering(S), SUBSET S)
    BY FS_StrictSubsetOrderingWellFounded, FS_FiniteSubsetsOfFinite
  <1>2. QED
    BY <1>1, WFMin

\* Induction over the subsets of a finite set, about a set instead of a predicate.
LEMMA SubsetInduction ==
    ASSUME NEW S, IsFiniteSet(S), NEW T,
           \A A \in SUBSET S : (\A B \in SUBSET A : B # A => B \in T) => A \in T
    PROVE  SUBSET S \subseteq T
  <1> DEFINE Bad == (SUBSET S) \ T
  <1> SUFFICES ASSUME Bad # {} PROVE FALSE
    OBVIOUS
  <1>1. PICK A \in Bad : \A B \in Bad : ~ (<<B, A>> \in StrictSubsetOrdering(S))
    <2>1. Bad \subseteq SUBSET S
      OBVIOUS
    <2> HIDE DEF Bad
    <2>2. QED
      BY <2>1, MinimalSubset
  <1>2. \A B \in SUBSET A : B # A => B \in T
    BY <1>1 DEF StrictSubsetOrdering
  <1>3. QED
    BY <1>1, <1>2

\* A set that is not empty has a first element.
LEMMA FirstIn ==
    ASSUME NEW s, s # {}
    PROVE  First(s) \in s /\ Rest(s) \subseteq s /\ Rest(s) # s
  BY DEF First, Rest

\* Two tables of the same summands agree where both are defined.
LEMMA TablesAgree ==
    ASSUME NEW F, NEW A, NEW B, NEW g, NEW h, Table(F, A, g), Table(F, B, h),
           NEW C, IsFiniteSet(C), C \subseteq A, C \subseteq B
    PROVE  g[C] = h[C]
  <1> DEFINE T == {s \in SUBSET C : g[s] = h[s]}
  <1>1. ASSUME NEW s \in SUBSET C, \A t \in SUBSET s : t # s => t \in T
        PROVE  s \in T
    <2>1. CASE s = {}
      BY <2>1 DEF Table
    <2>2. CASE s # {}
      <3>1. Rest(s) \in T
        BY <1>1, <2>2, FirstIn
      <3>2. g[s] = F[First(s)] + g[Rest(s)] /\ h[s] = F[First(s)] + h[Rest(s)]
        BY <2>2 DEF Table
      <3>3. QED
        BY <3>1, <3>2
    <2>3. QED
      BY <2>1, <2>2
  <1> HIDE DEF T
  <1>2. SUBSET C \subseteq T
    BY <1>1, SubsetInduction
  <1>3. QED
    BY <1>2 DEF T

\* The recursion of the fold has a solution.
LEMMA TableExists ==
    ASSUME NEW F, NEW D, IsFiniteSet(D)
    PROVE  \A A \in SUBSET D : \E g : Table(F, A, g)
  <1> DEFINE T == {A \in SUBSET D : \E g : Table(F, A, g)}
  <1>1. ASSUME NEW A \in SUBSET D, \A B \in SUBSET A : B # A => B \in T
        PROVE  A \in T
    <2> DEFINE Of(s) == CHOOSE g : Table(F, s, g)
               h == [s \in SUBSET A |->
                        IF s = {} THEN 0 ELSE F[First(s)] + Of(Rest(s))[Rest(s)]]
    <2>1. ASSUME NEW s \in SUBSET A, s # A PROVE Table(F, s, Of(s))
      <3>1. \E g : Table(F, s, g)
        BY <1>1, <2>1
      <3>2. QED
        BY <3>1
    <2>2. ASSUME NEW s \in SUBSET A, s # A PROVE h[s] = Of(s)[s]
      <3>1. CASE s = {}
        <4>1. Table(F, s, Of(s)) /\ h[s] = 0
          BY <2>1, <2>2, <3>1
        <4> HIDE DEF Of, h
        <4>2. QED
          BY <3>1, <4>1 DEF Table
      <3>2. CASE s # {}
        <4>1. Rest(s) \in SUBSET A /\ Rest(s) # A /\ Rest(s) \in SUBSET s
          BY <3>2, FirstIn, <2>2
        <4>2. Table(F, s, Of(s)) /\ Table(F, Rest(s), Of(Rest(s)))
          BY <2>1, <2>2, <4>1
        <4>3. Of(s)[Rest(s)] = Of(Rest(s))[Rest(s)]
          <5>1. IsFiniteSet(Rest(s)) /\ Rest(s) \subseteq s
            BY <4>1, FS_Subset
          <5> HIDE DEF Of
          <5>2. QED
            BY <4>2, <5>1, TablesAgree
        <4>4. Of(s)[s] = F[First(s)] + Of(s)[Rest(s)]
          <5> HIDE DEF Of
          <5>1. QED
            BY <4>2, <3>2 DEF Table
        <4>5. h[s] = F[First(s)] + Of(Rest(s))[Rest(s)]
          BY <3>2
        <4>6. QED
          BY <4>3, <4>4, <4>5
      <3>3. QED
        BY <3>1, <3>2
    <2>3. ASSUME NEW s \in SUBSET A, s # {} PROVE Of(Rest(s))[Rest(s)] = h[Rest(s)]
      <3>1. Rest(s) \in SUBSET A /\ Rest(s) # A
        BY <2>3, FirstIn
      <3>2. QED
        BY <3>1, <2>2
    <2>4. h = [s \in SUBSET A |-> IF s = {} THEN 0 ELSE F[First(s)] + h[Rest(s)]]
      <3>1. ASSUME NEW s \in SUBSET A
            PROVE  h[s] = IF s = {} THEN 0 ELSE F[First(s)] + h[Rest(s)]
        <4>1. h[s] = IF s = {} THEN 0 ELSE F[First(s)] + Of(Rest(s))[Rest(s)]
          OBVIOUS
        <4> HIDE DEF h, Of
        <4>2. QED
          BY <2>3, <4>1
      <3>2. h = [s \in SUBSET A |-> h[s]]
        OBVIOUS
      <3> HIDE DEF h
      <3>3. QED
        BY <3>1, <3>2
    <2>5. Table(F, A, h)
      <3> HIDE DEF h
      <3>1. QED
        BY <2>4 DEF Table
    <2>6. QED
      BY <2>5
  <1> HIDE DEF T
  <1>2. SUBSET D \subseteq T
    BY <1>1, SubsetInduction
  <1>3. QED
    BY <1>2 DEF T

\* The equation of the fold.
LEMMA SumUnfolds ==
    ASSUME NEW F, NEW D, IsFiniteSet(D)
    PROVE  SumFunctionOnSet(F, D) = IF D = {} THEN 0
                                    ELSE F[First(D)] + SumFunctionOnSet(F, Rest(D))
  <1> DEFINE Of(A) == CHOOSE g : Table(F, A, g)
  <1>1. \A A \in SUBSET D : Table(F, A, Of(A))
    BY TableExists
  <1>2. \A A : SumFunctionOnSet(F, A) = Of(A)[A]
    BY DEF SumFunctionOnSet, FoldFunctionOnSet, MapThenFoldSet, Table, First, Rest
  <1>3. Table(F, D, Of(D))
    BY <1>1
  <1>4. CASE D = {}
    <2> HIDE DEF Of
    <2>1. QED
      BY <1>2, <1>3, <1>4 DEF Table
  <1>5. CASE D # {}
    <2>1. Rest(D) \in SUBSET D
      BY <1>5, FirstIn
    <2>2. Table(F, Rest(D), Of(Rest(D)))
      BY <1>1, <2>1
    <2>3. IsFiniteSet(Rest(D))
      BY <2>1, FS_Subset
    <2> HIDE DEF Of
    <2>4. Of(D)[Rest(D)] = Of(Rest(D))[Rest(D)]
      BY <1>3, <2>1, <2>2, <2>3, TablesAgree
    <2>5. Of(D)[D] = F[First(D)] + Of(D)[Rest(D)]
      BY <1>3, <1>5 DEF Table
    <2>6. QED
      BY <1>2, <1>5, <2>4, <2>5
  <1>6. QED
    BY <1>4, <1>5

-----------------------------------------------------------------------------
(* What is known of a sum.  Summands are integers; S is finite. *)

\* Nothing adds up to 0.
LEMMA SumEmpty ==
    ASSUME NEW F
    PROVE  SumFunctionOnSet(F, {}) = 0
  BY SumUnfolds, FS_EmptySet

\* A sum of integers is an integer.
LEMMA SumInt ==
    ASSUME NEW S, IsFiniteSet(S), NEW F, \A x \in S : F[x] \in Int
    PROVE  SumFunctionOnSet(F, S) \in Int
  <1> DEFINE T == {s \in SUBSET S : SumFunctionOnSet(F, s) \in Int}
  <1>1. ASSUME NEW A \in SUBSET S, \A B \in SUBSET A : B # A => B \in T
        PROVE  A \in T
    <2>1. IsFiniteSet(A)
      BY FS_Subset
    <2>2. CASE A = {}
      BY <2>2, SumEmpty
    <2>3. CASE A # {}
      <3>1. Rest(A) \in T /\ F[First(A)] \in Int
        BY <1>1, <2>3, FirstIn
      <3>2. SumFunctionOnSet(F, A) = F[First(A)] + SumFunctionOnSet(F, Rest(A))
        BY <2>1, <2>3, SumUnfolds
      <3>3. QED
        BY <3>1, <3>2
    <2>4. QED
      BY <2>2, <2>3
  <1> HIDE DEF T
  <1>2. SUBSET S \subseteq T
    BY <1>1, SubsetInduction
  <1>3. QED
    BY <1>2 DEF T

\* The order does not matter: any summand can be taken out first.
LEMMA SumRemove ==
    ASSUME NEW S, IsFiniteSet(S), NEW F, \A x \in S : F[x] \in Int, NEW e \in S
    PROVE  SumFunctionOnSet(F, S) = F[e] + SumFunctionOnSet(F, S \ {e})
  <1> DEFINE T == {s \in SUBSET S :
                     \A x \in s : SumFunctionOnSet(F, s) = F[x] + SumFunctionOnSet(F, s \ {x})}
  <1>1. \A s \in SUBSET S : IsFiniteSet(s) /\ SumFunctionOnSet(F, s) \in Int
    <2>1. ASSUME NEW s \in SUBSET S PROVE IsFiniteSet(s)
      BY FS_Subset
    <2>2. QED
      BY <2>1, SumInt
  <1>2. ASSUME NEW A \in SUBSET S, \A B \in SUBSET A : B # A => B \in T, NEW x \in A
        PROVE  SumFunctionOnSet(F, A) = F[x] + SumFunctionOnSet(F, A \ {x})
    <2> DEFINE y == First(A)
               R == (A \ {x}) \ {y}
    <2>1. y \in A /\ Rest(A) = A \ {y}
      BY FirstIn DEF Rest
    <2>2. SumFunctionOnSet(F, A) = F[y] + SumFunctionOnSet(F, A \ {y})
      BY <1>1, <2>1, SumUnfolds
    <2>3. CASE x = y
      BY <2>2, <2>3
    <2>4. CASE x # y
      <3>1. A \ {x} \in T /\ A \ {y} \in T
        <4>1. A \ {x} \in SUBSET A /\ A \ {x} # A /\ A \ {y} \in SUBSET A /\ A \ {y} # A
          BY <2>1
        <4>2. QED
          BY <1>2, <4>1
      <3>2. SumFunctionOnSet(F, A \ {x}) = F[y] + SumFunctionOnSet(F, R)
        BY <2>1, <2>4, <3>1
      <3>3. SumFunctionOnSet(F, A \ {y}) = F[x] + SumFunctionOnSet(F, R)
        <4>1. x \in A \ {y} /\ (A \ {y}) \ {x} = R
          BY <2>4
        <4>2. QED
          BY <3>1, <4>1
      <3>4. F[x] \in Int /\ F[y] \in Int /\ SumFunctionOnSet(F, R) \in Int
        BY <1>1, <2>1
      <3>5. QED
        BY <2>2, <3>2, <3>3, <3>4
    <2>5. QED
      BY <2>3, <2>4
  <1>3. \A A \in SUBSET S : (\A B \in SUBSET A : B # A => B \in T) => A \in T
    BY <1>2
  <1> HIDE DEF T
  <1>4. SUBSET S \subseteq T
    BY <1>3, SubsetInduction
  <1>5. QED
    BY <1>4 DEF T

\* Equal summands, equal sums.
LEMMA SumSame ==
    ASSUME NEW S, IsFiniteSet(S), NEW F, NEW G, \A x \in S : F[x] = G[x]
    PROVE  SumFunctionOnSet(F, S) = SumFunctionOnSet(G, S)
  <1> DEFINE T == {s \in SUBSET S : SumFunctionOnSet(F, s) = SumFunctionOnSet(G, s)}
  <1>1. ASSUME NEW A \in SUBSET S, \A B \in SUBSET A : B # A => B \in T
        PROVE  A \in T
    <2>1. IsFiniteSet(A)
      BY FS_Subset
    <2>2. CASE A = {}
      BY <2>2, SumEmpty
    <2>3. CASE A # {}
      <3>1. Rest(A) \in T /\ F[First(A)] = G[First(A)]
        BY <1>1, <2>3, FirstIn
      <3>2. /\ SumFunctionOnSet(F, A) = F[First(A)] + SumFunctionOnSet(F, Rest(A))
            /\ SumFunctionOnSet(G, A) = G[First(A)] + SumFunctionOnSet(G, Rest(A))
        BY <2>1, <2>3, SumUnfolds
      <3>3. QED
        BY <3>1, <3>2
    <2>4. QED
      BY <2>2, <2>3
  <1> HIDE DEF T
  <1>2. SUBSET S \subseteq T
    BY <1>1, SubsetInduction
  <1>3. QED
    BY <1>2 DEF T

\* A change of one summand changes the sum by as much.
LEMMA SumChange ==
    ASSUME NEW S, IsFiniteSet(S), NEW F, NEW G, NEW e \in S,
           \A x \in S : F[x] \in Int, G[e] \in Int,
           \A x \in S \ {e} : G[x] = F[x]
    PROVE  SumFunctionOnSet(G, S) = SumFunctionOnSet(F, S) - F[e] + G[e]
  <1>1. \A x \in S : G[x] \in Int
    OBVIOUS
  <1>2. IsFiniteSet(S \ {e})
    BY FS_Subset
  <1>3. /\ SumFunctionOnSet(F, S) = F[e] + SumFunctionOnSet(F, S \ {e})
        /\ SumFunctionOnSet(G, S) = G[e] + SumFunctionOnSet(G, S \ {e})
    BY <1>1, SumRemove
  <1>4. SumFunctionOnSet(G, S \ {e}) = SumFunctionOnSet(F, S \ {e})
    BY <1>2, SumSame
  <1>5. SumFunctionOnSet(F, S \ {e}) \in Int
    BY <1>2, SumInt
  <1>6. QED
    BY <1>3, <1>4, <1>5

\* Natural summands: the sum is natural.
LEMMA SumNat ==
    ASSUME NEW S, IsFiniteSet(S), NEW F, \A x \in S : F[x] \in Nat
    PROVE  SumFunctionOnSet(F, S) \in Nat
  <1> DEFINE T == {s \in SUBSET S : SumFunctionOnSet(F, s) \in Nat}
  <1>1. ASSUME NEW A \in SUBSET S, \A B \in SUBSET A : B # A => B \in T
        PROVE  A \in T
    <2>1. IsFiniteSet(A)
      BY FS_Subset
    <2>2. CASE A = {}
      BY <2>2, SumEmpty
    <2>3. CASE A # {}
      <3>1. Rest(A) \in T /\ F[First(A)] \in Nat
        BY <1>1, <2>3, FirstIn
      <3>2. SumFunctionOnSet(F, A) = F[First(A)] + SumFunctionOnSet(F, Rest(A))
        BY <2>1, <2>3, SumUnfolds
      <3>3. QED
        BY <3>1, <3>2
    <2>4. QED
      BY <2>2, <2>3
  <1> HIDE DEF T
  <1>2. SUBSET S \subseteq T
    BY <1>1, SubsetInduction
  <1>3. QED
    BY <1>2 DEF T

\* No natural summand exceeds the sum.
LEMMA SumBounds ==
    ASSUME NEW S, IsFiniteSet(S), NEW F, \A x \in S : F[x] \in Nat, NEW e \in S
    PROVE  F[e] <= SumFunctionOnSet(F, S)
  <1>1. SumFunctionOnSet(F, S) = F[e] + SumFunctionOnSet(F, S \ {e})
    BY SumRemove
  <1>2. SumFunctionOnSet(F, S \ {e}) \in Nat
    BY FS_Subset, SumNat
  <1>3. QED
    BY <1>1, <1>2

\* Zeros add up to 0.
LEMMA SumZero ==
    ASSUME NEW S, IsFiniteSet(S), NEW F, \A x \in S : F[x] = 0
    PROVE  SumFunctionOnSet(F, S) = 0
  <1> DEFINE T == {s \in SUBSET S : SumFunctionOnSet(F, s) = 0}
  <1>1. ASSUME NEW A \in SUBSET S, \A B \in SUBSET A : B # A => B \in T
        PROVE  A \in T
    <2>1. IsFiniteSet(A)
      BY FS_Subset
    <2>2. CASE A = {}
      BY <2>2, SumEmpty
    <2>3. CASE A # {}
      <3>1. Rest(A) \in T /\ F[First(A)] = 0
        BY <1>1, <2>3, FirstIn
      <3>2. SumFunctionOnSet(F, A) = F[First(A)] + SumFunctionOnSet(F, Rest(A))
        BY <2>1, <2>3, SumUnfolds
      <3>3. QED
        BY <3>1, <3>2
    <2>4. QED
      BY <2>2, <2>3
  <1> HIDE DEF T
  <1>2. SUBSET S \subseteq T
    BY <1>1, SubsetInduction
  <1>3. QED
    BY <1>2 DEF T

\* The same for one key of a table, which may lie outside the set.
LEMMA SumShift ==
    ASSUME NEW S, IsFiniteSet(S), NEW F, NEW G, NEW e, NEW d \in Int,
           \A x \in S : F[x] \in Int,
           \A x \in S : G[x] = F[x] + (IF x = e THEN d ELSE 0)
    PROVE  SumFunctionOnSet(G, S) = SumFunctionOnSet(F, S) + (IF e \in S THEN d ELSE 0)
  <1>1. SumFunctionOnSet(F, S) \in Int
    BY SumInt
  <1>2. CASE e \in S
    <2>1. SumFunctionOnSet(G, S) = SumFunctionOnSet(F, S) - F[e] + G[e]
      <3>1. G[e] \in Int /\ \A x \in S \ {e} : G[x] = F[x]
        BY <1>2
      <3>2. QED
        BY <1>2, <3>1, SumChange
    <2>2. F[e] \in Int /\ G[e] = F[e] + d
      BY <1>2
    <2>3. QED
      BY <1>1, <1>2, <2>1, <2>2
  <1>3. CASE e \notin S
    <2>1. \A x \in S : F[x] = G[x]
      BY <1>3
    <2>2. SumFunctionOnSet(F, S) = SumFunctionOnSet(G, S)
      BY <2>1, SumSame
    <2>3. QED
      BY <1>1, <1>3, <2>2
  <1>4. QED
    BY <1>2, <1>3
=============================================================================
