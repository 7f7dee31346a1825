----------------------------- MODULE FoldLemmas -----------------------------
(***************************************************************************)
(* What the folds of the community modules compute, for every finite set:  *)
(* SumFunction sums each value once, whatever order it takes them in, and  *)
(* Max and Min find an extreme.  The sketch's estimate, the ranks and the  *)
(* counts of sets rest on these.                                           *)
(*                                                                         *)
(* The provers cannot instantiate the induction theorems of the library,   *)
(* so each induction here looks at a least counterexample.                 *)
(***************************************************************************)
EXTENDS Integers, FiniteSets, FiniteSetsExt, Functions, SequencesExt,
        FiniteSetTheorems, WellFoundedInduction, TLAPS

\* A set of numbers that is not empty has a least element.
LEMMA LeastNat ==
  ASSUME NEW N \in SUBSET Nat, N # {}
  PROVE  \E n \in N : \A m \in N : n <= m
<1>1. PICK n \in N : \A m \in N : ~(<<m, n>> \in OpToRel(<, Nat))
  BY WFMin, NatLessThanWellFounded, Zenon
<1>2. \A m \in N : ~(m < n)
  BY <1>1 DEF OpToRel
<1> QED BY <1>2

\* A family of finite sets that is not empty has a member of least cardinality.
LEMMA LeastSet ==
  ASSUME NEW S, IsFiniteSet(S), NEW F \in SUBSET SUBSET S, F # {}
  PROVE  \E A \in F : \A B \in F : Cardinality(A) <= Cardinality(B)
<1> DEFINE N == {Cardinality(A) : A \in F}
<1>1. N \in SUBSET Nat /\ N # {}
  BY FS_Subset, FS_CardinalityType
<1>2. PICK n \in N : \A m \in N : n <= m
  <2> HIDE DEF N
  <2> QED BY <1>1, LeastNat
<1> QED BY <1>2

-----------------------------------------------------------------------------
(***************************************************************************)
(* Sums.                                                                   *)
(***************************************************************************)

\* The element a fold over T takes first.
First(T) == CHOOSE x \in T : TRUE

\* What the table h of the sums of f over sets says of the set T.
SumStep(h, f, T) == IF T = {} THEN 0 ELSE f[First(T)] + h[T \ {First(T)}]

\* h is the table SumFunction looks its result up in.
IsSumTable(h, f, S) == h = [T \in SUBSET S |-> SumStep(h, f, T)]

LEMMA FirstIsMember ==
  ASSUME NEW T, T # {}
  PROVE  First(T) \in T
BY DEF First

\* There is a table, one cardinality after the other.
LEMMA SumTableExists ==
  ASSUME NEW S, IsFiniteSet(S), NEW f
  PROVE  \E h : IsSumTable(h, f, S)
<1> DEFINE UpTo(h, n) == \A T \in SUBSET S : Cardinality(T) <= n => h[T] = SumStep(h, f, T)
           Bad == {n \in Nat : ~ \E h : UpTo(h, n)}
<1>0. \A T \in SUBSET S : IsFiniteSet(T) /\ Cardinality(T) \in Nat
  BY FS_Subset, FS_CardinalityType
<1>1. Bad = {}
  <2> SUFFICES ASSUME Bad # {} PROVE FALSE
    OBVIOUS
  <2>1. PICK n \in Bad : \A m \in Bad : n <= m
    <3> HIDE DEF UpTo
    <3> QED BY LeastNat
  <2>2. CASE n = 0
    <3> DEFINE h == [T \in SUBSET S |-> 0]
    <3>1. ASSUME NEW T \in SUBSET S, Cardinality(T) <= 0
          PROVE  h[T] = SumStep(h, f, T)
      <4>1. T = {}
        BY <1>0, <3>1, FS_EmptySet
      <4> QED BY <4>1 DEF SumStep
    <3>2. UpTo(h, n)
      BY <2>2, <3>1
    <3> HIDE DEF UpTo, h
    <3> QED BY <3>2
  <2>3. CASE n # 0
    <3>1. n - 1 \in Nat /\ n - 1 \notin Bad
      BY <2>1, <2>3
    <3>2. PICK h : UpTo(h, n - 1)
      <4> HIDE DEF UpTo
      <4> QED BY <3>1
    <3> DEFINE g == [T \in SUBSET S |-> IF Cardinality(T) <= n - 1 THEN h[T]
                                        ELSE SumStep(h, f, T)]
    <3>3. ASSUME NEW T \in SUBSET S, Cardinality(T) <= n
          PROVE  g[T] = SumStep(g, f, T)
      <4>1. CASE T = {}
        BY <3>2, <4>1 DEF SumStep
      <4>2. CASE T # {}
        <5> DEFINE U == T \ {First(T)}
        <5>1. First(T) \in T
          BY <4>2, FirstIsMember
        <5>2. U \in SUBSET S /\ Cardinality(U) = Cardinality(T) - 1
          BY <1>0, <5>1, FS_RemoveElement
        <5> HIDE DEF U
        <5>3. Cardinality(U) <= n - 1
          BY <1>0, <3>3, <5>2
        <5>4. g[U] = h[U]
          BY <5>2, <5>3
        <5>5. SumStep(g, f, T) = SumStep(h, f, T)
          BY <5>4 DEF SumStep, U
        <5>6. g[T] = SumStep(h, f, T)
          BY <3>2
        <5> QED BY <5>5, <5>6
      <4> QED BY <4>1, <4>2
    <3>4. UpTo(g, n)
      BY <3>3
    <3> HIDE DEF UpTo, g
    <3> QED BY <3>4
  <2> QED BY <2>2, <2>3
<1>2. PICK h : UpTo(h, Cardinality(S))
  <2> HIDE DEF UpTo
  <2> QED BY <1>0, <1>1
<1> DEFINE g == [T \in SUBSET S |-> h[T]]
<1>3. ASSUME NEW T \in SUBSET S PROVE g[T] = SumStep(g, f, T)
  <2>1. Cardinality(T) <= Cardinality(S)
    BY FS_Subset
  <2>2. g[T] = SumStep(h, f, T)
    BY <1>2, <2>1
  <2>3. T # {} => T \ {First(T)} \in SUBSET S
    OBVIOUS
  <2> QED BY <2>2, <2>3 DEF SumStep
<1>4. IsSumTable(g, f, S)
  BY <1>3 DEF IsSumTable
<1> HIDE DEF g
<1> QED BY <1>4

\* SumFunction looks its result up in such a table.
LEMMA SumLooksUp ==
  ASSUME NEW f, NEW S, IsFiniteSet(S), S = DOMAIN f
  PROVE  \E h : IsSumTable(h, f, S) /\ SumFunction(f) = h[S]
<1> DEFINE h == CHOOSE h : IsSumTable(h, f, S)
<1>1. SumFunction(f) = h[S]
  BY DEF SumFunction, SumFunctionOnSet, FoldFunctionOnSet, MapThenFoldSet,
         IsSumTable, SumStep, First
<1>2. IsSumTable(h, f, S)
  BY SumTableExists
<1> HIDE DEF h
<1> QED BY <1>1, <1>2

\* Two tables of functions that agree on A say the same of A.
LEMMA SumTablesAgree ==
  ASSUME NEW S, NEW R, IsFiniteSet(S), NEW f, NEW g, NEW h, NEW k,
         IsSumTable(h, f, S), IsSumTable(k, g, R),
         NEW A, A \subseteq S, A \subseteq R, \A x \in A : f[x] = g[x]
  PROVE  h[A] = k[A]
<1> DEFINE F == {B \in SUBSET A : h[B] # k[B]}
<1>0. IsFiniteSet(A) /\ \A B \in SUBSET A : IsFiniteSet(B) /\ Cardinality(B) \in Nat
  BY FS_Subset, FS_CardinalityType
<1> SUFFICES ASSUME F # {} PROVE FALSE
  OBVIOUS
<1>1. PICK B \in F : \A C \in F : Cardinality(B) <= Cardinality(C)
  <2>1. F \in SUBSET SUBSET A
    OBVIOUS
  <2> HIDE DEF F
  <2> QED BY <1>0, <2>1, LeastSet
<1>2. h[B] = SumStep(h, f, B) /\ k[B] = SumStep(k, g, B)
  BY DEF IsSumTable
<1>3. B # {}
  BY <1>2 DEF SumStep
<1> DEFINE C == B \ {First(B)}
<1>4. First(B) \in B /\ C \in SUBSET A
  BY <1>3, FirstIsMember
<1>5. Cardinality(C) < Cardinality(B)
  BY <1>0, <1>4, FS_RemoveElement
<1>6. h[C] = k[C]
  BY <1>0, <1>1, <1>4, <1>5
<1> QED BY <1>2, <1>3, <1>4, <1>6 DEF SumStep

\* The table may take any element first.
LEMMA SumTableAnyOrder ==
  ASSUME NEW S, IsFiniteSet(S), NEW f \in [S -> Nat], NEW h, IsSumTable(h, f, S)
  PROVE  /\ \A T \in SUBSET S : h[T] \in Nat
         /\ \A T \in SUBSET S : \A x \in T : h[T] = f[x] + h[T \ {x}]
<1> DEFINE Good(T) == h[T] \in Nat /\ \A x \in T : h[T] = f[x] + h[T \ {x}]
           F == {T \in SUBSET S : ~Good(T)}
<1>0. \A T \in SUBSET S : IsFiniteSet(T) /\ Cardinality(T) \in Nat
  BY FS_Subset, FS_CardinalityType
<1> SUFFICES ASSUME F # {} PROVE FALSE
  OBVIOUS
<1>1. PICK T \in F : \A U \in F : Cardinality(T) <= Cardinality(U)
  <2>1. F \in SUBSET SUBSET S
    OBVIOUS
  <2> HIDE DEF F
  <2> QED BY <2>1, LeastSet
<1>t. T \in SUBSET S /\ IsFiniteSet(T) /\ Cardinality(T) \in Nat
  BY <1>0
<1>2. ASSUME NEW x \in T PROVE Good(T \ {x})
  <2>1. /\ T \ {x} \in SUBSET S /\ Cardinality(T \ {x}) \in Nat
        /\ Cardinality(T \ {x}) < Cardinality(T)
    BY <1>0, <1>t, FS_RemoveElement
  <2>2. T \ {x} \notin F
    <3> HIDE DEF F
    <3> QED BY <1>1, <1>t, <2>1
  <2> QED BY <2>1, <2>2
<1>3. h[T] = SumStep(h, f, T)
  BY DEF IsSumTable
<1>4. T # {}
  <2>1. T = {} => h[T] = 0
    BY <1>3 DEF SumStep
  <2> QED BY <2>1
<1> DEFINE c == First(T)
<1>5. c \in T /\ c \in S /\ h[T] = f[c] + h[T \ {c}]
  BY <1>3, <1>4, FirstIsMember DEF SumStep
<1> HIDE DEF c
<1>6. h[T] \in Nat
  BY <1>2, <1>5
<1>7. ASSUME NEW x \in T PROVE h[T] = f[x] + h[T \ {x}]
  <2>1. CASE x = c
    BY <1>5, <2>1
  <2>2. CASE x # c
    <3>1. h[T \ {c}] = f[x] + h[(T \ {c}) \ {x}]
      BY <1>2, <1>5, <2>2
    <3>2. h[T \ {x}] = f[c] + h[(T \ {x}) \ {c}]
      BY <1>2, <1>5, <2>2
    <3>3. (T \ {c}) \ {x} = (T \ {x}) \ {c}
      OBVIOUS
    <3>4. (T \ {x}) \ {c} \in SUBSET S /\ h[(T \ {x}) \ {c}] \in Nat
      <4> DEFINE U == T \ {x}
      <4>1. U \in SUBSET S /\ c \in U
        BY <1>t, <1>5, <2>2
      <4>2. Good(U)
        BY <1>2
      <4> HIDE DEF U
      <4>3. h[U] = f[c] + h[U \ {c}] /\ U \ {c} \in SUBSET S
        BY <4>1, <4>2
      <4>4. IsFiniteSet(U) /\ Cardinality(U) = Cardinality(T) - 1
        BY <1>t, FS_RemoveElement DEF U
      <4>c. Cardinality(U \ {c}) = Cardinality(U) - 1 /\ Cardinality(U \ {c}) \in Nat
        BY <1>0, <4>1, <4>3, <4>4, FS_RemoveElement
      <4>5. U \ {c} \notin F
        <5> HIDE DEF F
        <5> QED BY <1>1, <1>t, <4>4, <4>c
      <4> QED BY <4>3, <4>5 DEF U
    <3>5. f[x] \in Nat /\ f[c] \in Nat
      BY <1>5
    <3> HIDE DEF Good, F
    <3> QED BY <1>5, <3>1, <3>2, <3>3, <3>4, <3>5
  <2> QED BY <2>1, <2>2
<1> QED BY <1>6, <1>7

\* The sum of nothing.
LEMMA SumEmpty ==
  ASSUME NEW f, DOMAIN f = {}
  PROVE  SumFunction(f) = 0
<1>1. PICK h : IsSumTable(h, f, {}) /\ SumFunction(f) = h[{}]
  BY SumLooksUp, FS_EmptySet
<1> QED BY <1>1 DEF IsSumTable, SumStep

\* The sum of naturals is a natural, and splits at any element.
LEMMA SumSplits ==
  ASSUME NEW S, IsFiniteSet(S), NEW f \in [S -> Nat]
  PROVE  /\ SumFunction(f) \in Nat
         /\ \A x \in S : SumFunction(f) = f[x] + SumFunction([y \in S \ {x} |-> f[y]])
<1>1. PICK h : IsSumTable(h, f, S) /\ SumFunction(f) = h[S]
  BY SumLooksUp
<1>3. /\ \A T \in SUBSET S : h[T] \in Nat
      /\ \A T \in SUBSET S : \A x \in T : h[T] = f[x] + h[T \ {x}]
  BY <1>1, SumTableAnyOrder
<1>4. ASSUME NEW x \in S
      PROVE  SumFunction([y \in S \ {x} |-> f[y]]) = h[S \ {x}]
  <2> DEFINE R == S \ {x}
             g == [y \in R |-> f[y]]
  <2>1. IsFiniteSet(R) /\ R \subseteq S
    BY FS_RemoveElement
  <2>2. DOMAIN g = R /\ \A y \in R : f[y] = g[y]
    OBVIOUS
  <2> HIDE DEF R, g
  <2>3. PICK k : IsSumTable(k, g, R) /\ SumFunction(g) = k[R]
    BY <2>1, <2>2, SumLooksUp
  <2>5. h[R] = k[R]
    BY <1>1, <2>1, <2>2, <2>3, SumTablesAgree
  <2> QED BY <2>3, <2>5 DEF R, g
<1> QED BY <1>1, <1>3, <1>4

\* No value exceeds the sum.
LEMMA SumAtLeast ==
  ASSUME NEW S, IsFiniteSet(S), NEW f \in [S -> Nat], NEW x \in S
  PROVE  f[x] <= SumFunction(f)
<1> DEFINE R == S \ {x}
           g == [y \in R |-> f[y]]
<1>1. SumFunction(f) \in Nat /\ SumFunction(f) = f[x] + SumFunction(g)
  BY SumSplits
<1>2. IsFiniteSet(R) /\ g \in [R -> Nat]
  BY FS_RemoveElement
<1>3. SumFunction(g) \in Nat
  <2> HIDE DEF g, R
  <2> QED BY <1>2, SumSplits
<1> QED BY <1>1, <1>3

\* One value goes up by one, or a new one is one: so does the sum.
LEMMA SumBump ==
  ASSUME NEW S, IsFiniteSet(S), NEW f \in [S -> Nat], NEW x,
         NEW g \in [S \cup {x} -> Nat],
         \A y \in S \ {x} : g[y] = f[y],
         g[x] = (IF x \in S THEN f[x] ELSE 0) + 1
  PROVE  SumFunction(g) = SumFunction(f) + 1
<1> DEFINE R == S \ {x}
           r == [y \in R |-> f[y]]
<1>1. IsFiniteSet(R) /\ r \in [R -> Nat] /\ IsFiniteSet(S \cup {x})
  BY FS_RemoveElement, FS_AddElement
<1>2. SumFunction(r) \in Nat
  <2> HIDE DEF r, R
  <2> QED BY <1>1, SumSplits
<1>3. SumFunction(g) = g[x] + SumFunction(r)
  <2>1. SumFunction(g) = g[x] + SumFunction([y \in (S \cup {x}) \ {x} |-> g[y]])
    BY <1>1, SumSplits
  <2>2. (S \cup {x}) \ {x} = R
    OBVIOUS
  <2>3. [y \in R |-> g[y]] = r
    OBVIOUS
  <2> QED BY <2>1, <2>2, <2>3
<1>4. SumFunction(f) = (IF x \in S THEN f[x] ELSE 0) + SumFunction(r)
  <2>1. CASE x \in S
    BY <2>1, SumSplits
  <2>2. CASE x \notin S
    <3>1. R = S /\ r = f
      BY <2>2
    <3> QED BY <1>2, <2>2, <3>1
  <2> QED BY <2>1, <2>2
<1>5. (IF x \in S THEN f[x] ELSE 0) \in Nat
  OBVIOUS
<1> HIDE DEF r
<1> QED BY <1>2, <1>3, <1>4, <1>5

LEMMA Smaller ==
  ASSUME NEW S, IsFiniteSet(S), NEW x \in S
  PROVE  IsFiniteSet(S \ {x}) /\ Cardinality(S \ {x}) < Cardinality(S)
<1>1. IsFiniteSet(S \ {x}) /\ Cardinality(S \ {x}) = Cardinality(S) - 1
  BY FS_RemoveElement
<1>2. Cardinality(S) \in Nat
  BY FS_CardinalityType
<1> QED BY <1>1, <1>2

\* The sum of f over A.
SumOver(f, A) == SumFunction([x \in A |-> f[x]])

\* It is 0 over nothing, and splits at any element.
LEMMA SumOverSplits ==
  ASSUME NEW A, IsFiniteSet(A), NEW f, \A x \in A : f[x] \in Nat
  PROVE  /\ SumOver(f, A) \in Nat
         /\ A = {} => SumOver(f, A) = 0
         /\ \A x \in A : SumOver(f, A) = f[x] + SumOver(f, A \ {x})
<1> DEFINE g == [x \in A |-> f[x]]
<1>1. g \in [A -> Nat]
  OBVIOUS
<1>2. A = {} => SumFunction(g) = 0
  <2>1. DOMAIN g = A
    OBVIOUS
  <2> HIDE DEF g
  <2> QED BY <2>1, SumEmpty
<1>3. ASSUME NEW x \in A PROVE SumFunction(g) = f[x] + SumOver(f, A \ {x})
  <2>1. [y \in A \ {x} |-> g[y]] = [y \in A \ {x} |-> f[y]]
    OBVIOUS
  <2>2. g[x] = f[x]
    OBVIOUS
  <2> HIDE DEF g
  <2>3. SumFunction(g) = g[x] + SumFunction([y \in A \ {x} |-> g[y]])
    BY <1>1, SumSplits
  <2> QED BY <2>1, <2>2, <2>3 DEF SumOver
<1>4. SumFunction(g) \in Nat
  <2> HIDE DEF g
  <2> QED BY <1>1, SumSplits
<1> QED BY <1>2, <1>3, <1>4 DEF SumOver

\* The sums over two sets without a common element add up.
LEMMA SumDisjoint ==
  ASSUME NEW A, IsFiniteSet(A), NEW B, IsFiniteSet(B), A \cap B = {},
         NEW f, \A x \in A \cup B : f[x] \in Nat
  PROVE  SumOver(f, A \cup B) = SumOver(f, A) + SumOver(f, B)
<1> DEFINE Good(C) == SumOver(f, A \cup C) = SumOver(f, A) + SumOver(f, C)
           F == {C \in SUBSET B : ~Good(C)}
<1> SUFFICES ASSUME F # {} PROVE FALSE
  OBVIOUS
<1>1. PICK C \in F : \A D \in F : Cardinality(C) <= Cardinality(D)
  <2>1. F \in SUBSET SUBSET B
    OBVIOUS
  <2> HIDE DEF F
  <2> QED BY <2>1, LeastSet
<1>2. C \subseteq B /\ ~Good(C)
  OBVIOUS
<1>3. IsFiniteSet(C) /\ IsFiniteSet(A \cup C) /\ \A x \in A \cup C : f[x] \in Nat
  BY <1>2, FS_Subset, FS_Union
<1>4. SumOver(f, A) \in Nat
  BY SumOverSplits
<1>5. C # {}
  <2>1. SumOver(f, {}) = 0
    BY SumOverSplits, FS_EmptySet
  <2>2. A \cup {} = A
    OBVIOUS
  <2>3. Good({})
    BY <1>4, <2>1, <2>2
  <2> QED BY <1>2, <2>3
<1>6. PICK x \in C : TRUE
  BY <1>5
<1> DEFINE D == C \ {x}
<1>7. IsFiniteSet(D) /\ D \subseteq B /\ Cardinality(D) < Cardinality(C)
  BY <1>2, <1>3, <1>6, Smaller
<1>8. Good(D)
  <2>1. Cardinality(D) \in Nat /\ Cardinality(C) \in Nat
    BY <1>3, <1>7, FS_CardinalityType
  <2>2. D \notin F
    <3> HIDE DEF F
    <3> QED BY <1>1, <1>7, <2>1
  <2> QED BY <1>7, <2>2
<1>9. SumOver(f, A \cup C) = f[x] + SumOver(f, A \cup D)
  <2>1. (A \cup C) \ {x} = A \cup D /\ x \in A \cup C
    BY <1>2
  <2> QED BY <1>3, <2>1, SumOverSplits
<1>10. SumOver(f, C) = f[x] + SumOver(f, D)
  BY <1>3, SumOverSplits
<1>11. SumOver(f, D) \in Nat /\ f[x] \in Nat
  BY <1>3, <1>7, SumOverSplits
<1> HIDE DEF D, F
<1> QED BY <1>2, <1>4, <1>8, <1>9, <1>10, <1>11

\* Summing fiber by fiber sums everything, once.
Fiber(S, p, i) == {x \in S : p[x] = i}

LEMMA SumByFibers ==
  ASSUME NEW S, IsFiniteSet(S), NEW f, \A x \in S : f[x] \in Nat,
         NEW I, IsFiniteSet(I), NEW p, \A x \in S : p[x] \in I
  PROVE  SumFunction([i \in I |-> SumOver(f, Fiber(S, p, i))]) = SumOver(f, S)
<1> DEFINE Of(i) == SumOver(f, Fiber(S, p, i))
           g == [i \in I |-> Of(i)]
           Over(J) == {x \in S : p[x] \in J}
           Good(J) == SumOver(g, J) = SumOver(f, Over(J))
           F == {J \in SUBSET I : ~Good(J)}
<1>1. \A i \in I : /\ IsFiniteSet(Fiber(S, p, i)) /\ Fiber(S, p, i) \subseteq S
                   /\ Of(i) \in Nat
  <2> TAKE i \in I
  <2>1. Fiber(S, p, i) \subseteq S /\ IsFiniteSet(Fiber(S, p, i))
    BY FS_Subset DEF Fiber
  <2>2. \A x \in Fiber(S, p, i) : f[x] \in Nat
    BY <2>1
  <2> QED BY <2>1, <2>2, SumOverSplits
<1>2. \A i \in I : g[i] = Of(i)
  OBVIOUS
<1> HIDE DEF g, Of
<1>3. F = {}
  <2> SUFFICES ASSUME F # {} PROVE FALSE
    OBVIOUS
  <2>1. PICK J \in F : \A K \in F : Cardinality(J) <= Cardinality(K)
    <3>1. F \in SUBSET SUBSET I
      OBVIOUS
    <3> HIDE DEF F
    <3> QED BY <3>1, LeastSet
  <2>2. J \subseteq I /\ ~Good(J) /\ IsFiniteSet(J) /\ \A i \in J : g[i] \in Nat
    BY <1>1, <1>2, FS_Subset
  <2>3. J # {}
    <3>1. SumOver(g, {}) = 0 /\ SumOver(f, {}) = 0
      BY SumOverSplits, FS_EmptySet
    <3>2. Over({}) = {}
      OBVIOUS
    <3>3. Good({})
      BY <3>1, <3>2
    <3> QED BY <2>2, <3>3
  <2>4. PICK i \in J : TRUE
    BY <2>3
  <2> DEFINE K == J \ {i}
  <2>5. IsFiniteSet(K) /\ K \subseteq I /\ Cardinality(K) < Cardinality(J)
    BY <2>2, <2>4, Smaller
  <2>6. Good(K)
    <3>1. Cardinality(K) \in Nat /\ Cardinality(J) \in Nat
      BY <2>2, <2>5, FS_CardinalityType
    <3>2. K \notin F
      <4> HIDE DEF F
      <4> QED BY <2>1, <2>5, <3>1
    <3> QED BY <2>5, <3>2
  <2>7. SumOver(g, J) = g[i] + SumOver(g, K)
    BY <2>2, SumOverSplits
  <2>8. SumOver(f, Over(J)) = SumOver(f, Over(K)) + Of(i)
    <3>1. Over(J) = Over(K) \cup Fiber(S, p, i) /\ Over(K) \cap Fiber(S, p, i) = {}
      BY DEF Fiber
    <3>2. IsFiniteSet(Over(K)) /\ IsFiniteSet(Fiber(S, p, i))
      BY <1>1, <2>2, FS_Subset
    <3>3. \A x \in Over(K) \cup Fiber(S, p, i) : f[x] \in Nat
      BY DEF Fiber
    <3> QED BY <3>1, <3>2, <3>3, SumDisjoint DEF Of
  <2>9. SumOver(f, Over(K)) \in Nat
    <3>1. IsFiniteSet(Over(K)) /\ \A x \in Over(K) : f[x] \in Nat
      BY FS_Subset
    <3> QED BY <3>1, SumOverSplits
  <2>10. g[i] = Of(i) /\ Of(i) \in Nat
    BY <1>1, <1>2, <2>2
  <2> HIDE DEF Over, K, F
  <2> QED BY <2>2, <2>6, <2>7, <2>8, <2>9, <2>10
<1>4. Over(I) = S
  OBVIOUS
<1>5. SumOver(g, I) = SumFunction(g)
  <2>1. g = [i \in I |-> g[i]]
    BY DEF g
  <2> QED BY <2>1 DEF SumOver
<1>6. SumOver(g, I) = SumOver(f, S)
  BY <1>3, <1>4
<1> QED BY <1>5, <1>6 DEF g, Of

-----------------------------------------------------------------------------
(***************************************************************************)
(* Recursion over 0 .. n.                                                  *)
(***************************************************************************)

\* h starts with b, and step[k] makes the k-th value of the one before.
NextStep(h, b, step, k) == IF k = 0 THEN b ELSE step[k][h[k - 1]]
Recurs(h, n, b, step) == \A k \in 0 .. n : h[k] = NextStep(h, b, step, k)

\* There is such a function.
LEMMA FiniteRecursion ==
  ASSUME NEW n \in Nat, NEW b, NEW step
  PROVE  \E h : Recurs(h, n, b, step)
<1> DEFINE UpTo(h, m) == \A k \in 0 .. n : k <= m => h[k] = NextStep(h, b, step, k)
           Bad == {m \in Nat : ~ \E h : UpTo(h, m)}
<1>1. Bad = {}
  <2> SUFFICES ASSUME Bad # {} PROVE FALSE
    OBVIOUS
  <2>1. PICK m \in Bad : \A k \in Bad : m <= k
    <3> HIDE DEF UpTo
    <3> QED BY LeastNat
  <2>2. CASE m = 0
    <3> DEFINE h == [k \in 0 .. n |-> b]
    <3>1. UpTo(h, m)
      BY <2>2 DEF NextStep
    <3> HIDE DEF UpTo, h
    <3> QED BY <3>1
  <2>3. CASE m # 0
    <3>1. m - 1 \in Nat /\ m - 1 \notin Bad
      BY <2>1, <2>3
    <3>2. PICK h : UpTo(h, m - 1)
      <4> HIDE DEF UpTo
      <4> QED BY <3>1
    <3> DEFINE g == [k \in 0 .. n |-> IF k <= m - 1 THEN h[k] ELSE NextStep(h, b, step, k)]
    <3>3. ASSUME NEW k \in 0 .. n, k <= m
          PROVE  g[k] = NextStep(g, b, step, k)
      <4>1. g[k] = NextStep(h, b, step, k)
        BY <3>2
      <4>2. k # 0 => k - 1 \in 0 .. n /\ g[k - 1] = h[k - 1]
        BY <3>3
      <4> QED BY <4>1, <4>2 DEF NextStep
    <3>4. UpTo(g, m)
      BY <3>3
    <3> HIDE DEF UpTo, g
    <3> QED BY <3>4
  <2> QED BY <2>2, <2>3
<1>2. PICK h : UpTo(h, n)
  <2> HIDE DEF UpTo
  <2> QED BY <1>1
<1>3. Recurs(h, n, b, step)
  BY <1>2 DEF Recurs
<1> QED BY <1>3

\* The values of a sequence with one more.
LEMMA AppendedSet ==
  ASSUME NEW S, NEW q \in Seq(S), NEW x \in S
  PROVE  Append(q, x) \in Seq(S) /\ ToSet(Append(q, x)) = ToSet(q) \cup {x}
<1> DEFINE r == Append(q, x)
<1>1. /\ Len(q) \in Nat /\ DOMAIN q = 1 .. Len(q)
      /\ r \in Seq(S) /\ DOMAIN r = 1 .. Len(q) + 1
      /\ \A i \in 1 .. Len(q) : r[i] = q[i]
      /\ r[Len(q) + 1] = x
  OBVIOUS
<1> HIDE DEF r
<1>2. 1 .. Len(q) + 1 = (1 .. Len(q)) \cup {Len(q) + 1}
  BY <1>1
<1>3. ToSet(r) = {r[i] : i \in (1 .. Len(q)) \cup {Len(q) + 1}}
  BY <1>1, <1>2 DEF ToSet
<1>4. ToSet(q) = {q[i] : i \in 1 .. Len(q)}
  BY <1>1 DEF ToSet
<1>5. ToSet(r) = ToSet(q) \cup {x}
  BY <1>1, <1>3, <1>4
<1> QED BY <1>1, <1>5 DEF r

-----------------------------------------------------------------------------
(***************************************************************************)
(* Extremes.                                                               *)
(***************************************************************************)

LEMMA MinOf ==
  ASSUME NEW S \in SUBSET Nat, S # {}
  PROVE  Min(S) \in S /\ \A y \in S : Min(S) <= y
<1>1. \E x \in S : \A y \in S : x <= y
  BY LeastNat
<1> QED BY <1>1 DEF Min

\* The element fewest others exceed.
LEMMA MaxOf ==
  ASSUME NEW S \in SUBSET Nat, IsFiniteSet(S), S # {}
  PROVE  Max(S) \in S /\ \A y \in S : y <= Max(S)
<1> DEFINE Above(x) == {y \in S : x < y}
           F == {Above(x) : x \in S}
<1>1. PICK A \in F : \A B \in F : Cardinality(A) <= Cardinality(B)
  <2>1. F \in SUBSET SUBSET S /\ F # {}
    OBVIOUS
  <2> HIDE DEF F
  <2> QED BY <2>1, LeastSet
<1>2. PICK x \in S : A = Above(x)
  OBVIOUS
<1>3. ASSUME NEW y \in S, x < y PROVE FALSE
  <2>1. Above(y) \subseteq Above(x) /\ y \in Above(x) /\ y \notin Above(y)
    <3>1. \A z \in S : z \in Nat /\ (y < z => x < z) /\ ~(y < y)
      BY <1>3
    <3> QED BY <1>3, <3>1
  <2>2. IsFiniteSet(Above(x)) /\ Cardinality(Above(x)) \in Nat
    BY FS_Subset, FS_CardinalityType
  <2>3. IsFiniteSet(Above(y)) /\ Cardinality(Above(y)) \in Nat
    BY FS_Subset, FS_CardinalityType
  <2>4. Above(y) \in F
    OBVIOUS
  <2> HIDE DEF Above, F
  <2>5. /\ Cardinality(Above(y)) <= Cardinality(Above(x))
        /\ Cardinality(Above(y)) # Cardinality(Above(x))
    BY <2>1, <2>2, FS_Subset
  <2> QED BY <1>1, <1>2, <2>2, <2>3, <2>4, <2>5
<1>4. \E z \in S : \A y \in S : z >= y
  BY <1>3
<1> QED BY <1>4 DEF Max

=============================================================================
