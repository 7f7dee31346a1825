------------------------- MODULE DistributedProofs -------------------------
(***************************************************************************)
(* What fingerprints show and what a merge returns, for every set of       *)
(* nodes, sketches and registers, and every number of answers.             *)
(*                                                                         *)
(* In what a merge returns the scores play no part: whichever nodes a      *)
(* client asks, in whatever order they answer and how often, the merge is  *)
(* exact.  Removal is where the fingerprint lemma needs its history: the   *)
(* bits that stay behind are charged to what was dropped since the last    *)
(* rebuild.  In whom a client asks they do: the estimate of a sketch that  *)
(* is not empty is never rounded to zero.                                  *)
(***************************************************************************)
EXTENDS Distributed, FoldLemmas

\* The typing that the other conjuncts need.
NodeTypes ==
  /\ held \in [Node -> SUBSET HLLSets]
  /\ fingerprint \in [Node -> SUBSET Bit]
  /\ dropped \in [Node -> SUBSET HLLSets]

ClientTypes ==
  /\ request \in HLLSets \cup {None}
  /\ request = None => asked = {}
  /\ responses \in Seq(SUBSET Bit)

NodeInv == NodeTypes /\ FingerprintCovers /\ StaleOnlyUntilRebuild
RoutingInv == NodeInv /\ ClientTypes /\ MergeIsExact

-----------------------------------------------------------------------------
\* The merge of one more answer is the merge so far, and the answer.
LEMMA MergeAppend ==
  ASSUME NEW q \in Seq(SUBSET Bit), NEW H \in SUBSET Bit
  PROVE  Merge(Append(q, H)) = Merge(q) \cup H
<1>1. ToSet(Append(q, H)) = ToSet(q) \cup {H}
  BY AppendedSet
<1>2. UNION (ToSet(q) \cup {H}) = (UNION ToSet(q)) \cup H
  OBVIOUS
<1> QED BY <1>1, <1>2 DEF Merge

\* Nothing was answered, nothing is merged.
LEMMA MergeEmpty == Merge(<<>>) = {}
  BY DEF Merge, ToSet

-----------------------------------------------------------------------------
\* Each operation on node n keeps the fingerprints covering and explained.
LEMMA AddSetKeeps ==
  ASSUME NodeInv, NEW n \in Node, NEW H \in HLLSets, AddSet(n, H)
  PROVE  NodeInv'
<1>1. /\ held' = [held EXCEPT ![n] = @ \cup {H}]
      /\ fingerprint' = [fingerprint EXCEPT ![n] = @ \cup H]
      /\ dropped' = dropped
      /\ H \in SUBSET Bit
  BY HLLSetsAreSketches DEF AddSet
<1>2. NodeTypes'
  BY <1>1 DEF NodeInv, NodeTypes
<1>3. FingerprintCovers'
  BY <1>1 DEF NodeInv, NodeTypes, FingerprintCovers
<1>4. StaleOnlyUntilRebuild'
  BY <1>1 DEF NodeInv, NodeTypes, StaleOnlyUntilRebuild
<1> QED BY <1>2, <1>3, <1>4 DEF NodeInv

LEMMA RemoveSetKeeps ==
  ASSUME NodeInv, NEW n \in Node, NEW H \in HLLSets, RemoveSet(n, H)
  PROVE  NodeInv'
<1>1. /\ held' = [held EXCEPT ![n] = @ \ {H}]
      /\ dropped' = [dropped EXCEPT ![n] = @ \cup (held[n] \cap {H})]
      /\ fingerprint' = fingerprint
  BY DEF RemoveSet, BitsAfterRemoval, NodeInv, NodeTypes
<1>2. NodeTypes'
  BY <1>1 DEF NodeInv, NodeTypes
<1>3. FingerprintCovers'
  BY <1>1 DEF NodeInv, NodeTypes, FingerprintCovers
<1>4. StaleOnlyUntilRebuild'
  <2>1. \A m \in Node : held[m] \cup dropped[m] \subseteq (held[m] \cup dropped[m])'
    BY <1>1 DEF NodeInv, NodeTypes
  <2> QED BY <1>1, <2>1 DEF NodeInv, StaleOnlyUntilRebuild
<1> QED BY <1>2, <1>3, <1>4 DEF NodeInv

LEMMA RebuildKeeps ==
  ASSUME NodeInv, NEW n \in Node, Rebuild(n)
  PROVE  NodeInv'
<1>1. /\ held' = held
      /\ fingerprint' = [fingerprint EXCEPT ![n] = UNION held[n]]
      /\ dropped' = [dropped EXCEPT ![n] = {}]
  BY DEF Rebuild, Rebuilt, NodeInv, NodeTypes
<1>2. UNION held[n] \in SUBSET Bit
  BY HLLSetsAreSketches DEF NodeInv, NodeTypes
<1>3. NodeTypes'
  BY <1>1, <1>2 DEF NodeInv, NodeTypes
<1>4. FingerprintCovers'
  BY <1>1 DEF NodeInv, NodeTypes, FingerprintCovers
<1>5. StaleOnlyUntilRebuild'
  BY <1>1 DEF NodeInv, NodeTypes, StaleOnlyUntilRebuild
<1> QED BY <1>3, <1>4, <1>5 DEF NodeInv

LEMMA NodeInvStable ==
  ASSUME NodeInv, UNCHANGED nodeVars
  PROVE  NodeInv'
  BY DEF NodeInv, NodeTypes, FingerprintCovers, StaleOnlyUntilRebuild, nodeVars

-----------------------------------------------------------------------------
\* A new request starts from no answers.
LEMMA AskKeeps ==
  ASSUME ClientTypes, NEW R \in HLLSets, Ask(R)
  PROVE  ClientTypes' /\ MergeIsExact'
<1>1. request' = R /\ responses' = <<>> /\ answered' = {} /\ request' # None
  BY NoneIsNoSketch DEF Ask
<1> QED BY <1>1, MergeEmpty DEF ClientTypes, MergeIsExact

\* An answer adds to the merge what it adds to the bits the responders held.
LEMMA AddResponseKeeps ==
  ASSUME NodeInv, ClientTypes, MergeIsExact, NEW n \in Node, AddResponse(n)
  PROVE  ClientTypes' /\ MergeIsExact'
<1> DEFINE H == request \cap UNION held[n]
<1>1. /\ request' = request /\ asked' = asked
      /\ responses' = Append(responses, H)
      /\ answered' = answered \cup UNION held[n]
      /\ n \in asked
  BY DEF AddResponse
<1>2. request \in HLLSets
  BY <1>1 DEF ClientTypes
<1>3. H \in SUBSET Bit
  BY <1>2, HLLSetsAreSketches
<1>4. Merge(responses') = Merge(responses) \cup H
  BY <1>1, <1>3, MergeAppend DEF ClientTypes
<1>5. Merge(responses) = request \cap answered
  BY <1>2, NoneIsNoSketch DEF MergeIsExact
<1>6. MergeIsExact'
  BY <1>1, <1>4, <1>5 DEF MergeIsExact
<1>7. ClientTypes'
  BY <1>1, <1>3 DEF ClientTypes
<1> QED BY <1>6, <1>7

LEMMA ClientStable ==
  ASSUME ClientTypes, MergeIsExact, UNCHANGED clientVars
  PROVE  ClientTypes' /\ MergeIsExact'
  BY DEF ClientTypes, MergeIsExact, clientVars

-----------------------------------------------------------------------------
LEMMA InitRoutingInv == Init => RoutingInv
<1> SUFFICES ASSUME Init PROVE RoutingInv
  OBVIOUS
<1>1. NodeInv
  BY DEF Init, NodeInv, NodeTypes, FingerprintCovers, StaleOnlyUntilRebuild
<1>2. ClientTypes /\ MergeIsExact
  BY DEF Init, ClientTypes, MergeIsExact
<1> QED BY <1>1, <1>2 DEF RoutingInv

LEMMA StepRoutingInv == RoutingInv /\ [Next]_vars => RoutingInv'
<1> SUFFICES ASSUME RoutingInv, [Next]_vars PROVE RoutingInv'
  OBVIOUS
<1>0. NodeInv /\ ClientTypes /\ MergeIsExact
  BY DEF RoutingInv
<1>1. ASSUME NEW n \in Node, NEW H \in HLLSets, AddSet(n, H) PROVE RoutingInv'
  <2>1. NodeInv'
    BY <1>0, <1>1, AddSetKeeps
  <2> QED BY <1>0, <1>1, <2>1, ClientStable DEF AddSet, RoutingInv
<1>2. ASSUME NEW n \in Node, NEW H \in HLLSets, RemoveSet(n, H) PROVE RoutingInv'
  <2>1. NodeInv'
    BY <1>0, <1>2, RemoveSetKeeps
  <2> QED BY <1>0, <1>2, <2>1, ClientStable DEF RemoveSet, RoutingInv
<1>3. ASSUME NEW n \in Node, Rebuild(n) PROVE RoutingInv'
  <2>1. NodeInv'
    BY <1>0, <1>3, RebuildKeeps
  <2> QED BY <1>0, <1>3, <2>1, ClientStable DEF Rebuild, RoutingInv
<1>4. ASSUME NEW n \in Node, UpdateNode(n) PROVE RoutingInv'
  BY <1>0, <1>4, NodeInvStable, ClientStable DEF UpdateNode, RoutingInv
<1>5. ASSUME NEW n \in Node, RemoveNode(n) PROVE RoutingInv'
  BY <1>0, <1>5, NodeInvStable, ClientStable DEF RemoveNode, RoutingInv
<1>6. ASSUME NEW n \in Node, AddResponse(n) PROVE RoutingInv'
  <2>1. ClientTypes' /\ MergeIsExact'
    BY <1>0, <1>6, AddResponseKeeps
  <2> QED BY <1>0, <1>6, <2>1, NodeInvStable DEF AddResponse, RoutingInv
<1>7. ASSUME NEW R \in HLLSets, Ask(R) PROVE RoutingInv'
  <2>1. ClientTypes' /\ MergeIsExact'
    BY <1>0, <1>7, AskKeeps
  <2> QED BY <1>0, <1>7, <2>1, NodeInvStable DEF Ask, RoutingInv
<1>8. CASE UNCHANGED vars
  BY <1>0, <1>8, NodeInvStable, ClientStable DEF vars, RoutingInv
<1> QED
  BY <1>1, <1>2, <1>3, <1>4, <1>5, <1>6, <1>7, <1>8 DEF Next

LEMMA RoutingInvHolds == Spec => []RoutingInv
  BY InitRoutingInv, StepRoutingInv, PTL DEF Spec

\* No fingerprint hides data its node holds, whatever was added, removed and
\* rebuilt in whatever order (NodeFingerprint::add, remove, rebuild).
THEOREM FingerprintsCover == Spec => []FingerprintCovers
<1>1. RoutingInv => FingerprintCovers
  BY DEF RoutingInv, NodeInv
<1> QED BY <1>1, RoutingInvHolds, PTL

\* The bits a fingerprint has in excess are those of sets dropped since its
\* last rebuild (NodeFingerprint::remove leaves the bits, rebuild resets them).
THEOREM StaleBitsAreDropped == Spec => []StaleOnlyUntilRebuild
<1>1. RoutingInv => StaleOnlyUntilRebuild
  BY DEF RoutingInv, NodeInv
<1> QED BY <1>1, RoutingInvHolds, PTL

\* However the answers were lost, repeated or reordered, the union of them is
\* the request restricted to what the responders held as they answered
\* (MultiSourceMerge::add_response, union_all).
THEOREM MergesAreExact == Spec => []MergeIsExact
<1>1. RoutingInv => MergeIsExact
  BY DEF RoutingInv
<1> QED BY <1>1, RoutingInvHolds, PTL

-----------------------------------------------------------------------------
(***************************************************************************)
(* Types.                                                                  *)
(***************************************************************************)

\* A sketch is a finite set of bits, and there are finitely many sketches.
LEMMA SketchesFinite == IsFiniteSet(HLLSets)
<1>1. IsFiniteSet(Bit)
  BY FinitelyMany, FS_Product DEF Bit
<1>2. IsFiniteSet(SUBSET Bit)
  BY <1>1, FS_SUBSET
<1> QED BY <1>2, HLLSetsAreSketches, FS_Subset

\* A ranking lists nodes the router knows.
LEMMA RankingsKnown ==
  ASSUME TypeOK, NEW R, NEW q \in Rankings(R)
  PROVE  ToSet(q) \subseteq DOMAIN nodes
<1>1. IsFiniteSet(Relevant(R)) /\ Relevant(R) \subseteq DOMAIN nodes
  <2>1. Relevant(R) \subseteq DOMAIN nodes
    BY DEF Relevant
  <2>2. Relevant(R) \in SUBSET Node
    BY <2>1 DEF TypeOK
  <2> QED BY <2>1, <2>2, FinitelyMany, FS_Subset
<1>2. Cardinality(Relevant(R)) \in Nat
  BY <1>1, FS_CardinalityType
<1>3. PICK f \in SetToSeqs(Relevant(R)) :
        \E m : q = SubSeq(f, 1, m) /\ m = IF Len(f) < TopK THEN Len(f) ELSE TopK
  BY DEF Rankings
<1>4. f \in [1 .. Cardinality(Relevant(R)) -> Relevant(R)]
  BY <1>3 DEF SetToSeqs
<1>5. f \in Seq(Relevant(R)) /\ Len(f) = Cardinality(Relevant(R))
  BY <1>2, <1>4
<1>6. PICK m : q = SubSeq(f, 1, m) /\ m <= Len(f) /\ m \in Nat
  BY <1>2, <1>3, <1>5, TopKIsNat
<1>7. q \in Seq(Relevant(R))
  BY <1>5, <1>6
<1> QED BY <1>1, <1>7 DEF ToSet

LEMMA StepTypes == TypeOK /\ [Next]_vars => TypeOK'
<1> SUFFICES ASSUME TypeOK, [Next]_vars PROVE TypeOK'
  OBVIOUS
<1>0. /\ held \in [Node -> SUBSET HLLSets] /\ fingerprint \in [Node -> SUBSET Bit]
      /\ setCount \in [Node -> Nat] /\ dropped \in [Node -> SUBSET HLLSets]
      /\ DOMAIN nodes \subseteq Node /\ Range(nodes) \subseteq SUBSET Bit
      /\ request \in HLLSets \cup {None} /\ asked \subseteq Node
      /\ responses \in Seq(SUBSET Bit) /\ answered \subseteq Bit
  BY DEF TypeOK
<1>1. \A n \in Node : UNION held[n] \in SUBSET Bit
  BY <1>0, HLLSetsAreSketches
<1>2. ASSUME NEW n \in Node, NEW H \in HLLSets, AddSet(n, H) PROVE TypeOK'
  <2>1. H \in SUBSET Bit
    BY HLLSetsAreSketches
  <2> QED BY <1>0, <1>2, <2>1 DEF AddSet, clientVars, TypeOK
<1>3. ASSUME NEW n \in Node, NEW H \in HLLSets, RemoveSet(n, H) PROVE TypeOK'
  <2>1. \A c \in Nat : OneLess(c) \in Nat
    BY DEF OneLess
  <2> QED BY <1>0, <1>3, <2>1 DEF RemoveSet, BitsAfterRemoval, clientVars, TypeOK
<1>4. ASSUME NEW n \in Node, Rebuild(n) PROVE TypeOK'
  <2>1. held[n] \in SUBSET HLLSets
    BY <1>0
  <2>2. Cardinality(held[n]) \in Nat
    BY <2>1, SketchesFinite, FS_Subset, FS_CardinalityType
  <2> QED BY <1>0, <1>1, <1>4, <2>2 DEF Rebuild, Rebuilt, clientVars, TypeOK
<1>5. ASSUME NEW n \in Node, UpdateNode(n) PROVE TypeOK'
  <2>1. nodes' = [m \in DOMAIN nodes \cup {n} |-> IF m = n THEN fingerprint[n] ELSE nodes[m]]
    BY <1>5 DEF UpdateNode
  <2>2. DOMAIN nodes' \subseteq Node
    BY <1>0, <2>1
  <2>3. Range(nodes') \subseteq SUBSET Bit
    <3>1. \A m \in DOMAIN nodes : nodes[m] \in SUBSET Bit
      BY <1>0 DEF Range
    <3>2. \A m \in DOMAIN nodes' : nodes'[m] \in SUBSET Bit
      BY <1>0, <2>1, <3>1
    <3> QED BY <3>2 DEF Range
  <2> QED BY <1>0, <1>5, <2>2, <2>3 DEF UpdateNode, nodeVars, clientVars, TypeOK
<1>6. ASSUME NEW n \in Node, RemoveNode(n) PROVE TypeOK'
  <2>1. nodes' = [m \in DOMAIN nodes \ {n} |-> nodes[m]]
    BY <1>6 DEF RemoveNode, Restrict
  <2>2. DOMAIN nodes' \subseteq Node
    BY <1>0, <2>1
  <2>3. Range(nodes') \subseteq SUBSET Bit
    BY <1>0, <2>1 DEF Range
  <2> QED BY <1>0, <1>6, <2>2, <2>3 DEF RemoveNode, nodeVars, clientVars, TypeOK
<1>7. ASSUME NEW n \in Node, AddResponse(n) PROVE TypeOK'
  <2>1. request \cap UNION held[n] \in SUBSET Bit
    BY <1>1
  <2>2. responses' \in Seq(SUBSET Bit) /\ answered' \subseteq Bit
    BY <1>0, <1>1, <1>7, <2>1 DEF AddResponse
  <2> QED BY <1>0, <1>7, <2>2 DEF AddResponse, nodeVars, TypeOK
<1>8. ASSUME NEW R \in HLLSets, Ask(R) PROVE TypeOK'
  <2>1. asked' \subseteq Node
    BY <1>0, <1>8, RankingsKnown DEF Ask
  <2>2. responses' \in Seq(SUBSET Bit) /\ answered' \subseteq Bit
    BY <1>8 DEF Ask
  <2> QED BY <1>0, <1>8, <2>1, <2>2 DEF Ask, nodeVars, TypeOK
<1>9. CASE UNCHANGED vars
  BY <1>0, <1>9 DEF vars, nodeVars, clientVars, TypeOK
<1> QED
  BY <1>2, <1>3, <1>4, <1>5, <1>6, <1>7, <1>8, <1>9 DEF Next

\* A count of sets never falls below zero, however often sets are removed that
\* were never added, and only known nodes are asked (remove, rank).
THEOREM RoutingTypes == Spec => []TypeOK
<1>1. Init => TypeOK
  <2> SUFFICES ASSUME Init PROVE TypeOK
    OBVIOUS
  <2>1. nodes = <<>> /\ DOMAIN nodes = {} /\ Range(nodes) = {}
    BY DEF Init, Range
  <2> QED BY <2>1 DEF Init, TypeOK
<1> QED BY <1>1, StepTypes, PTL DEF Spec

-----------------------------------------------------------------------------
(***************************************************************************)
(* The estimate, and whom a client asks.                                   *)
(***************************************************************************)

LEMMA TwoToIsNat ==
  ASSUME NEW n \in Nat
  PROVE  TwoTo(n) \in Nat
<1> DEFINE Doubles(h) == h = [k \in 0 .. n |-> IF k = 0 THEN 1 ELSE 2 * h[k - 1]]
<1>1. ASSUME NEW h, h[0] = 1, \A k \in 1 .. n : h[k - 1] \in Nat => h[k] = 2 * h[k - 1]
      PROVE  \A k \in 0 .. n : h[k] \in Nat
  <2> DEFINE Bad == {k \in 0 .. n : h[k] \notin Nat}
  <2> SUFFICES ASSUME Bad # {} PROVE FALSE
    OBVIOUS
  <2>1. PICK k \in Bad : \A j \in Bad : k <= j
    <3>1. Bad \in SUBSET Nat
      OBVIOUS
    <3> HIDE DEF Bad
    <3> QED BY <3>1, LeastNat
  <2>2. k # 0 /\ k \in 0 .. n /\ h[k] \notin Nat
    BY <1>1
  <2>3. k \in 1 .. n /\ k - 1 \in 0 .. n /\ ~(k <= k - 1)
    BY <2>2
  <2>4. h[k - 1] \in Nat
    BY <2>1, <2>3
  <2> QED BY <1>1, <2>2, <2>3, <2>4
<1>2. \E h : Doubles(h)
  <2> DEFINE step == [k \in 1 .. n |-> [v \in Nat |-> 2 * v]]
  <2>1. PICK h : Recurs(h, n, 1, step)
    <3> HIDE DEF step
    <3> QED BY FiniteRecursion
  <2>2. h[0] = 1 /\ \A k \in 1 .. n : h[k] = step[k][h[k - 1]]
    <3> HIDE DEF step
    <3> QED BY <2>1 DEF Recurs, NextStep
  <2>3. \A k \in 1 .. n : h[k - 1] \in Nat => h[k] = 2 * h[k - 1]
    BY <2>2
  <2>4. \A k \in 0 .. n : h[k] \in Nat
    BY <1>1, <2>2, <2>3
  <2> DEFINE g == [k \in 0 .. n |-> h[k]]
  <2>5. ASSUME NEW k \in 0 .. n PROVE g[k] = IF k = 0 THEN 1 ELSE 2 * g[k - 1]
    <3>1. k # 0 => k \in 1 .. n /\ k - 1 \in 0 .. n
      OBVIOUS
    <3> HIDE DEF step
    <3> QED BY <2>2, <2>3, <2>4, <3>1
  <2>6. Doubles(g)
    BY <2>5
  <2> HIDE DEF g
  <2> QED BY <2>6
<1> DEFINE p == CHOOSE h : Doubles(h)
<1>3. Doubles(p) /\ TwoTo(n) = p[n]
  BY <1>2 DEF TwoTo
<1> HIDE DEF p
<1>4. p[0] = 1 /\ \A k \in 1 .. n : p[k] = 2 * p[k - 1]
  BY <1>3
<1>5. \A k \in 0 .. n : p[k] \in Nat
  BY <1>1, <1>4
<1> QED BY <1>3, <1>5

\* A plane holds no more bits than there are registers.
LEMMA CountBounded ==
  ASSUME NEW H \in SUBSET Bit, NEW z
  PROVE  Count(H, z) \in 0 .. Cardinality(Reg) /\ Cardinality(Reg) \in Nat
<1> DEFINE P == {b \in H : b[2] = z}
           f == [b \in P |-> b[1]]
<1>1. f \in Injection(P, Reg)
  <2>1. f \in [P -> Reg]
    BY DEF Bit
  <2>2. \A a, b \in P : f[a] = f[b] => a = b
    BY DEF Bit
  <2> QED BY <2>1, <2>2 DEF Injection, IsInjective
<1> HIDE DEF f, P
<1>2. IsFiniteSet(P) /\ Cardinality(P) <= Cardinality(Reg)
  BY <1>1, FinitelyMany, FS_Injection
<1>3. Cardinality(P) \in Nat /\ Cardinality(Reg) \in Nat
  BY <1>2, FinitelyMany, FS_CardinalityType
<1> QED BY <1>2, <1>3 DEF Count, P

\* A plane that has a bit counts one.
LEMMA CountPositive ==
  ASSUME NEW H \in SUBSET Bit, NEW b \in H
  PROVE  Count(H, b[2]) > 0
<1> DEFINE P == {a \in H : a[2] = b[2]}
<1>1. IsFiniteSet(Bit)
  BY FinitelyMany, FS_Product DEF Bit
<1>2. IsFiniteSet(P) /\ P # {}
  BY <1>1, FS_Subset
<1> HIDE DEF P
<1>3. Cardinality(P) \in Nat /\ Cardinality(P) # 0
  BY <1>2, FS_CardinalityType, FS_EmptySet
<1> QED BY <1>3 DEF Count, P

LEMMA LowestUnsaturated ==
  ASSUME NEW H \in SUBSET Bit, Unsaturated(H) # {}
  PROVE  /\ LastNonSat(H) \in Zeros /\ LastNonSat(H) \in Nat
         /\ Count(H, LastNonSat(H)) \in 1 .. Cardinality(Reg) - 1
<1>1. Unsaturated(H) \subseteq Zeros /\ Unsaturated(H) \in SUBSET Nat
  BY PlanesAreNumbered DEF Unsaturated
<1>2. LastNonSat(H) \in Unsaturated(H)
  BY <1>1, MinOf DEF LastNonSat
<1>3. /\ LastNonSat(H) \in Zeros
      /\ Count(H, LastNonSat(H)) > 0 /\ Count(H, LastNonSat(H)) < Cardinality(Reg)
  BY <1>2 DEF Unsaturated
<1>4. Count(H, LastNonSat(H)) \in Nat /\ Cardinality(Reg) \in Nat
  BY CountBounded
<1>5. LastNonSat(H) \in Nat
  BY <1>3, PlanesAreNumbered
<1> QED BY <1>3, <1>4, <1>5

LEMMA PlaneEstimateIsNat ==
  ASSUME NEW H \in SUBSET Bit, NEW z \in Zeros
  PROVE  PlaneEstimate(H, z) \in Nat
<1>1. Count(H, z) \in 0 .. Cardinality(Reg) /\ Cardinality(Reg) \in Nat
  BY CountBounded
<1>2. FHat[Cardinality(Reg) - 1] \in Nat
  BY <1>1, SeveralRegisters, FHatIsTable
<1>3. Saturated(H, z) \in Nat
  <2>1. CASE Unsaturated(H) # {} /\ LastNonSat(H) > z
    <3> DEFINE x == FHat[Count(H, LastNonSat(H))]
               y == TwoTo(LastNonSat(H) - z)
    <3>1. x \in Nat
      BY <2>1, LowestUnsaturated, FHatIsTable
    <3>2. LastNonSat(H) - z \in Nat
      BY <2>1, LowestUnsaturated, PlanesAreNumbered
    <3>3. y \in Nat
      BY <3>2, TwoToIsNat
    <3>4. Saturated(H, z) = x * y
      BY <2>1 DEF Saturated
    <3> HIDE DEF x, y
    <3> QED BY <3>1, <3>3, <3>4
  <2> QED BY <1>2, <2>1 DEF Saturated
<1>4. CASE Count(H, z) # 0 /\ Count(H, z) # Cardinality(Reg)
  <2>1. Count(H, z) \in 1 .. Cardinality(Reg) - 1
    BY <1>1, <1>4
  <2> QED BY <1>4, <2>1, FHatIsTable DEF PlaneEstimate
<1> QED BY <1>1, <1>3, <1>4, SeveralRegisters DEF PlaneEstimate

\* One plane of a sketch that is not empty counts for one at least: the lowest
\* unsaturated one, or if there is none, any that has a bit.
LEMMA SomePlaneCounts ==
  ASSUME NEW H \in SUBSET Bit, H # {}
  PROVE  \E z \in Zeros : PlaneEstimate(H, z) >= 1000
<1>0. Cardinality(Reg) \in Nat /\ DOMAIN FHat = 1 .. Cardinality(Reg) - 1
  BY CountBounded, FHatIsTable
<1>1. CASE Unsaturated(H) # {}
  <2> DEFINE z == LastNonSat(H)
  <2>1. z \in Zeros /\ Count(H, z) \in 1 .. Cardinality(Reg) - 1
    BY <1>1, LowestUnsaturated
  <2> HIDE DEF z
  <2>2. PlaneEstimate(H, z) = FHat[Count(H, z)]
    BY <1>0, <2>1 DEF PlaneEstimate
  <2>3. FHat[Count(H, z)] >= 1000
    BY <1>0, <2>1, FHatGrows
  <2> QED BY <2>1, <2>2, <2>3
<1>2. CASE Unsaturated(H) = {}
  <2>1. PICK b \in H : TRUE
    OBVIOUS
  <2> DEFINE z == b[2]
  <2>2. z \in Zeros
    BY DEF Bit
  <2>3. Count(H, z) > 0 /\ Count(H, z) \in 0 .. Cardinality(Reg)
    BY CountPositive, CountBounded
  <2> HIDE DEF z
  <2>4. Count(H, z) = Cardinality(Reg)
    BY <1>0, <1>2, <2>2, <2>3 DEF Unsaturated
  <2>5. PlaneEstimate(H, z) = FHat[Cardinality(Reg) - 1]
    BY <1>0, <1>2, <2>3, <2>4 DEF PlaneEstimate, Saturated
  <2>6. FHat[Cardinality(Reg) - 1] >= 1000
    BY <1>0, SeveralRegisters, FHatGrows
  <2> QED BY <2>2, <2>5, <2>6
<1> QED BY <1>1, <1>2

\* The estimate of a sketch is a natural, and not zero unless it is empty.
LEMMA EstimatePositive ==
  ASSUME NEW H \in SUBSET Bit
  PROVE  Estimate(H) \in Nat /\ (H # {} => Estimate(H) > 0)
<1> DEFINE f == [z \in Zeros |-> PlaneEstimate(H, z)]
<1>1. f \in [Zeros -> Nat] /\ IsFiniteSet(Zeros)
  BY PlaneEstimateIsNat, FinitelyMany
<1>2. H # {} => \E z \in Zeros : f[z] >= 1000
  BY SomePlaneCounts
<1>3. Estimate(H) = (SumFunction(f) + 500) \div 1000
  BY DEF Estimate
<1> HIDE DEF f
<1>4. SumFunction(f) \in Nat
  BY <1>1, SumSplits
<1>5. H # {} => SumFunction(f) >= 1000
  <2> SUFFICES ASSUME H # {} PROVE SumFunction(f) >= 1000
    OBVIOUS
  <2>1. PICK z \in Zeros : f[z] >= 1000
    BY <1>2
  <2>2. f[z] <= SumFunction(f) /\ f[z] \in Nat
    BY <1>1, SumAtLeast
  <2> QED BY <1>4, <2>1, <2>2
<1> QED BY <1>3, <1>4, <1>5

\* A node whose entry shares a bit with the request is listed.
LEMMA SharerIsRelevant ==
  ASSUME TypeOK, NEW R \in HLLSets, NEW n \in DOMAIN nodes, R \cap nodes[n] # {}
  PROVE  n \in Relevant(R)
<1>1. nodes[n] \cap R \in SUBSET Bit /\ R \in SUBSET Bit /\ R # {}
  BY HLLSetsAreSketches
<1> DEFINE in == Estimate(nodes[n] \cap R)
           all == Estimate(R)
<1>2. in \in Nat /\ all \in Nat /\ in > 0 /\ all > 0
  BY <1>1, EstimatePositive
<1>3. Score(n, R) = IF all = 0 THEN <<1, 1>> ELSE <<IF in < all THEN in ELSE all, all>>
  BY DEF Score, Inclusion
<1> HIDE DEF in, all
<1>4. Score(n, R)[1] > 0
  BY <1>2, <1>3
<1> QED BY <1>4 DEF Relevant

\* A listing leaves a relevant node out only when it is full of nodes that
\* score no less.
LEMMA RankingKeepsBest ==
  ASSUME TypeOK, NEW R, NEW q \in Rankings(R), NEW n \in Relevant(R)
  PROVE  \/ n \in ToSet(q)
         \/ Len(q) = TopK /\ \A i \in DOMAIN q : ~Less(Score(q[i], R), Score(n, R))
<1> DEFINE S == Relevant(R)
           k == Cardinality(S)
<1>1. IsFiniteSet(S)
  <2>1. S \in SUBSET Node
    BY DEF TypeOK, Relevant
  <2> QED BY <2>1, FinitelyMany, FS_Subset
<1>2. k \in Nat
  BY <1>1, FS_CardinalityType
<1>3. PICK f \in SetToSeqs(S) :
        /\ \A i, j \in DOMAIN f : i < j => ~Less(Score(f[i], R), Score(f[j], R))
        /\ q = SubSeq(f, 1, IF Len(f) < TopK THEN Len(f) ELSE TopK)
  BY DEF Rankings
<1>4. f \in [1 .. k -> S] /\ \A i, j \in 1 .. k : i # j => f[i] # f[j]
  BY <1>3 DEF SetToSeqs
<1> HIDE DEF S, k
<1>5. f \in Surjection(1 .. k, S)
  <2>1. f \in Injection(1 .. k, S)
    BY <1>4 DEF Injection, IsInjective
  <2>2. Cardinality(1 .. k) = k
    BY <1>2, FS_Interval
  <2> QED BY <1>1, <2>1, <2>2, FS_Injection DEF k
<1>6. PICK j \in 1 .. k : f[j] = n
  BY <1>5 DEF Surjection, S
<1> DEFINE m == IF k < TopK THEN k ELSE TopK
<1>7. f \in Seq(S) /\ Len(f) = k /\ m \in 0 .. k /\ q = SubSeq(f, 1, m)
  BY <1>2, <1>3, <1>4, TopKIsNat
<1>8. Len(q) = m /\ DOMAIN q = 1 .. m /\ \A i \in 1 .. m : q[i] = f[i]
  BY <1>7
<1>9. CASE j <= m
  BY <1>2, <1>6, <1>8, <1>9 DEF ToSet
<1>10. CASE ~(j <= m)
  <2>1. m = TopK
    BY <1>2, <1>10
  <2>2. \A i \in 1 .. m : i \in 1 .. k /\ i < j
    BY <1>2, <1>7, <1>10
  <2>3. \A i \in 1 .. m : ~Less(Score(f[i], R), Score(f[j], R))
    BY <1>3, <1>4, <2>2
  <2> QED BY <1>6, <1>8, <2>1, <2>3
<1> QED BY <1>9, <1>10

\* However a request and an entry overlap, and however saturated the planes
\* are: as long as the router's entry is the node's fingerprint, a node that
\* holds a bit of the request is asked, or TopK that score no less are.
THEOREM HoldersAreAsked == Spec => []NoRelevantNodeMissed
<1>1. ASSUME TypeOK, RoutingInv, NEW R \in HLLSets, NEW n \in DOMAIN nodes,
             nodes[n] = fingerprint[n], R \cap UNION held[n] # {}
      PROVE  n \in Relevant(R)
  <2>1. n \in Node
    BY <1>1 DEF TypeOK
  <2>2. UNION held[n] \subseteq nodes[n]
    BY <1>1, <2>1 DEF RoutingInv, NodeInv, FingerprintCovers
  <2> QED BY <1>1, <2>2, SharerIsRelevant
<1>2. TypeOK /\ RoutingInv => NoRelevantNodeMissed
  BY <1>1, RankingKeepsBest DEF NoRelevantNodeMissed
<1> QED BY <1>2, RoutingTypes, RoutingInvHolds, PTL

=============================================================================
