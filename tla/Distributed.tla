---------------------------- MODULE Distributed ----------------------------
(***************************************************************************)
(* Routing by fingerprint and merging of partial answers                   *)
(* (crates/hllset-dsl/src/distributed.rs), with the estimator the scores   *)
(* are computed from (crates/hllset-core/src/core/cardinality.rs, bss.rs). *)
(*                                                                         *)
(* Nodes hold HLLSets and keep a fingerprint of them; a router keeps the   *)
(* last fingerprint it was given of each node; a client asks the nodes     *)
(* ranked best and unions what they answer.  What carries fingerprints and *)
(* answers is outside the code: one reaches the other side at any time,    *)
(* again, or never, and nodes change what they hold meanwhile.             *)
(***************************************************************************)
EXTENDS Integers, Sequences, FiniteSets, FiniteSetsExt, SequencesExt, Functions

CONSTANTS
  Node,
  Reg, Zeros,     \* registers, and the trailing-zero counts 0 .. max
  HLLSets,        \* the sketches nodes hold and clients ask for
  FHat,           \* FHat[c]: -n ln(1 - c/n) in thousandths, 0 < c < n
  None,
  TopK,           \* how many nodes a client asks
  MaxAdds,        \* bound on the nodes' counts of sets
  MaxCollected    \* bound on the answers a client collects

Bit == Reg \X Zeros

ASSUME HLLSetsAreSketches == HLLSets \subseteq SUBSET Bit
ASSUME NoneIsNoSketch == None \notin HLLSets
ASSUME TopKIsNat == TopK \in Nat
ASSUME FinitelyMany == IsFiniteSet(Node) /\ IsFiniteSet(Reg) /\ IsFiniteSet(Zeros)
ASSUME PlanesAreNumbered == Zeros \subseteq Nat
ASSUME SeveralRegisters == Cardinality(Reg) >= 2
ASSUME FHatIsTable == FHat \in [1 .. Cardinality(Reg) - 1 -> Nat]
ASSUME FHatGrows == \A c \in DOMAIN FHat : FHat[c] >= 1000

VARIABLES
  held,         \* held[n]: the HLLSets node n holds
  fingerprint,  \* fingerprint[n]: the bits of n's NodeFingerprint
  setCount,     \* setCount[n]: its count of sets
  dropped,      \* history: HLLSets n dropped since it last rebuilt
  nodes,        \* the router's map from the nodes it knows to their bits
  request,      \* the client's current request, or None
  asked,        \* the nodes it was sent to
  responses,    \* the MultiSourceMerge of the current request
  answered      \* history: the bits the responders held as they answered

nodeVars == <<held, fingerprint, setCount, dropped>>
clientVars == <<request, asked, responses, answered>>
vars == <<nodeVars, nodes, clientVars>>

TypeOK ==
  /\ held \in [Node -> SUBSET HLLSets]
  /\ fingerprint \in [Node -> SUBSET Bit]
  /\ setCount \in [Node -> Nat]
  /\ dropped \in [Node -> SUBSET HLLSets]
  /\ DOMAIN nodes \subseteq Node /\ Range(nodes) \subseteq SUBSET Bit
  /\ request \in HLLSets \cup {None}
  /\ asked \subseteq Node
  /\ responses \in Seq(SUBSET Bit)
  /\ answered \subseteq Bit

Init ==
  /\ held = [n \in Node |-> {}]
  /\ fingerprint = [n \in Node |-> {}]
  /\ setCount = [n \in Node |-> 0]
  /\ dropped = [n \in Node |-> {}]
  /\ nodes = <<>>
  /\ request = None
  /\ asked = {}
  /\ responses = <<>>
  /\ answered = {}

-----------------------------------------------------------------------------
\* The estimator, in thousandths before rounding.

Count(H, z) == Cardinality({b \in H : b[2] = z})

\* The lowest plane that is neither empty nor saturated.
Unsaturated(H) == {z \in Zeros : Count(H, z) > 0 /\ Count(H, z) < Cardinality(Reg)}
LastNonSat(H) == Min(Unsaturated(H))

TwoTo(n) ==
  LET power[k \in 0 .. n] == IF k = 0 THEN 1 ELSE 2 * power[k - 1] IN power[n]

\* A saturated plane is extrapolated from the unsaturated one above it, if any.
Saturated(H, z) ==
  IF Unsaturated(H) # {} /\ LastNonSat(H) > z
    THEN FHat[Count(H, LastNonSat(H))] * TwoTo(LastNonSat(H) - z)
    ELSE FHat[Cardinality(Reg) - 1]

PlaneEstimate(H, z) ==
  CASE Count(H, z) = 0                -> 0
    [] Count(H, z) = Cardinality(Reg) -> Saturated(H, z)
    [] Count(H, z) \notin {0, Cardinality(Reg)} -> FHat[Count(H, z)]

Estimate(H) == (SumFunction([z \in Zeros |-> PlaneEstimate(H, z)]) + 500) \div 1000

\* bss_inclusion as a fraction <<num, den>>.
Inclusion(fp, H) ==
  LET all == Estimate(H)
      in  == Estimate(fp \cap H)
  IN  IF all = 0 THEN <<1, 1>> ELSE <<IF in < all THEN in ELSE all, all>>

Less(x, y) == x[1] * y[2] < y[1] * x[2]

-----------------------------------------------------------------------------
\* Nodes.

\* add counts every call, also of a set the node holds already.
AddSet(n, H) ==
  /\ SumFunction(setCount) < MaxAdds
  /\ held' = [held EXCEPT ![n] = @ \cup {H}]
  /\ fingerprint' = [fingerprint EXCEPT ![n] = @ \cup H]
  /\ setCount' = [setCount EXCEPT ![n] = @ + 1]
  /\ UNCHANGED <<dropped, nodes, clientVars>>

\* remove leaves the bits alone.  Slip: it takes those of the set away.
BitsWithout(fp, H) == fp \ H
BitsAfterRemoval(fp, H) == fp

\* saturating_sub.  Slip: it wraps.
OneLessUnchecked(count) == count - 1
OneLess(count) == IF count > 0 THEN count - 1 ELSE 0

\* The caller may also name a set that is not there.
RemoveSet(n, H) ==
  /\ held' = [held EXCEPT ![n] = @ \ {H}]
  /\ fingerprint' = [fingerprint EXCEPT ![n] = BitsAfterRemoval(@, H)]
  /\ setCount' = [setCount EXCEPT ![n] = OneLess(@)]
  /\ dropped' = [dropped EXCEPT ![n] = @ \cup (held[n] \cap {H})]
  /\ UNCHANGED <<nodes, clientVars>>

\* Slip: rebuild starts from the old bits.
RebuiltOver(fp, Hs) == fp \cup UNION Hs
Rebuilt(fp, Hs) == UNION Hs

Rebuild(n) ==
  /\ fingerprint' = [fingerprint EXCEPT ![n] = Rebuilt(@, held[n])]
  /\ setCount' = [setCount EXCEPT ![n] = Cardinality(held[n])]
  /\ dropped' = [dropped EXCEPT ![n] = {}]
  /\ UNCHANGED <<held, nodes, clientVars>>

-----------------------------------------------------------------------------
\* The router.

\* add_node and update_node clone what they are given: the entry is replaced,
\* not merged, and does not follow the node.
UpdateNode(n) ==
  /\ nodes' = [m \in DOMAIN nodes \cup {n} |-> IF m = n THEN fingerprint[n] ELSE nodes[m]]
  /\ UNCHANGED <<nodeVars, clientVars>>

RemoveNode(n) ==
  /\ n \in DOMAIN nodes
  /\ nodes' = Restrict(nodes, DOMAIN nodes \ {n})
  /\ UNCHANGED <<nodeVars, clientVars>>

Score(n, R) == Inclusion(nodes[n], R)

\* Slip: only the nodes that promise everything are listed.
RelevantInFull(R) == {n \in DOMAIN nodes : Score(n, R) = <<1, 1>>}
Relevant(R) == {n \in DOMAIN nodes : Score(n, R)[1] > 0}

\* The orders rank may return: the nodes come out of a HashMap, so equal
\* scores may stand in any order.
Rankings(R) ==
  LET sorted == {q \in SetToSeqs(Relevant(R)) :
                   \A i, j \in DOMAIN q : i < j => ~Less(Score(q[i], R), Score(q[j], R))}
  IN  {SubSeq(q, 1, IF Len(q) < TopK THEN Len(q) ELSE TopK) : q \in sorted}

-----------------------------------------------------------------------------
\* The client.

Ask(R) ==
  /\ request' = R
  /\ \E q \in Rankings(R) : asked' = ToSet(q)
  /\ responses' = <<>>
  /\ answered' = {}
  /\ UNCHANGED <<nodeVars, nodes>>

\* add_response: a node asked answers from what it holds by then.
AddResponse(n) ==
  /\ n \in asked
  /\ Len(responses) < MaxCollected
  /\ responses' = Append(responses, request \cap UNION held[n])
  /\ answered' = answered \cup UNION held[n]
  /\ UNCHANGED <<nodeVars, nodes, request, asked>>

\* union_all.  Slips: the bits all responses agree on; the last response.
MergeCommon(q) == {b \in UNION ToSet(q) : \A i \in DOMAIN q : b \in q[i]}
Merge(q) == UNION ToSet(q)

Next ==
  \/ \E n \in Node : \/ \E H \in HLLSets : AddSet(n, H) \/ RemoveSet(n, H)
                     \/ Rebuild(n)
                     \/ UpdateNode(n)
                     \/ RemoveNode(n)
                     \/ AddResponse(n)
  \/ \E R \in HLLSets : Ask(R)

Spec == Init /\ [][Next]_vars

-----------------------------------------------------------------------------
(***************************************************************************)
(* Properties.                                                             *)
(***************************************************************************)

\* A fingerprint covers what the node holds: removals of sets that share bits
\* with others, rebuilds and repeated adds never hide held data from peers.
FingerprintCovers == \A n \in Node : UNION held[n] \subseteq fingerprint[n]

\* What a fingerprint shows beyond the held data belongs to sets dropped since
\* the last rebuild, which restores it.
StaleOnlyUntilRebuild ==
  \A n \in Node : fingerprint[n] \subseteq UNION (held[n] \cup dropped[n])

\* A node the router has an up-to-date entry for, and that holds data of the
\* request, is listed, unless the list is full of nodes that score no less.
NoRelevantNodeMissed ==
  \A R \in HLLSets :
    LET holders == {n \in DOMAIN nodes : /\ nodes[n] = fingerprint[n]
                                         /\ R \cap UNION held[n] # {}}
    IN holders # {} => \A q \in Rankings(R) : \A n \in holders :
         \/ n \in ToSet(q)
         \/ Len(q) = TopK /\ \A i \in DOMAIN q : ~Less(Score(q[i], R), Score(n, R))

\* The merged result is the request restricted to what the responders held,
\* whatever was lost, delivered twice or out of order
\* ("request n (node_A u node_B u ...)", distributed.rs:216-218).
MergeIsExact ==
  request # None => Merge(responses) = request \cap answered

\* What rank says of a full score: "1.0 means the node has everything in the
\* request" (distributed.rs:157-158).
FullScoreMeansAll ==
  \A n \in DOMAIN nodes, R \in HLLSets :
    Score(n, R) = <<Estimate(R), Estimate(R)>> => R \subseteq nodes[n]

=============================================================================
