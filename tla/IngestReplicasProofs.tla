------------------------ MODULE IngestReplicasProofs ------------------------
(***************************************************************************)
(* Convergence of the merged replicas, for every set of replicas, tokens   *)
(* and seeds, and every hash function.                                     *)
(***************************************************************************)
EXTENDS IngestReplicas, TLAPS

\* Joining two tables that are the greatest values of their logs gives the
\* greatest values of both logs.
LEMMA JoinedMax ==
  ASSUME NEW K, NEW f \in [K -> Nat], NEW g \in [K -> Nat], NEW h \in [K -> Nat],
         NEW F, NEW G,
         \A e \in F \cup G : e.key \in K /\ e.val \in Nat,
         MaxTable(f, F), MaxTable(g, G),
         \A k \in K : h[k] = IF g[k] > f[k] THEN g[k] ELSE f[k]
  PROVE  MaxTable(h, F \cup G)
<1>1. \A k \in K : f[k] \in Nat /\ g[k] \in Nat /\ h[k] \in Nat
                   /\ f[k] <= h[k] /\ g[k] <= h[k]
                   /\ (h[k] = f[k] \/ h[k] = g[k])
  OBVIOUS
<1>2. ASSUME NEW e \in F \cup G PROVE e.val <= h[e.key]
  <2>1. e.key \in K /\ e.val \in Nat
    OBVIOUS
  <2>2. e.val <= f[e.key] \/ e.val <= g[e.key]
    BY DEF MaxTable
  <2> QED BY <1>1, <2>1, <2>2
<1>3. ASSUME NEW k \in K
      PROVE  h[k] = 0 \/ \E e \in F \cup G : e.key = k /\ e.val = h[k]
  <2>1. CASE h[k] = f[k]
    BY <2>1 DEF MaxTable
  <2>2. CASE h[k] = g[k]
    BY <2>2 DEF MaxTable
  <2> QED BY <1>1, <2>1, <2>2
<1>4. DOMAIN h = K
  OBVIOUS
<1> QED BY <1>2, <1>3, <1>4 DEF MaxTable

\* Raising one key to a value not below its own, and logging that value.
LEMMA RaisedMax ==
  ASSUME NEW K, NEW f \in [K -> Nat], NEW F, NEW h \in [K -> Nat], NEW L,
         \A e \in F \cup L : e.key \in K /\ e.val \in Nat,
         MaxTable(f, F),
         \A e \in L : e.val <= h[e.key],
         \A k \in K : f[k] <= h[k],
         \A k \in K : h[k] = f[k] \/ \E e \in L : e.key = k /\ e.val = h[k]
  PROVE  MaxTable(h, F \cup L)
<1>1. ASSUME NEW e \in F \cup L PROVE e.val <= h[e.key]
  <2>1. CASE e \in L
    BY <2>1
  <2>2. CASE e \in F
    <3>1. e.key \in K /\ e.val \in Nat /\ e.val <= f[e.key]
      BY <2>2 DEF MaxTable
    <3>2. f[e.key] \in Nat /\ h[e.key] \in Nat /\ f[e.key] <= h[e.key]
      BY <3>1
    <3> QED BY <3>1, <3>2
  <2> QED BY <2>1, <2>2
<1>2. ASSUME NEW k \in K
      PROVE  h[k] = 0 \/ \E e \in F \cup L : e.key = k /\ e.val = h[k]
  <2>1. CASE h[k] = f[k]
    BY <2>1 DEF MaxTable
  <2>2. CASE \E e \in L : e.key = k /\ e.val = h[k]
    BY <2>2
  <2> QED BY <2>1, <2>2
<1>3. DOMAIN h = K
  OBVIOUS
<1> QED BY <1>1, <1>2, <1>3 DEF MaxTable

\* A table is determined by its log.
LEMMA SameLogSameTable ==
  ASSUME NEW K, NEW f \in [K -> Nat], NEW g \in [K -> Nat], NEW F,
         \A e \in F : e.key \in K /\ e.val \in Nat,
         MaxTable(f, F), MaxTable(g, F)
  PROVE  f = g
<1>1. ASSUME NEW k \in K PROVE f[k] <= g[k] /\ g[k] <= f[k]
  <2>1. f[k] \in Nat /\ g[k] \in Nat
    OBVIOUS
  <2>2. f[k] = 0 \/ f[k] <= g[k]
    BY DEF MaxTable
  <2>3. g[k] = 0 \/ g[k] <= f[k]
    BY DEF MaxTable
  <2> QED BY <2>1, <2>2, <2>3
<1>2. ASSUME NEW k \in K PROVE f[k] = g[k]
  <2>1. f[k] \in Nat /\ g[k] \in Nat
    OBVIOUS
  <2> QED BY <1>1, <2>1
<1> QED BY <1>2

-----------------------------------------------------------------------------

\* The parts of a state and their types.
LEMMA StateParts ==
  ASSUME NEW x \in States
  PROVE  /\ x.hllsets \in [Seed -> SUBSET Bit] /\ x.node \subseteq Token
         /\ x.tf \in [Token -> Nat]
         /\ \A e \in x.heard : e.key \in Token /\ e.val \in Nat /\ e.val # 0
         /\ x.heard \subseteq Event
         /\ x.follow.weight \in [Transition -> Nat]
         /\ x.follow.cells \subseteq Transition
         /\ x.follow = [weight |-> x.follow.weight, cells |-> x.follow.cells]
         /\ x.seen \subseteq [key : Transition, val : Nat]
         /\ \A e \in x.seen : e.key \in Transition /\ e.val \in Nat
         /\ x.bits \in [Bit -> Nat]
         /\ x.counted \subseteq [key : Bit, val : Nat]
         /\ \A e \in x.counted : e.key \in Bit /\ e.val \in Nat
         /\ x = [hllsets |-> x.hllsets, node |-> x.node, tf |-> x.tf,
                 heard |-> x.heard, follow |-> x.follow, seen |-> x.seen,
                 bits |-> x.bits, counted |-> x.counted]
  BY DEF States, Event

\* An ingested token keeps a state explained by its observations.
LEMMA TouchedExplained ==
  ASSUME NEW x \in States, NEW r \in Replica, NEW t \in Token, Explained(x)
  PROVE  /\ Touched(x, r, t) \in States
         /\ Explained(Touched(x, r, t))
         /\ Touched(x, r, t).tf = Increment(x.tf, t)
         /\ Touched(x, r, t).bits = x.bits
<1> DEFINE y == Touched(x, r, t)
           e == [who |-> r, key |-> t, val |-> x.tf[t] + 1]
<1>1. /\ x.tf \in [Token -> Nat] /\ x.heard \subseteq Event /\ x.node \subseteq Token
      /\ x.hllsets \in [Seed -> SUBSET Bit]
      /\ \A d \in x.heard : d.key \in Token /\ d.val \in Nat
  BY StateParts
<1>2. e \in Event /\ e.key = t /\ e.val = x.tf[t] + 1
  BY <1>1 DEF Event
<1>3. /\ y.hllsets = [s \in Seed |-> x.hllsets[s] \cup {Position[s][t]}]
      /\ y.node = x.node \cup {t}
      /\ y.tf = [x.tf EXCEPT ![t] = x.tf[t] + 1]
      /\ y.heard = x.heard \cup {e}
      /\ y.tf = Increment(x.tf, t)
      /\ y.follow = x.follow /\ y.seen = x.seen
      /\ y.bits = x.bits /\ y.counted = x.counted
  BY <1>1, StateParts DEF Touched, Increment, SetAtom
<1>4. y = [hllsets |-> y.hllsets, node |-> y.node, tf |-> y.tf, heard |-> y.heard,
           follow |-> y.follow, seen |-> y.seen, bits |-> y.bits,
           counted |-> y.counted]
  BY StateParts DEF Touched
<1> HIDE DEF y, e
<1>5. y.tf \in [Token -> Nat]
  BY <1>1, <1>3
<1>6. y.hllsets \in [Seed -> SUBSET Bit]
  BY <1>1, <1>3, PositionIsHash
<1>7. y \in States
  BY <1>1, <1>2, <1>3, <1>4, <1>5, <1>6 DEF States
<1>8. y.node = {d.key : d \in y.heard}
  BY <1>2, <1>3 DEF Explained
<1>9. \A s \in Seed : y.hllsets[s] = FromTokens(s, y.node)
  BY <1>1, <1>3 DEF Explained, FromTokens
<1>10. MaxTable(y.tf, x.heard \cup {e})
  <2>1. \A d \in x.heard \cup {e} : d.key \in Token /\ d.val \in Nat
    BY <1>1, <1>2
  <2>2. e.val <= y.tf[e.key]
    BY <1>1, <1>2, <1>3
  <2>3. \A u \in Token : x.tf[u] <= y.tf[u]
    BY <1>1, <1>3
  <2>4. \A u \in Token : y.tf[u] = x.tf[u] \/ (e.key = u /\ e.val = y.tf[u])
    BY <1>1, <1>2, <1>3
  <2>5. MaxTable(x.tf, x.heard)
    BY DEF Explained
  <2> HIDE DEF MaxTable
  <2> QED BY <1>1, <1>5, <2>1, <2>2, <2>3, <2>4, <2>5, RaisedMax
<1>11. Explained(y)
  BY <1>3, <1>8, <1>9, <1>10 DEF Explained
<1> QED BY <1>3, <1>7, <1>11 DEF y

\* So does an observed transition, whatever its weight.
LEMMA NotedExplained ==
  ASSUME NEW x \in States, NEW p \in Transition, NEW w \in Nat, Explained(x)
  PROVE  /\ Noted(x, p, w) \in States
         /\ Explained(Noted(x, p, w))
         /\ Noted(x, p, w).tf = x.tf
         /\ Noted(x, p, w).bits = x.bits
<1> DEFINE y == Noted(x, p, w)
           e == [key |-> p, val |-> w]
           f == x.follow.weight
           g == y.follow.weight
<1>1. /\ f \in [Transition -> Nat] /\ x.follow.cells \subseteq Transition
      /\ x.seen \subseteq [key : Transition, val : Nat]
      /\ \A d \in x.seen : d.key \in Transition /\ d.val \in Nat
  BY StateParts
<1>2. e \in [key : Transition, val : Nat] /\ e.key = p /\ e.val = w
  OBVIOUS
<1>3. /\ g = [f EXCEPT ![p] = IF w > f[p] THEN w ELSE f[p]]
      /\ y.follow = [weight |-> g, cells |-> x.follow.cells \cup {p}]
      /\ y.seen = x.seen \cup {e}
      /\ y.hllsets = x.hllsets /\ y.node = x.node /\ y.tf = x.tf
      /\ y.heard = x.heard /\ y.bits = x.bits /\ y.counted = x.counted
      /\ y = [hllsets |-> y.hllsets, node |-> y.node, tf |-> y.tf,
              heard |-> y.heard, follow |-> y.follow, seen |-> y.seen,
              bits |-> y.bits, counted |-> y.counted]
  BY StateParts DEF Noted, Observe
<1> HIDE DEF y, e, g
<1>4. g \in [Transition -> Nat]
  BY <1>1, <1>3
<1>5. y \in States
  BY <1>1, <1>2, <1>3, <1>4 DEF States
<1>6. MaxTable(g, x.seen \cup {e})
  <2>1. \A d \in x.seen \cup {e} : d.key \in Transition /\ d.val \in Nat
    BY <1>1, <1>2
  <2>2. e.val <= g[e.key]
    BY <1>1, <1>2, <1>3
  <2>3. \A k \in Transition : f[k] <= g[k]
    BY <1>1, <1>3
  <2>4. \A k \in Transition : g[k] = f[k] \/ (e.key = k /\ e.val = g[k])
    BY <1>1, <1>2, <1>3
  <2>5. MaxTable(f, x.seen)
    BY DEF Explained
  <2> QED BY <1>1, <1>4, <2>1, <2>2, <2>3, <2>4, <2>5, RaisedMax
<1>7. y.follow.cells = {d.key : d \in y.seen} /\ y.follow.weight = g
  BY <1>2, <1>3 DEF Explained
<1>8. Explained(y)
  BY <1>3, <1>6, <1>7 DEF Explained
<1> QED BY <1>3, <1>5, <1>8 DEF y

\* So does a sketch counted into the TF vector.
LEMMA CountedExplained ==
  ASSUME NEW x \in States, NEW H \in SUBSET Bit, Explained(x)
  PROVE  /\ Counted(x, H) \in States
         /\ Explained(Counted(x, H))
         /\ Counted(x, H).tf = x.tf
         /\ Counted(x, H).bits = CountBits(x.bits, H)
<1> DEFINE y == Counted(x, H)
           L == {[key |-> i, val |-> y.bits[i]] : i \in H}
<1>1. /\ x.bits \in [Bit -> Nat]
      /\ x.counted \subseteq [key : Bit, val : Nat]
      /\ \A d \in x.counted : d.key \in Bit /\ d.val \in Nat
  BY StateParts
<1>2. /\ y.bits = CountBits(x.bits, H)
      /\ y.counted = x.counted \cup L
      /\ y.hllsets = x.hllsets /\ y.node = x.node /\ y.tf = x.tf
      /\ y.heard = x.heard /\ y.follow = x.follow /\ y.seen = x.seen
      /\ y = [hllsets |-> y.hllsets, node |-> y.node, tf |-> y.tf,
              heard |-> y.heard, follow |-> y.follow, seen |-> y.seen,
              bits |-> y.bits, counted |-> y.counted]
  BY StateParts DEF Counted
<1> HIDE DEF y
<1>3. /\ y.bits \in [Bit -> Nat]
      /\ \A i \in Bit : y.bits[i] = IF i \in H THEN x.bits[i] + 1 ELSE x.bits[i]
  BY <1>1, <1>2 DEF CountBits
<1>4. L \subseteq [key : Bit, val : Nat]
  BY <1>3
<1>5. /\ \A d \in L : d.key \in H /\ d.val = y.bits[d.key]
      /\ \A i \in H : \E d \in L : d.key = i /\ d.val = y.bits[i]
  <2>1. ASSUME NEW d \in L PROVE d.key \in H /\ d.val = y.bits[d.key]
    <3>1. PICK i \in H : d = [key |-> i, val |-> y.bits[i]]
      OBVIOUS
    <3> QED BY <3>1
  <2>2. ASSUME NEW i \in H PROVE \E d \in L : d.key = i /\ d.val = y.bits[i]
    <3>1. [key |-> i, val |-> y.bits[i]] \in L
      OBVIOUS
    <3> HIDE DEF L
    <3> QED BY <3>1
  <2> QED BY <2>1, <2>2
<1> HIDE DEF L
<1>6. y \in States
  BY <1>1, <1>2, <1>3, <1>4 DEF States
<1>7. MaxTable(y.bits, x.counted \cup L)
  <2>1. \A d \in x.counted \cup L : d.key \in Bit /\ d.val \in Nat
    BY <1>1, <1>4
  <2>2. \A d \in L : d.val <= y.bits[d.key]
    BY <1>3, <1>5
  <2>3. \A i \in Bit : x.bits[i] <= y.bits[i]
    BY <1>1, <1>3
  <2>4. \A i \in Bit : y.bits[i] = x.bits[i]
                       \/ \E d \in L : d.key = i /\ d.val = y.bits[i]
    BY <1>3, <1>5
  <2>5. MaxTable(x.bits, x.counted)
    BY DEF Explained
  <2> QED BY <1>1, <1>3, <2>1, <2>2, <2>3, <2>4, <2>5, RaisedMax
<1>8. Explained(y)
  BY <1>2, <1>7 DEF Explained
<1> QED BY <1>2, <1>6, <1>8 DEF y

\* The join takes, for each key, the greater of two counts.
LEMMA MergedTf ==
  ASSUME NEW f \in [Token -> Nat], NEW g \in [Token -> Nat]
  PROVE  /\ MergeTf(f, g) \in [Token -> Nat]
         /\ \A t \in Token :
              /\ MergeTf(f, g)[t] = IF g[t] > f[t] THEN g[t] ELSE f[t]
              /\ f[t] <= MergeTf(f, g)[t] /\ g[t] <= MergeTf(f, g)[t]
              /\ MergeTf(f, g)[t] \in {f[t], g[t]}
  BY DEF MergeTf

LEMMA MergedVec ==
  ASSUME NEW v \in [Bit -> Nat], NEW w \in [Bit -> Nat]
  PROVE  /\ MergeVec(v, w) \in [Bit -> Nat]
         /\ \A i \in Bit :
              /\ MergeVec(v, w)[i] = IF w[i] > v[i] THEN w[i] ELSE v[i]
              /\ MergeVec(v, w)[i] \in {v[i], w[i]}
  BY DEF MergeVec

\* The join of two explained states is explained, by the observations of both.
LEMMA JoinExplained ==
  ASSUME NEW x \in States, NEW y \in States, Explained(x), Explained(y)
  PROVE  Join(x, y) \in States /\ Explained(Join(x, y))
<1> DEFINE z == Join(x, y)
           f == MergeFollow(x.follow, y.follow)
<1>1. /\ x.hllsets \in [Seed -> SUBSET Bit] /\ x.node \subseteq Token
      /\ y.hllsets \in [Seed -> SUBSET Bit] /\ y.node \subseteq Token
      /\ x.heard \subseteq Event /\ y.heard \subseteq Event
      /\ x.follow.cells \subseteq Transition /\ y.follow.cells \subseteq Transition
      /\ x.seen \subseteq [key : Transition, val : Nat]
      /\ y.seen \subseteq [key : Transition, val : Nat]
      /\ x.counted \subseteq [key : Bit, val : Nat]
      /\ y.counted \subseteq [key : Bit, val : Nat]
  BY StateParts
<1>2. /\ x.tf \in [Token -> Nat] /\ y.tf \in [Token -> Nat]
      /\ x.follow.weight \in [Transition -> Nat]
      /\ y.follow.weight \in [Transition -> Nat]
      /\ x.bits \in [Bit -> Nat] /\ y.bits \in [Bit -> Nat]
      /\ \A e \in x.heard \cup y.heard : e.key \in Token /\ e.val \in Nat
      /\ \A e \in x.seen \cup y.seen : e.key \in Transition /\ e.val \in Nat
      /\ \A e \in x.counted \cup y.counted : e.key \in Bit /\ e.val \in Nat
  BY StateParts
<1>3. /\ z.hllsets = [s \in Seed |-> x.hllsets[s] \cup y.hllsets[s]]
      /\ z.node = x.node \cup y.node
      /\ z.tf = MergeTf(x.tf, y.tf)
      /\ z.heard = x.heard \cup y.heard
      /\ z.follow = f
      /\ z.seen = x.seen \cup y.seen
      /\ z.bits = MergeVec(x.bits, y.bits)
      /\ z.counted = x.counted \cup y.counted
      /\ z = [hllsets |-> z.hllsets, node |-> z.node, tf |-> z.tf,
              heard |-> z.heard, follow |-> z.follow, seen |-> z.seen,
              bits |-> z.bits, counted |-> z.counted]
  BY DEF Join
<1>4. /\ f.weight \in [Transition -> Nat]
      /\ f.cells = x.follow.cells \cup y.follow.cells
      /\ f = [weight |-> f.weight, cells |-> f.cells]
      /\ \A p \in Transition :
           f.weight[p] = IF y.follow.weight[p] > x.follow.weight[p]
                           THEN y.follow.weight[p] ELSE x.follow.weight[p]
  BY <1>2 DEF MergeFollow
<1> HIDE DEF z, f
<1>5. /\ z.tf \in [Token -> Nat]
      /\ \A t \in Token : z.tf[t] = IF y.tf[t] > x.tf[t] THEN y.tf[t] ELSE x.tf[t]
  BY <1>2, <1>3, MergedTf
<1>6. /\ z.bits \in [Bit -> Nat]
      /\ \A i \in Bit :
           z.bits[i] = IF y.bits[i] > x.bits[i] THEN y.bits[i] ELSE x.bits[i]
  BY <1>2, <1>3, MergedVec
<1>7. z \in States
  <2>1. z.hllsets \in [Seed -> SUBSET Bit] /\ z.node \in SUBSET Token
        /\ z.heard \in SUBSET Event
    BY <1>1, <1>3
  <2>2. z.follow \in [weight : [Transition -> Nat], cells : SUBSET Transition]
    BY <1>1, <1>3, <1>4
  <2>3. /\ z.seen \in SUBSET [key : Transition, val : Nat]
        /\ z.counted \in SUBSET [key : Bit, val : Nat]
    BY <1>1, <1>3
  <2> QED BY <1>3, <1>5, <1>6, <2>1, <2>2, <2>3 DEF States
<1>8. z.node = {e.key : e \in z.heard}
  BY <1>3 DEF Explained
<1>9. \A s \in Seed : z.hllsets[s] = FromTokens(s, z.node)
  BY <1>1, <1>3 DEF Explained, FromTokens
<1>10. MaxTable(z.tf, z.heard)
  <2>1. MaxTable(x.tf, x.heard) /\ MaxTable(y.tf, y.heard)
    BY DEF Explained
  <2>2. /\ x.tf \in [Token -> Nat] /\ y.tf \in [Token -> Nat]
        /\ \A e \in x.heard \cup y.heard : e.key \in Token /\ e.val \in Nat
    BY <1>2
  <2>3. MaxTable(z.tf, x.heard \cup y.heard)
    BY <1>5, <2>1, <2>2, JoinedMax
  <2> QED BY <1>3, <2>3
<1>11. z.follow.cells = {e.key : e \in z.seen}
  BY <1>3, <1>4 DEF Explained
<1>12. MaxTable(z.follow.weight, z.seen)
  <2> DEFINE u == x.follow.weight
             v == y.follow.weight
             w == z.follow.weight
             F == x.seen
             G == y.seen
  <2>1. /\ w \in [Transition -> Nat]
        /\ \A p \in Transition : w[p] = IF v[p] > u[p] THEN v[p] ELSE u[p]
    BY <1>3, <1>4
  <2>2. MaxTable(u, F) /\ MaxTable(v, G)
    BY DEF Explained
  <2>3. /\ u \in [Transition -> Nat] /\ v \in [Transition -> Nat]
        /\ \A e \in F \cup G : e.key \in Transition /\ e.val \in Nat
    BY <1>2
  <2> HIDE DEF u, v, w, F, G
  <2>4. MaxTable(w, F \cup G)
    BY <2>1, <2>2, <2>3, JoinedMax
  <2> QED BY <1>3, <2>4 DEF w, F, G
<1>13. MaxTable(z.bits, z.counted)
  <2>1. MaxTable(x.bits, x.counted) /\ MaxTable(y.bits, y.counted)
    BY DEF Explained
  <2>2. /\ x.bits \in [Bit -> Nat] /\ y.bits \in [Bit -> Nat]
        /\ \A e \in x.counted \cup y.counted : e.key \in Bit /\ e.val \in Nat
    BY <1>2
  <2>3. MaxTable(z.bits, x.counted \cup y.counted)
    BY <1>6, <2>1, <2>2, JoinedMax
  <2> QED BY <1>3, <2>3
<1>14. Explained(z)
  BY <1>8, <1>9, <1>10, <1>11, <1>12, <1>13 DEF Explained
<1> QED BY <1>7, <1>14 DEF z

LEMMA EmptyExplained == Empty \in States /\ Explained(Empty)
<1>1. Empty \in States
  BY DEF Empty, States, NoTf, NoFollow, NoBits
<1>2. MaxTable(NoTf, {}) /\ MaxTable(NoFollow.weight, {}) /\ MaxTable(NoBits, {})
  BY DEF MaxTable, NoTf, NoFollow, NoBits
<1>3. Explained(Empty)
  BY <1>2 DEF Empty, Explained, FromTokens, NoFollow
<1> QED BY <1>1, <1>3

-----------------------------------------------------------------------------

LEMMA InitReplicas == Init => ReplicasInv
<1> SUFFICES ASSUME Init PROVE ReplicasInv
  OBVIOUS
<1>1. TypeOK
  BY EmptyExplained DEF Init, TypeOK, NoTf
<1>2. \A r \in Replica : Explained(rep[r])
  BY EmptyExplained DEF Init
<1>3. /\ \A r \in Replica, t \in Token :
           rep[r].tf[t] = 0 /\ total[t] = 0 /\ own[r][t] = 0
      /\ \A r \in Replica, i \in Bit : rep[r].bits[i] = 0
      /\ notes = 0
  BY DEF Init, Empty, NoTf, NoBits
<1> QED
  BY <1>1, <1>2, <1>3 DEF ReplicasInv, NotOvercounted, Init

LEMMA StepReplicas == ReplicasInv /\ [Next]_vars => ReplicasInv'
<1> SUFFICES ASSUME ReplicasInv, [Next]_vars PROVE ReplicasInv'
  OBVIOUS
<1>t. /\ rep \in [Replica -> States] /\ net \subseteq States
      /\ own \in [Replica -> [Token -> Nat]] /\ total \in [Token -> Nat]
      /\ notes \in Nat /\ crashes \in Nat
  BY DEF ReplicasInv, TypeOK
<1>f. \A x \in States : x.tf \in [Token -> Nat] /\ x.bits \in [Bit -> Nat]
  BY DEF States
<1>m. \A x \in net : x \in States /\ Explained(x) /\ NotOvercounted(x)
  BY <1>t DEF ReplicasInv
<1>1. ASSUME NEW r \in Replica, NEW t \in Token, Ingest(r, t)
      PROVE  ReplicasInv'
  <2> DEFINE y == Touched(rep[r], r, t)
  <2>1. y \in States /\ Explained(y) /\ y.tf = Increment(rep[r].tf, t)
        /\ y.bits = rep[r].bits
    BY <1>t, TouchedExplained DEF ReplicasInv
  <2>2. /\ rep' = [rep EXCEPT ![r] = y] /\ net' = net /\ crashes' = crashes
        /\ own' = [own EXCEPT ![r][t] = own[r][t] + 1]
        /\ total' = [total EXCEPT ![t] = total[t] + 1] /\ notes' = notes
    BY <1>1 DEF Ingest
  <2> HIDE DEF y
  <2>3. TypeOK'
    BY <2>1, <2>2, <1>t DEF TypeOK
  <2>4. \A u \in Token : total[u] <= total'[u]
    BY <2>2, <1>t
  <2>5. \A x \in States : NotOvercounted(x) => NotOvercounted(x)'
    BY <2>2, <2>3, <2>4, <1>f, <1>t DEF NotOvercounted, TypeOK
  <2>6. \A u \in Token : y.tf[u] <= total'[u]
    <3>1. rep[r].tf \in [Token -> Nat] /\ \A u \in Token : rep[r].tf[u] <= total[u]
      BY <1>f, <1>t DEF NotOvercounted, ReplicasInv
    <3> QED BY <3>1, <2>1, <2>2, <1>t DEF Increment
  <2>7. \A q \in Replica, u \in Token : own'[q][u] <= rep'[q].tf[u]
    BY <2>1, <2>2, <1>f, <1>t DEF ReplicasInv, Increment
  <2>8. \A q \in Replica : (Explained(rep[q]) /\ NotOvercounted(rep[q]))'
    <3> TAKE q \in Replica
    <3>1. rep'[q] = (IF q = r THEN y ELSE rep[q])
      BY <2>2, <1>t
    <3>2. Explained(rep'[q])
      BY <3>1, <2>1 DEF ReplicasInv
    <3>3. NotOvercounted(rep[q])'
      <4>1. CASE q = r
        BY <4>1, <3>1, <2>1, <2>2, <2>6 DEF ReplicasInv, NotOvercounted
      <4>2. CASE q # r
        BY <4>2, <3>1, <2>5, <1>t DEF ReplicasInv, NotOvercounted
      <4> QED BY <4>1, <4>2
    <3> QED BY <3>2, <3>3 DEF Explained
  <2>9. \A m \in net' : (Explained(m) /\ NotOvercounted(m))'
    BY <2>2, <2>5, <1>t DEF ReplicasInv, Explained
  <2> QED BY <2>3, <2>7, <2>8, <2>9 DEF ReplicasInv
<1>2. ASSUME NEW r \in Replica, Send(r)
      PROVE  ReplicasInv'
  BY <1>2, <1>t DEF Send, ReplicasInv, TypeOK, Explained, NotOvercounted
<1>3. ASSUME NEW r \in Replica, Deliver(r)
      PROVE  ReplicasInv'
  <2>1. PICK m \in net : rep' = [rep EXCEPT ![r] = Join(rep[r], m)]
    BY <1>3 DEF Deliver
  <2> DEFINE y == Join(rep[r], m)
  <2>2. y \in States /\ Explained(y)
    BY <1>t, JoinExplained DEF ReplicasInv
  <2>3. UNCHANGED <<net, own, total, notes, crashes>>
    BY <1>3 DEF Deliver
  <2>4. y.tf = MergeTf(rep[r].tf, m.tf)
    BY DEF Join
  <2> HIDE DEF y
  <2>4a. rep[r].tf \in [Token -> Nat] /\ m.tf \in [Token -> Nat]
    BY <1>t, <1>f
  <2>5. \A t \in Token : /\ rep[r].tf[t] <= y.tf[t]
                         /\ y.tf[t] \in {rep[r].tf[t], m.tf[t]}
                         /\ y.tf[t] \in Nat
    BY <2>4, <2>4a, MergedTf
  <2>6. rep' = [rep EXCEPT ![r] = y]
    BY <2>1 DEF y
  <2>7. TypeOK'
    BY <2>2, <2>3, <2>6, <1>t DEF TypeOK
  <2>8. NotOvercounted(y)
    <3>1. rep[r].bits \in [Bit -> Nat] /\ m.bits \in [Bit -> Nat]
      BY <1>t, <1>f
    <3>2. y.bits = MergeVec(rep[r].bits, m.bits)
      BY DEF y, Join
    <3>3. \A i \in Bit : y.bits[i] <= notes
      BY <3>1, <3>2, MergedVec DEF NotOvercounted, ReplicasInv
    <3> QED BY <2>5, <3>3 DEF NotOvercounted, ReplicasInv
  <2>9. \A q \in Replica : (Explained(rep[q]) /\ NotOvercounted(rep[q]))'
    <3> TAKE q \in Replica
    <3>1. rep'[q] = (IF q = r THEN y ELSE rep[q])
      BY <2>6, <1>t
    <3>2. Explained(rep'[q])
      BY <3>1, <2>2 DEF ReplicasInv
    <3>3. NotOvercounted(rep[q])'
      BY <3>1, <2>3, <2>8 DEF ReplicasInv, NotOvercounted
    <3> QED BY <3>2, <3>3 DEF Explained
  <2>10. \A q \in Replica, t \in Token : (own[q][t] <= rep[q].tf[t])'
    <3> TAKE q \in Replica, t \in Token
    <3>1. own[q][t] \in Nat /\ own[q][t] <= rep[q].tf[t] /\ rep[q].tf[t] \in Nat
      BY <1>t, <1>f DEF ReplicasInv
    <3>2. rep[q].tf[t] <= rep'[q].tf[t] /\ rep'[q].tf[t] \in Nat
      BY <2>5, <2>6, <1>t, <3>1
    <3> QED BY <3>1, <3>2, <2>3
  <2>11. \A n \in net' : (Explained(n) /\ NotOvercounted(n))'
    BY <2>3 DEF ReplicasInv, Explained, NotOvercounted
  <2> QED BY <2>7, <2>9, <2>10, <2>11 DEF ReplicasInv
<1>4. ASSUME NEW r \in Replica, Crash(r)
      PROVE  ReplicasInv'
  <2>1. /\ rep' = [rep EXCEPT ![r] = Empty] /\ own' = [own EXCEPT ![r] = NoTf]
        /\ crashes' = crashes + 1 /\ net' = net /\ total' = total
        /\ notes' = notes
    BY <1>4 DEF Crash
  <2>2. /\ Empty.tf = NoTf /\ NoTf \in [Token -> Nat] /\ \A t \in Token : NoTf[t] = 0
        /\ \A i \in Bit : Empty.bits[i] = 0
    BY DEF Empty, NoTf, NoBits
  <2>3. TypeOK'
    BY <2>1, <2>2, <1>t, EmptyExplained DEF TypeOK
  <2>4. \A q \in Replica : (Explained(rep[q]) /\ NotOvercounted(rep[q]))'
    <3> TAKE q \in Replica
    <3>1. rep'[q] = (IF q = r THEN Empty ELSE rep[q])
      BY <2>1, <1>t
    <3>2. Explained(rep'[q])
      BY <3>1, EmptyExplained DEF ReplicasInv
    <3>3. NotOvercounted(rep[q])'
      BY <3>1, <2>1, <2>2, <1>t DEF ReplicasInv, NotOvercounted
    <3> QED BY <3>2, <3>3 DEF Explained
  <2>5. \A q \in Replica, t \in Token : (own[q][t] <= rep[q].tf[t])'
    BY <2>1, <2>2, <1>t, <1>f DEF ReplicasInv
  <2>6. \A m \in net' : (Explained(m) /\ NotOvercounted(m))'
    BY <2>1 DEF ReplicasInv, Explained, NotOvercounted
  <2> QED BY <2>3, <2>4, <2>5, <2>6 DEF ReplicasInv
<1>6. ASSUME NEW r \in Replica, NEW y \in States, Explained(y), y.tf = rep[r].tf,
             \A i \in Bit : y.bits[i] <= notes + 1,
             rep' = [rep EXCEPT ![r] = y], notes' = notes + 1,
             UNCHANGED <<net, own, total, crashes>>
      PROVE  ReplicasInv'
  <2>1. TypeOK'
    BY <1>6, <1>t DEF TypeOK
  <2>2. \A x \in States : NotOvercounted(x) => NotOvercounted(x)'
    BY <1>6, <1>f, <1>t DEF NotOvercounted
  <2>3. \A q \in Replica : (Explained(rep[q]) /\ NotOvercounted(rep[q]))'
    <3> TAKE q \in Replica
    <3>1. rep'[q] = (IF q = r THEN y ELSE rep[q])
      BY <1>6, <1>t
    <3>2. Explained(rep'[q])
      BY <3>1, <1>6 DEF ReplicasInv
    <3>3. CASE q = r
      BY <3>1, <3>2, <3>3, <1>6 DEF ReplicasInv, NotOvercounted, Explained
    <3>4. CASE q # r
      <4>1. rep'[q] = rep[q] /\ rep[q] \in States /\ NotOvercounted(rep[q])
        BY <3>1, <3>4, <1>t DEF ReplicasInv
      <4>2. NotOvercounted(rep[q])'
        BY <4>1, <2>2, <1>6, <1>f, <1>t DEF NotOvercounted
      <4> QED BY <3>2, <4>2 DEF Explained
    <3> QED BY <3>3, <3>4
  <2>4. \A q \in Replica, t \in Token : (own[q][t] <= rep[q].tf[t])'
    BY <1>6, <1>t DEF ReplicasInv
  <2>5. \A m \in net' : (Explained(m) /\ NotOvercounted(m))'
    BY <1>6, <1>m, <2>2 DEF Explained
  <2> QED BY <2>1, <2>3, <2>4, <2>5 DEF ReplicasInv
<1>7. ASSUME NEW r \in Replica, ObserveTransition(r)
      PROVE  ReplicasInv'
  <2>1. PICK p \in Bigrams, w \in Weight :
          rep' = [rep EXCEPT ![r] = Noted(rep[r], p, w)]
    BY <1>7 DEF ObserveTransition
  <2>2. p \in Transition /\ w \in Nat /\ rep[r] \in States /\ Explained(rep[r])
    BY <1>t, NotesAreWeighted DEF ReplicasInv
  <2>3. /\ Noted(rep[r], p, w) \in States /\ Explained(Noted(rep[r], p, w))
        /\ Noted(rep[r], p, w).tf = rep[r].tf
        /\ Noted(rep[r], p, w).bits = rep[r].bits
    BY <2>2, NotedExplained
  <2>4. \A i \in Bit : rep[r].bits[i] <= notes + 1
    BY <1>t, <1>f DEF ReplicasInv, NotOvercounted
  <2> QED BY <1>6, <1>7, <2>1, <2>3, <2>4 DEF ObserveTransition
<1>8. ASSUME NEW r \in Replica, CountSketch(r)
      PROVE  ReplicasInv'
  <2>1. PICK s \in Seed : rep' = [rep EXCEPT ![r] = Counted(rep[r], rep[r].hllsets[s])]
    BY <1>8 DEF CountSketch
  <2>2. /\ rep[r] \in States /\ Explained(rep[r])
        /\ rep[r].hllsets[s] \in SUBSET Bit /\ rep[r].bits \in [Bit -> Nat]
    <3>1. rep[r] \in States /\ Explained(rep[r])
      BY <1>t DEF ReplicasInv
    <3>2. rep[r].hllsets \in [Seed -> SUBSET Bit] /\ rep[r].bits \in [Bit -> Nat]
      BY <3>1, StateParts
    <3> QED BY <3>1, <3>2
  <2> DEFINE y == Counted(rep[r], rep[r].hllsets[s])
  <2>3. /\ y \in States /\ Explained(y) /\ y.tf = rep[r].tf
        /\ y.bits = CountBits(rep[r].bits, rep[r].hllsets[s])
    BY <2>2, CountedExplained
  <2>4. \A i \in Bit : y.bits[i] <= notes + 1
    <3>1. \A i \in Bit : rep[r].bits[i] \in Nat /\ rep[r].bits[i] <= notes
      BY <2>2 DEF ReplicasInv, NotOvercounted
    <3> HIDE DEF y
    <3>2. \A i \in Bit : y.bits[i] = rep[r].bits[i] \/ y.bits[i] = rep[r].bits[i] + 1
      BY <2>3 DEF CountBits
    <3> QED BY <3>1, <3>2, <1>t
  <2> HIDE DEF y
  <2>5. rep' = [rep EXCEPT ![r] = y]
    BY <2>1 DEF y
  <2> QED BY <1>6, <1>8, <2>3, <2>4, <2>5 DEF CountSketch
<1>5. CASE UNCHANGED vars
  BY <1>5 DEF vars, ReplicasInv, TypeOK, Explained, NotOvercounted
<1> QED
  BY <1>1, <1>2, <1>3, <1>4, <1>5, <1>7, <1>8 DEF Next

\* Every state and snapshot is the join of what its observations led to.
THEOREM ReplicasInvHolds == Spec => []ReplicasInv
  BY InitReplicas, StepReplicas, PTL DEF Spec

\* Strong eventual consistency: what a replica holds is a function of the
\* observations it has heard of, for the sketches with their LUT node and TF,
\* for the follow matrix and for the TF vector.
THEOREM Convergence == Spec => []Converged
<1>1. ASSUME NEW x \in States, NEW y \in States, Explained(x), Explained(y)
      PROVE  /\ x.heard = y.heard =>
                  x.hllsets = y.hllsets /\ x.node = y.node /\ x.tf = y.tf
             /\ x.seen = y.seen => x.follow = y.follow
             /\ x.counted = y.counted => x.bits = y.bits
  <2>1. ASSUME x.heard = y.heard
        PROVE  x.hllsets = y.hllsets /\ x.node = y.node /\ x.tf = y.tf
    <3>1. x.node = y.node
      BY <1>1, <2>1 DEF Explained
    <3>2. \A s \in Seed : x.hllsets[s] = y.hllsets[s]
      BY <1>1, <3>1 DEF Explained
    <3>3. x.hllsets \in [Seed -> SUBSET Bit] /\ y.hllsets \in [Seed -> SUBSET Bit]
      BY StateParts
    <3>4. x.hllsets = y.hllsets
      BY <3>2, <3>3
    <3>5. x.tf = y.tf
      <4>1. /\ x.tf \in [Token -> Nat] /\ y.tf \in [Token -> Nat]
            /\ \A e \in x.heard : e.key \in Token /\ e.val \in Nat
        BY StateParts
      <4>2. MaxTable(x.tf, x.heard) /\ MaxTable(y.tf, x.heard)
        BY <1>1, <2>1 DEF Explained
      <4> QED BY <4>1, <4>2, SameLogSameTable
    <3> QED BY <3>1, <3>4, <3>5
  <2>2. ASSUME x.seen = y.seen PROVE x.follow = y.follow
    <3> DEFINE u == x.follow.weight
               v == y.follow.weight
    <3>1. u \in [Transition -> Nat] /\ v \in [Transition -> Nat]
      BY StateParts
    <3>2. \A e \in x.seen : e.key \in Transition /\ e.val \in Nat
      BY StateParts
    <3>3. MaxTable(u, x.seen) /\ MaxTable(v, x.seen)
      BY <1>1, <2>2 DEF Explained
    <3> HIDE DEF u, v
    <3>4. u = v
      BY <3>1, <3>2, <3>3, SameLogSameTable
    <3>5. x.follow.cells = y.follow.cells
      BY <1>1, <2>2 DEF Explained
    <3> QED BY <3>4, <3>5, StateParts DEF u, v
  <2>3. ASSUME x.counted = y.counted PROVE x.bits = y.bits
    <3>1. /\ x.bits \in [Bit -> Nat] /\ y.bits \in [Bit -> Nat]
          /\ \A e \in x.counted : e.key \in Bit /\ e.val \in Nat
      BY StateParts
    <3>2. MaxTable(x.bits, x.counted) /\ MaxTable(y.bits, x.counted)
      BY <1>1, <2>3 DEF Explained
    <3> QED BY <3>1, <3>2, SameLogSameTable
  <2> QED BY <2>1, <2>2, <2>3
<1>2. ReplicasInv => Converged
  BY <1>1 DEF ReplicasInv, TypeOK, Converged
<1> QED
  BY <1>2, ReplicasInvHolds, PTL

\* Once no snapshot on the network changes a replica any more, all agree.
THEOREM Quiescence == Spec => []QuiescentMeansEqual
<1>1. ASSUME NEW x \in States, NEW y \in States, Join(x, y) = x, Join(y, x) = y
      PROVE  x.heard = y.heard /\ x.seen = y.seen /\ x.counted = y.counted
  <2>1. /\ Join(x, y).heard = x.heard \cup y.heard
        /\ Join(x, y).seen = x.seen \cup y.seen
        /\ Join(x, y).counted = x.counted \cup y.counted
    BY DEF Join
  <2>2. /\ Join(y, x).heard = y.heard \cup x.heard
        /\ Join(y, x).seen = y.seen \cup x.seen
        /\ Join(y, x).counted = y.counted \cup x.counted
    BY DEF Join
  <2> QED BY <1>1, <2>1, <2>2
<1>2. ASSUME TypeOK, Converged PROVE QuiescentMeansEqual
  <2> SUFFICES ASSUME \A r \in Replica : rep[r] \in net,
                      \A r \in Replica, m \in net : Join(rep[r], m) = rep[r],
                      NEW q \in Replica, NEW r \in Replica
               PROVE  rep[q] = rep[r]
    BY DEF QuiescentMeansEqual
  <2>1. rep[q] \in States /\ rep[r] \in States
    BY <1>2 DEF TypeOK
  <2>2. /\ rep[q].heard = rep[r].heard /\ rep[q].seen = rep[r].seen
        /\ rep[q].counted = rep[r].counted
    BY <1>1, <2>1
  <2>3. /\ rep[q].hllsets = rep[r].hllsets /\ rep[q].node = rep[r].node
        /\ rep[q].tf = rep[r].tf /\ rep[q].follow = rep[r].follow
        /\ rep[q].bits = rep[r].bits
    BY <1>2, <2>2 DEF Converged
  <2> QED BY <2>1, <2>2, <2>3, StateParts
<1>3. ReplicasInv => TypeOK
  BY DEF ReplicasInv
<1> QED
  BY <1>2, <1>3, ReplicasInvHolds, Convergence, PTL

\* No count is invented by merging, and none of a replica's own is lost.
THEOREM CountsBounded == Spec => []TfBounded
<1>1. ReplicasInv => TfBounded
  BY DEF ReplicasInv, TfBounded, NotOvercounted
<1> QED
  BY <1>1, ReplicasInvHolds, PTL

\* The merged sketches are the sketches of the merged LUT node.
THEOREM FinestSymmetry == Spec => []SketchMatchesNode
<1>1. ASSUME ReplicasInv, NEW r \in Replica
      PROVE  rep[r].node = {t \in Token : rep[r].tf[t] > 0}
  <2>1. rep[r] \in States /\ Explained(rep[r])
    BY <1>1 DEF ReplicasInv, TypeOK
  <2>2. /\ rep[r].node \subseteq Token /\ rep[r].tf \in [Token -> Nat]
        /\ \A e \in rep[r].heard : e.key \in Token /\ e.val \in Nat /\ e.val # 0
    BY <2>1, StateParts
  <2>3. ASSUME NEW t \in Token, t \in rep[r].node PROVE rep[r].tf[t] > 0
    <3>1. PICK e \in rep[r].heard : e.key = t
      BY <2>1, <2>3 DEF Explained
    <3>2. e.val <= rep[r].tf[t] /\ e.val \in Nat /\ e.val # 0
      BY <2>1, <2>2, <3>1 DEF Explained, MaxTable
    <3> QED BY <2>2, <3>2
  <2>4. ASSUME NEW t \in Token, t \notin rep[r].node PROVE ~(rep[r].tf[t] > 0)
    BY <2>1, <2>2, <2>4 DEF Explained, MaxTable
  <2> QED BY <2>2, <2>3, <2>4
<1>2. ReplicasInv => SketchMatchesNode
  BY <1>1 DEF ReplicasInv, SketchMatchesNode, Explained
<1> QED
  BY <1>2, ReplicasInvHolds, PTL

-----------------------------------------------------------------------------

\* "Lattice projection": restricting a follow matrix to a vocabulary commutes
\* with the join, so a replica may restrict before or after it merges; it is
\* idempotent and adds nothing.
THEOREM ProjectionIsLattice ==
  ASSUME NEW x \in States, NEW y \in States, NEW V \in SUBSET Token
  PROVE  /\ Projected(MergeFollow(x.follow, y.follow), V)
              = MergeFollow(Projected(x.follow, V), Projected(y.follow, V))
         /\ Projected(Projected(x.follow, V), V) = Projected(x.follow, V)
         /\ MergeFollow(x.follow, Projected(x.follow, V)) = x.follow
<1> DEFINE u == x.follow.weight
           v == y.follow.weight
<1>1. /\ u \in [Transition -> Nat] /\ v \in [Transition -> Nat]
      /\ x.follow = [weight |-> u, cells |-> x.follow.cells]
  BY StateParts
<1> HIDE DEF u, v
<1>2. /\ \A p \in Transition :
           (IF p \in V \X V THEN (IF v[p] > u[p] THEN v[p] ELSE u[p]) ELSE 0)
             = (IF (IF p \in V \X V THEN v[p] ELSE 0) > (IF p \in V \X V THEN u[p] ELSE 0)
                  THEN (IF p \in V \X V THEN v[p] ELSE 0)
                  ELSE (IF p \in V \X V THEN u[p] ELSE 0))
      /\ \A p \in Transition : (IF p \in V \X V THEN u[p] ELSE 0) > u[p] => FALSE
  BY <1>1
<1>3. Projected(MergeFollow(x.follow, y.follow), V)
        = MergeFollow(Projected(x.follow, V), Projected(y.follow, V))
  BY <1>1, <1>2 DEF Projected, MergeFollow, u, v
<1>4. Projected(Projected(x.follow, V), V) = Projected(x.follow, V)
  BY <1>1 DEF Projected, u
<1>5. MergeFollow(x.follow, Projected(x.follow, V)) = x.follow
  <2>1. [p \in Transition |-> IF (IF p \in V \X V THEN u[p] ELSE 0) > u[p]
                               THEN (IF p \in V \X V THEN u[p] ELSE 0) ELSE u[p]] = u
    BY <1>1, <1>2
  <2>2. x.follow.cells \cup (x.follow.cells \cap (V \X V)) = x.follow.cells
    OBVIOUS
  <2> QED BY <1>1, <2>1, <2>2 DEF Projected, MergeFollow, u
<1> QED BY <1>3, <1>4, <1>5

=============================================================================
