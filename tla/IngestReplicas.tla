--------------------------- MODULE IngestReplicas ---------------------------
(***************************************************************************)
(* Replicas that ingest on their own and merge one another's snapshots:    *)
(* HLLSet::merge is a bitwise OR, TfTable::merge a pointwise max and       *)
(* LutNode::union a set union, "eventually-consistent" without             *)
(* coordination (crates/hllset-core/src/core/hllset.rs:37-39,              *)
(* crates/hllset-morphisms/src/tf.rs:3-4); FollowMatrix::merge and         *)
(* TFVec::merge are "the join" and "a monotonic CRDT" too                  *)
(* (crates/hllset-context/src/lib.rs:12, .../core/tfvec.rs:3-5).           *)
(*                                                                         *)
(* The network is outside the code: a snapshot once sent may arrive never, *)
(* late, out of order and any number of times.  All of the state is in     *)
(* memory: a crash empties a replica.                                      *)
(***************************************************************************)
EXTENDS GrowTables

CONSTANTS
  Replica,
  Bigrams,        \* the transitions that occur
  Weight,         \* weights of observed transitions
  MaxTouches,     \* bound on the tokens ingested, transitions observed and
                  \* sketches counted by all replicas
  MaxSent,        \* bound on the snapshots under way
  MaxCrashes      \* bound on crashes

ASSUME PositionIsHash == Position \in [Seed -> [Token -> Bit]]
ASSUME BoundsAreNat == {MaxTouches, MaxSent, MaxCrashes} \subseteq Nat
ASSUME NotesAreWeighted == Weight \subseteq Nat /\ Bigrams \subseteq Transition

VARIABLES
  rep,        \* rep[r]: the state of replica r
  net,        \* snapshots ever sent
  own,        \* history: own[r][t], observations of t by r since its last crash
  total,      \* history: total[t], observations of t anywhere
  notes,      \* transitions observed and sketches counted so far
  crashes     \* number of crashes so far

vars == <<rep, net, own, total, notes, crashes>>

\* One observation: who made it, of what, and the count it led to.
Event == [who : Replica, key : Token, val : Nat \ {0}]

\* The state of an ingest module with its two other tables and, as history,
\* what has led to it: tokens ingested, transitions seen, bits counted.
States == [hllsets : [Seed -> SUBSET Bit], node : SUBSET Token,
           tf : [Token -> Nat], heard : SUBSET Event,
           follow : [weight : [Transition -> Nat], cells : SUBSET Transition],
           seen : SUBSET [key : Transition, val : Nat],
           bits : [Bit -> Nat], counted : SUBSET [key : Bit, val : Nat]]

TypeOK ==
  /\ rep \in [Replica -> States]
  /\ net \subseteq States
  /\ own \in [Replica -> [Token -> Nat]]
  /\ total \in [Token -> Nat]
  /\ notes \in Nat
  /\ crashes \in Nat

Empty == [hllsets |-> [s \in Seed |-> {}], node |-> {}, tf |-> NoTf,
          heard |-> {}, follow |-> NoFollow, seen |-> {}, bits |-> NoBits,
          counted |-> {}]

Init ==
  /\ rep = [r \in Replica |-> Empty]
  /\ net = {}
  /\ own = [r \in Replica |-> NoTf]
  /\ total = NoTf
  /\ notes = 0
  /\ crashes = 0

-----------------------------------------------------------------------------

\* ingest_token at replica r.
Touched(x, r, t) ==
  LET tf == Increment(x.tf, t)
  IN  [hllsets |-> [s \in Seed |-> SetAtom(x.hllsets[s], Position[s][t])],
       node    |-> x.node \cup {t},
       tf      |-> tf,
       heard   |-> x.heard \cup {[who |-> r, key |-> t, val |-> tf[t]]},
       follow  |-> x.follow, seen |-> x.seen,
       bits    |-> x.bits, counted |-> x.counted]

\* A transition observed, with its weight.
Noted(x, p, w) ==
  [hllsets |-> x.hllsets, node |-> x.node, tf |-> x.tf, heard |-> x.heard,
   follow  |-> Observe(x.follow, p, w),
   seen    |-> x.seen \cup {[key |-> p, val |-> w]},
   bits    |-> x.bits, counted |-> x.counted]

\* A sketch H counted into the TF vector.
Counted(x, H) ==
  LET bits == CountBits(x.bits, H)
  IN  [hllsets |-> x.hllsets, node |-> x.node, tf |-> x.tf, heard |-> x.heard,
       follow  |-> x.follow, seen |-> x.seen,
       bits    |-> bits,
       counted |-> x.counted \cup {[key |-> i, val |-> bits[i]] : i \in H}]

\* x after merging y.  Slip: the LUT node is left out.
JoinSkipsNode(x, y) ==
  [hllsets |-> [s \in Seed |-> x.hllsets[s] \cup y.hllsets[s]],
   node    |-> x.node,
   tf      |-> MergeTf(x.tf, y.tf),
   heard   |-> x.heard \cup y.heard,
   follow  |-> MergeFollow(x.follow, y.follow),
   seen    |-> x.seen \cup y.seen,
   bits    |-> MergeVec(x.bits, y.bits),
   counted |-> x.counted \cup y.counted]
Join(x, y) ==
  [hllsets |-> [s \in Seed |-> x.hllsets[s] \cup y.hllsets[s]],
   node    |-> x.node \cup y.node,
   tf      |-> MergeTf(x.tf, y.tf),
   heard   |-> x.heard \cup y.heard,
   follow  |-> MergeFollow(x.follow, y.follow),
   seen    |-> x.seen \cup y.seen,
   bits    |-> MergeVec(x.bits, y.bits),
   counted |-> x.counted \cup y.counted]

-----------------------------------------------------------------------------

InBounds == MapThenSumSet(LAMBDA u : total[u], Token) + notes < MaxTouches

Ingest(r, t) ==
  /\ InBounds
  /\ rep' = [rep EXCEPT ![r] = Touched(rep[r], r, t)]
  /\ own' = [own EXCEPT ![r][t] = @ + 1]
  /\ total' = [total EXCEPT ![t] = @ + 1]
  /\ UNCHANGED <<net, notes, crashes>>

ObserveTransition(r) ==
  /\ InBounds
  /\ notes' = notes + 1
  /\ \E p \in Bigrams, w \in Weight :
       rep' = [rep EXCEPT ![r] = Noted(rep[r], p, w)]
  /\ UNCHANGED <<net, own, total, crashes>>

CountSketch(r) ==
  /\ InBounds
  /\ notes' = notes + 1
  /\ \E s \in Seed : rep' = [rep EXCEPT ![r] = Counted(rep[r], rep[r].hllsets[s])]
  /\ UNCHANGED <<net, own, total, crashes>>

Send(r) ==
  /\ Cardinality(net) < MaxSent
  /\ net' = net \cup {rep[r]}
  /\ UNCHANGED <<rep, own, total, notes, crashes>>

\* Any snapshot, the replica's own included, any number of times.
Deliver(r) ==
  /\ \E m \in net : rep' = [rep EXCEPT ![r] = Join(rep[r], m)]
  /\ UNCHANGED <<net, own, total, notes, crashes>>

Crash(r) ==
  /\ crashes < MaxCrashes
  /\ crashes' = crashes + 1
  /\ rep' = [rep EXCEPT ![r] = Empty]
  /\ own' = [own EXCEPT ![r] = NoTf]
  /\ UNCHANGED <<net, total, notes>>

Next ==
  \E r \in Replica : \/ \E t \in Token : Ingest(r, t)
                     \/ ObserveTransition(r)
                     \/ CountSketch(r)
                     \/ Send(r)
                     \/ Deliver(r)
                     \/ Crash(r)

Spec == Init /\ [][Next]_vars

-----------------------------------------------------------------------------
(***************************************************************************)
(* Properties.                                                             *)
(***************************************************************************)

\* Replicas that have heard of the same observations hold the same sketches,
\* LUT node, TF table, follow matrix and TF vector, each by itself, in whatever
\* order, batches and repetitions the snapshots arrived, crashes in between.
Converged ==
  \A q, r \in Replica :
    LET x == rep[q]  y == rep[r]
    IN  /\ x.heard = y.heard =>
             x.hllsets = y.hllsets /\ x.node = y.node /\ x.tf = y.tf
        /\ x.seen = y.seen => x.follow = y.follow
        /\ x.counted = y.counted => x.bits = y.bits

\* However often a table is merged again, a count never exceeds the number of
\* observations, and a merge never takes away a replica's own ("grow-only").
TfBounded ==
  \A r \in Replica :
    /\ \A t \in Token : own[r][t] <= rep[r].tf[t] /\ rep[r].tf[t] <= total[t]
    /\ \A i \in Bit : rep[r].bits[i] <= notes

\* "The tree of L and ingest(L) are the same lattice element"
\* (crates/hllset-lut/src/lib.rs:128-129): the atoms of every merged sketch
\* are those of the merged LUT node, whose tokens are those TF has counted.
SketchMatchesNode ==
  \A r \in Replica :
    /\ \A s \in Seed : rep[r].hllsets[s] = FromTokens(s, rep[r].node)
    /\ rep[r].node = {t \in Token : rep[r].tf[t] > 0}

\* The lattice converges without consensus: when every replica's state is on
\* the network and no delivery changes anything any more, all are equal.
QuiescentMeansEqual ==
  ( /\ \A r \in Replica : rep[r] \in net
    /\ \A r \in Replica, m \in net : Join(rep[r], m) = rep[r] )
  => \A q, r \in Replica : rep[q] = rep[r]

\* What holds of every state and snapshot x: it is the join of what its
\* observations led to, and counts none that was not made.
Explained(x) ==
  /\ x.node = {e.key : e \in x.heard}
  /\ \A s \in Seed : x.hllsets[s] = FromTokens(s, x.node)
  /\ MaxTable(x.tf, x.heard)
  /\ x.follow.cells = {e.key : e \in x.seen}
  /\ MaxTable(x.follow.weight, x.seen)
  /\ MaxTable(x.bits, x.counted)
NotOvercounted(x) ==
  /\ \A t \in Token : x.tf[t] <= total[t]
  /\ \A i \in Bit : x.bits[i] <= notes

\* The inductive invariant.
ReplicasInv ==
  /\ TypeOK
  /\ \A r \in Replica : Explained(rep[r]) /\ NotOvercounted(rep[r])
  /\ \A m \in net : Explained(m) /\ NotOvercounted(m)
  /\ \A r \in Replica, t \in Token : own[r][t] <= rep[r].tf[t]

=============================================================================
