----------------------------- MODULE GrowTables -----------------------------
(***************************************************************************)
(* The other two grow-only tables that replicas join by a pointwise max:   *)
(* the follow matrix over tokens (crates/hllset-context/src/lib.rs) and    *)
(* the TF vector over bits (crates/hllset-core/src/core/tfvec.rs).         *)
(***************************************************************************)
EXTENDS Encoding

\* MaxTable: each entry of a table is the greatest value of its key in a log.
MaxTable(tab, log) ==
  /\ \A e \in log : e.val <= tab[e.key]
  /\ \A k \in DOMAIN tab : tab[k] = 0 \/ \E e \in log : e.key = k /\ e.val = tab[k]

-----------------------------------------------------------------------------
\* FollowMatrix: what get answers for each transition, 0 for one that has no
\* cell, and the transitions that have one.  A weight of 0 makes a cell too.

Transition == Token \X Token

NoFollow == [weight |-> [p \in Transition |-> 0], cells |-> {}]

\* observe.  Slip: the last weight wins.
ObserveLast(f, p, w) == [weight |-> [f.weight EXCEPT ![p] = w], cells |-> f.cells \cup {p}]
Observe(f, p, w) ==
  [weight |-> [f.weight EXCEPT ![p] = IF w > @ THEN w ELSE @],
   cells  |-> f.cells \cup {p}]

MergeFollow(f, g) ==
  [weight |-> [p \in Transition |->
                 IF g.weight[p] > f.weight[p] THEN g.weight[p] ELSE f.weight[p]],
   cells  |-> f.cells \cup g.cells]

\* Only the transitions between tokens of T.
Projected(f, T) ==
  [weight |-> [p \in Transition |-> IF p \in T \X T THEN f.weight[p] ELSE 0],
   cells  |-> f.cells \cap (T \X T)]

-----------------------------------------------------------------------------
\* TFVec: one accumulated frequency per bit.

NoBits == [i \in Bit |-> 0]

\* increment_from_hllset, with a delta of one.
CountBits(v, H) == [i \in Bit |-> IF i \in H THEN v[i] + 1 ELSE v[i]]

MergeVec(v, w) == [i \in Bit |-> IF w[i] > v[i] THEN w[i] ELSE v[i]]

=============================================================================
