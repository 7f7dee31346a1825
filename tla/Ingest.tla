------------------------------- MODULE Ingest -------------------------------
(***************************************************************************)
(* One ingest module (crates/hllset-morphisms/src/ingest.rs): each token   *)
(* is touched once and updates, under every seed, a sketch and a LUT, and  *)
(* the one TF table.  What materialization and the ranks say of it is      *)
(* checked in every state it can reach, under every hash function.         *)
(***************************************************************************)
EXTENDS Integers, FiniteSets, FiniteSetsExt

CONSTANTS Token, Seed, Reg, Zeros,
  Hashes,       \* the hash functions considered
  MaxTouches    \* bound on the tokens ingested

VARIABLES
  position,     \* the hash functions, fixed at the start
  hllsets,      \* hllsets[s]: the sketch of seed s
  luts,         \* luts[s]: the reverse index of seed s
  tf,
  touched       \* tokens touched, repetitions included

vars == <<position, hllsets, luts, tf, touched>>

E == INSTANCE Encoding WITH Position <- position

T == INSTANCE AtomTree

Bit == Reg \X Zeros

ASSUME HashesAreHashes == Hashes \subseteq [Seed -> [Token -> Bit]]
ASSUME TokensAreNumbers == Token \subseteq Nat
ASSUME BitsAreNumbers ==
  /\ Reg \subseteq Nat /\ IsFiniteSet(Reg)
  /\ Zeros \subseteq Nat /\ IsFiniteSet(Zeros) /\ Zeros # {}
ASSUME ZeroIsSeed == 0 \in Seed

TypeOK ==
  /\ position \in [Seed -> [Token -> Bit]]
  /\ hllsets \in [Seed -> SUBSET Bit]
  /\ luts \in [Seed -> [Bit -> SUBSET Token]]
  /\ tf \in [Token -> Nat]
  /\ touched \in Nat

Init ==
  /\ position \in Hashes
  /\ hllsets = [s \in Seed |-> {}]
  /\ luts = [s \in Seed |-> E!EmptyLut]
  /\ tf = E!NoTf
  /\ touched = 0

\* Slip: TF is only raised for a token seen for the first time.
IngestCountsOnce(t) ==
  /\ touched < MaxTouches
  /\ touched' = touched + 1
  /\ tf' = IF tf[t] = 0 THEN E!Increment(tf, t) ELSE tf
  /\ hllsets' = [s \in Seed |-> E!SetAtom(hllsets[s], position[s][t])]
  /\ luts' = [s \in Seed |-> E!InsertToken(luts[s], t, s)]
  /\ UNCHANGED position
IngestToken(t) ==
  /\ touched < MaxTouches
  /\ touched' = touched + 1
  /\ tf' = E!Increment(tf, t)
  /\ hllsets' = [s \in Seed |-> E!SetAtom(hllsets[s], position[s][t])]
  /\ luts' = [s \in Seed |-> E!InsertToken(luts[s], t, s)]
  /\ UNCHANGED position

\* The input is used up.
Done == touched = MaxTouches /\ UNCHANGED vars

Next == Done \/ \E t \in Token : IngestToken(t)

Spec == Init /\ [][Next]_vars

-----------------------------------------------------------------------------
(***************************************************************************)
(* Properties.                                                             *)
(***************************************************************************)

Observed == {t \in Token : tf[t] > 0}

\* AtomTree::from_lut, for the tokens of a LUT, under seed 0.
TreeFromLut(tokens) == T!BuildTree(E!FromTokens(0, tokens))

\* AtomTree::from_hllset.
TreeFromHllset(H) == T!BuildTree(H)

Pair(s, H) == [sketch |-> H, lut |-> luts[s]]
AllPairs == {Pair(s, hllsets[s]) : s \in Seed}

\* The incrementally filled LUT is the index that LutIndex::build makes of the
\* tokens seen, so that each fiber and each active bit agree: every active
\* bit can be explained, and slicing a sketch by its LUT loses no token.
IndexIsBuilt ==
  \A s \in Seed :
    /\ luts[s] = E!BuildLut(s, Observed)
    /\ hllsets[s] = E!FromTokens(s, Observed)
    /\ E!Slice(luts[s], hllsets[s]) = Observed

\* The tree of the tokens is the tree of the sketch, and no part of it has the
\* same root: "the root is the content address of the atom set"
\* (crates/hllset-lut/src/lib.rs:126-129).
TreeIsAddress ==
  LET tree == TreeFromHllset(hllsets[0])
  IN  /\ TreeFromLut(Observed) = tree
      /\ \A A \in SUBSET hllsets[0] : TreeFromHllset(A).root = tree.root => A = hllsets[0]

\* What restoration rests on: the index, and the tree over it.
LutIsBuilt == IndexIsBuilt /\ TreeIsAddress

\* Materializing any part of a sketch through its own LUT and ingesting the
\* result again gives that part back: the tie-break by TF changes which
\* tokens come out and never which bits.
RestoreRoundTrip ==
  \A s \in Seed : \A H \in SUBSET hllsets[s] :
    E!FromTokens(s, E!Materialize({Pair(s, H)}, tf)) = H

\* A bit that is active under several seeds is explained by one of all their
\* candidates, never by a token no pointed LUT holds for it.
EveryBitExplained ==
  \A i \in UNION {hllsets[s] : s \in Seed} :
    \E t \in E!Materialize(AllPairs, tf), s \in Seed :
      t \in Observed /\ position[s][t] = i

\* The rank of each sketch, the ranks of its registers and those of its bits
\* taken as sketches, each together, count every touch exactly once: no
\* observation is hidden by a collision or counted under two bits.  Folding by
\* Max and Min gives the highest and the lowest TF; the Min of a register is 0
\* as long as one of its bits is not explained by a token.
RankCountsTouches ==
  LET counts == {tf[t] : t \in Observed}
  IN  \A s \in Seed :
        /\ E!HllsetRank(tf, luts[s], hllsets[s], "Sum") = touched
        /\ SumFunction([r \in Reg |-> E!RegisterRank(tf, luts[s], r, "Sum")]) = touched
        /\ E!CompoundRank(tf, luts[s], {{i} : i \in hllsets[s]}, "Sum") = touched
        /\ \A agg \in {"Max", "Min"} :
             counts # {} =>
               /\ E!HllsetRank(tf, luts[s], hllsets[s], agg)
                    = (IF agg = "Max" THEN Max(counts) ELSE Min(counts))
               /\ E!CompoundRank(tf, luts[s], {{i} : i \in hllsets[s]}, agg)
                    = E!HllsetRank(tf, luts[s], hllsets[s], agg)
        /\ \A r \in Reg : E!RegisterRank(tf, luts[s], r, "Min") > 0
                            <=> {r} \X Zeros \subseteq hllsets[s]

=============================================================================
