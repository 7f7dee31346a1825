------------------------------ MODULE Encoding ------------------------------
(***************************************************************************)
(* Sketches and their reverse indices: an HLLSet is a set of active bits   *)
(* (crates/hllset-core/src/core/hllset.rs and operations.rs), a LUT gives  *)
(* for each bit the tokens known to hash to it (crates/hllset-lut), and TF *)
(* counts observations (crates/hllset-morphisms/src/tf.rs).                *)
(*                                                                         *)
(* The hash is any function from tokens to bits, one per seed: collisions  *)
(* within a seed, and equal bits under two seeds, are both allowed.        *)
(***************************************************************************)
EXTENDS Integers, FiniteSets, FiniteSetsExt, Functions

CONSTANTS
  Token,        \* byte strings, as numbers in their lexicographic order
  Seed,         \* hash seeds; seed 0 is the one plain tokens use
  Reg,          \* registers
  Zeros,        \* trailing-zero counts a register records
  Position      \* Position[s][t]: the bit token t inscribes under seed s

Bit == Reg \X Zeros

-----------------------------------------------------------------------------
\* Sketches.  union, intersection and difference are those of sets.

FromTokens(s, T) == {Position[s][t] : t \in T}

\* add_bit.  Slip: register and trailing zeros swapped.
SetAtomSwapped(H, i) == H \cup {<<i[2], i[1]>>}
SetAtom(H, i) == H \cup {i}

-----------------------------------------------------------------------------
\* LUT indices.

EmptyLut == [i \in Bit |-> {}]

\* LutIndex::build.
BuildLut(s, T) == [i \in Bit |-> {t \in T : Position[s][t] = i}]

\* Slip: every LUT is addressed by seed 0.
InsertUnderSeedZero(lut, t, s) == [lut EXCEPT ![Position[0][t]] = @ \cup {t}]
InsertToken(lut, t, s) == [lut EXCEPT ![Position[s][t]] = @ \cup {t}]

\* LutIndex::materialize: every candidate of every active bit.
Slice(lut, H) == UNION {lut[i] : i \in H}

-----------------------------------------------------------------------------
\* Term frequencies.

NoTf == [t \in Token |-> 0]

Increment(tf, t) == [tf EXCEPT ![t] = @ + 1]

\* Pointwise max.  Slips: the other table's counts win, or counts add up.
MergeTfTakesOther(tf, other) == [t \in Token |-> IF other[t] = 0 THEN tf[t] ELSE other[t]]
MergeTfAdds(tf, other) == [t \in Token |-> tf[t] + other[t]]
MergeTf(tf, other) ==
  [t \in Token |-> IF other[t] > tf[t] THEN other[t] ELSE tf[t]]

-----------------------------------------------------------------------------
\* Materialization of a set of pairs [sketch, lut], one per encoding.

Candidates(pairs, i) == UNION {p.lut[i] : p \in {q \in pairs : i \in q.sketch}}

\* The token of C with the highest TF, the last of them in a tie.  Slip: TF
\* decides among all tokens, in the fiber or not.
WinnerOfAll(C, tf) ==
  CHOOSE t \in Token :
    \A u \in Token : tf[u] < tf[t] \/ (tf[u] = tf[t] /\ u <= t)
Winner(C, tf) ==
  CHOOSE t \in C :
    \A u \in C : tf[u] < tf[t] \/ (tf[u] = tf[t] /\ u <= t)

\* Slip: a bit with several candidates is left out.
MaterializeUnambiguous(pairs, tf) ==
  UNION {C \in {Candidates(pairs, i) : i \in Bit} : Cardinality(C) = 1}
Materialize(pairs, tf) ==
  {Winner(C, tf) : C \in {Candidates(pairs, i) : i \in Bit} \ {{}}}

-----------------------------------------------------------------------------
\* Ranks: each level folds the ranks of the level below.

\* Aggregator::fold over the values of a function; that of nothing is 0.
Fold(agg, rank) ==
  LET values == {rank[x] : x \in DOMAIN rank} IN
  CASE agg = "Sum" -> SumFunction(rank)
    [] agg = "Max" -> Max({0} \cup values)
    [] agg = "Min" -> IF values = {} THEN 0 ELSE Min(values)

TokenRank(tf, t) == tf[t]

BitRank(tf, lut, i, agg) == Fold(agg, [t \in lut[i] |-> TokenRank(tf, t)])

RegisterRank(tf, lut, r, agg) ==
  Fold(agg, [z \in Zeros |-> BitRank(tf, lut, <<r, z>>, agg)])

HllsetRank(tf, lut, H, agg) == Fold(agg, [i \in H |-> BitRank(tf, lut, i, agg)])

CompoundRank(tf, lut, sketches, agg) ==
  Fold(agg, [H \in sketches |-> HllsetRank(tf, lut, H, agg)])

=============================================================================
