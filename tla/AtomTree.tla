------------------------------ MODULE AtomTree ------------------------------
(***************************************************************************)
(* The sparse Merkle tree over the active bits of a sketch or of a LUT     *)
(* node (crates/hllset-lut/src/lib.rs).  SHA-1 is injective: a hash is the *)
(* tuple of what was hashed, its tag first.                                *)
(***************************************************************************)
EXTENDS Integers, Sequences, SequencesExt

\* Bits <<register, zeros>> in the order of their numbers.
BitLess(i, j) == i[1] < j[1] \/ (i[1] = j[1] /\ i[2] < j[2])

\* sort_unstable and dedup.
SortedAtoms(A) ==
  CHOOSE q \in SetToSeqs(A) : \A j, k \in DOMAIN q : j < k => BitLess(q[j], q[k])

Leaf(i) == <<"leaf", i>>
Node(l, r) == <<"node", l, r>>

\* One level up, pair by pair; the last of an odd level is its own sibling.
LevelUp(level) ==
  [k \in 1 .. (Len(level) + 1) \div 2 |->
     Node(level[2 * k - 1], level[IF 2 * k <= Len(level) THEN 2 * k ELSE 2 * k - 1])]

\* The levels over the leaves, up to the one that is the root alone.
Levels(atoms) ==
  LET level[d \in 0 .. Len(atoms)] ==
        IF d = 0 THEN [k \in DOMAIN atoms |-> Leaf(atoms[k])]
        ELSE IF Len(level[d - 1]) > 1 THEN LevelUp(level[d - 1]) ELSE level[d - 1]
  IN  level

MerkleRoot(atoms) ==
  IF atoms = <<>> THEN <<"empty">> ELSE Levels(atoms)[Len(atoms)][1]

BuildTree(A) == [atoms |-> SortedAtoms(A), root |-> MerkleRoot(SortedAtoms(A))]

=============================================================================
