--------------------------- MODULE MCDistributed ---------------------------
(* Two sets that share a bit, so that dropping one must not hide the other *)
EXTENDS Distributed, TLC

Symmetry == Permutations(Node)

Overlapping == {{<<0, 0>>, <<0, 1>>}, {<<0, 1>>, <<1, 1>>}}

\* Two registers: -2 ln(1/2).
FHatTwo == <<1386>>

\* Three registers, plane 0 saturated or one short of it, one bit in plane 1.
Saturating == {{<<0, 0>>, <<1, 0>>, <<2, 0>>, <<0, 1>>}, {<<0, 0>>, <<1, 0>>, <<0, 1>>}}

\* -3 ln(2/3) and -3 ln(1/3).
FHatThree == <<1216, 3296>>

=============================================================================
