--------------------------- MODULE MCHlppClients ---------------------------
(* Two clients racing on one name; two keys, so that one pin cannot stand  *)
(* for another.                                                            *)
EXTENDS HlppClients, TLC

Symmetry == Permutations(Key) \cup Permutations(Client)

=============================================================================
