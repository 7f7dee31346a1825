------------------------------ MODULE MCIngest ------------------------------
(* Three tokens over four bits under two seeds: every pattern of           *)
(* collisions, within a seed and across seeds, once up to the naming of    *)
(* the bits.                                                               *)
EXTENDS Context

BitAt(n) == <<(n - 1) \div 2, IF n % 2 = 1 THEN 0 ELSE 31>>

\* Bits are numbered in the order in which the tokens first name them.
Patterns ==
  {p \in [1 .. 6 -> 1 .. 4] :
     \A k \in 1 .. 6 : p[k] = 1 \/ \E j \in 1 .. k - 1 : p[j] + 1 >= p[k]}

EveryPattern ==
  {[s \in Seed |-> [t \in Token |-> BitAt(p[3 * s + t])]] : p \in Patterns}

=============================================================================
