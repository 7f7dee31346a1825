-------------------------- MODULE MCIngestReplicas --------------------------
(* Three replicas; two tokens that collide under seed 0 and not under      *)
(* seed 1.                                                                 *)
EXTENDS IngestReplicas, TLC

Symmetry == Permutations(Replica)

\* Transitions are alike: one is enough to be observed by each replica.
OneBigram == {<<1, 2>>}

Colliding == (0 :> (1 :> <<0, 0>> @@ 2 :> <<0, 0>>)
              @@ 1 :> (1 :> <<0, 0>> @@ 2 :> <<1, 0>>))

=============================================================================
