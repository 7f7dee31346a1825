------------------------------- MODULE Bridge -------------------------------
(***************************************************************************)
(* The structural fingerprint of the bridge (crates/hllset-bridge/src/     *)
(* lib.rs): the sketch of all triples of neighbours in a text, with a mark *)
(* before it and one after.  A sketch is the set of strings inscribed.     *)
(***************************************************************************)
EXTENDS Integers, Sequences, SequencesExt

CONSTANTS
  Nul,            \* joins the tokens of a triple
  First, Final    \* the marks, tokens

\* Tokens joined into one string, a Nul before each but the first.
JoinedByNul(tokens) == Tail(FlattenSeq([i \in DOMAIN tokens |-> <<Nul>> \o tokens[i]]))

make_ngrams(tokens, n) ==
  {JoinedByNul(SubSeq(tokens, i, i + n - 1)) : i \in 1..(Len(tokens) - n + 1)}

extract_3gram(tokens) == make_ngrams(<<First>> \o tokens \o <<Final>>, 3)

=============================================================================
