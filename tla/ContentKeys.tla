---------------------------- MODULE ContentKeys ----------------------------
(***************************************************************************)
(* Keys of token sets (crates/hllset-core/src/core/content_addr.rs): the   *)
(* tokens sorted, each once, joined with a separator, hashed.  The hash is *)
(* injective here, so a key is its prefix and the joined text; which order *)
(* sorting gives does not matter, only that it is the same for equal sets. *)
(***************************************************************************)
EXTENDS Sequences, SequencesExt

CONSTANT Separator    \* the NUL byte

Canonical(tokens) ==
  LET sorted == SetToSeq(ToSet(tokens))
  IN  FlattenSeq([i \in DOMAIN sorted |->
        IF i = 1 THEN sorted[i] ELSE <<Separator>> \o sorted[i]])

ContentKey(tokens, prefix) == <<prefix, Canonical(tokens)>>

=============================================================================
