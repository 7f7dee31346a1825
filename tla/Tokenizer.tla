----------------------------- MODULE Tokenizer -----------------------------
(***************************************************************************)
(* The tokenizer pipeline (crates/hllset-dsl/src/tokenizer.rs): a pattern  *)
(* extracts tokens, normalizers rewrite or discard them, padding and       *)
(* n-grams make windows of them.  A tokenizer is a record, and a builder   *)
(* method an operator on it.                                               *)
(***************************************************************************)
EXTENDS Integers, Sequences, SequencesExt

CONSTANTS
  WordChar,     \* the letters and digits of the word pattern
  White,        \* ASCII whitespace
  Lower(_),     \* to_ascii_lowercase of one character
  Nul           \* joins the tokens of an n-gram

P == INSTANCE Patterns

\* Builder.  pad is << >> or the two boundary tokens.
New == [pattern |-> P!Span(WordChar), norms |-> << >>, min |-> 1, max |-> 1, pad |-> << >>]

WithPattern(tok, p) == [tok EXCEPT !.pattern = p]
WithNormalizer(tok, n) == [tok EXCEPT !.norms = Append(@, n)]
WithPad(tok, start, end) == [tok EXCEPT !.pad = <<start, end>>]

\* ngrams asserts its range.
RangeOk(min, max) == min >= 1 /\ max >= min
WithNgrams(tok, min, max) == [tok EXCEPT !.min = min, !.max = max]

\* Normalizers, with the set that KeepOnly allows.
Lowercase == [op |-> "lowercase"]
Trim == [op |-> "trim"]
KeepOnly(S) == [op |-> "keep_only", set |-> S]

-----------------------------------------------------------------------------

Texts(found, text) ==
  [i \in DOMAIN found |-> SubSeq(text, found[i].start, found[i].match.end - 1)]
Extract(tok, text) == Texts(P!FindAll(tok.pattern, text), text)

\* A normalizer on a token: << >> to discard it, or <<the new token>>.
Trimmed(token) ==
  LET solid == {i \in DOMAIN token : token[i] \notin White}
  IN  IF solid = {} THEN << >>
      ELSE LET first == CHOOSE i \in solid : \A j \in solid : i <= j
               last  == CHOOSE i \in solid : \A j \in solid : j <= i
           IN  <<SubSeq(token, first, last)>>

Applied(n, token) ==
  CASE n.op = "lowercase" -> <<[i \in DOMAIN token |-> Lower(token[i])]>>
    [] n.op = "trim"      -> Trimmed(token)
    [] n.op = "keep_only" ->
         LET kept == SelectSeq(token, LAMBDA ch : ch \in n.set)
         IN  IF kept = << >> THEN << >> ELSE <<kept>>

\* All normalizers in turn, up to the first that discards.
Normalized(tok, token) ==
  FoldLeft(LAMBDA t, n : IF t = << >> THEN << >> ELSE Applied(n, t[1]), <<token>>, tok.norms)

Padded(tokens, pad) ==
  IF pad = << >> THEN tokens ELSE <<pad[1]>> \o tokens \o <<pad[2]>>

Joined(tokens) == FlattenSeq([i \in DOMAIN tokens |->
                    IF i = 1 THEN tokens[i] ELSE <<Nul>> \o tokens[i]])

\* Every window of n tokens, for n from min to max.
Window(tokens, i, n) == SubSeq(tokens, i, i + n - 1)
Windows(tokens, min, max) ==
  FlattenSeq([k \in 1..(max - min + 1) |->
    LET n == min + k - 1
    IN  [i \in 1..(Len(tokens) - n + 1) |-> Window(tokens, i, n)]])

\* The tokens that survive extraction and normalization.
Survivors(tok, raw) == FlattenSeq([i \in DOMAIN raw |-> Normalized(tok, raw[i])])
Kept(tok, text) == Survivors(tok, Extract(tok, text))

Grams(tok, kept) ==
  LET all == Windows(Padded(kept, tok.pad), tok.min, tok.max)
  IN  IF kept = << >> THEN << >> ELSE [i \in DOMAIN all |-> Joined(all[i])]

Tokenize(tok, text) == Grams(tok, Kept(tok, text))

=============================================================================
