----------------------------- MODULE MCPipeline -----------------------------
(* Four texts: two with words, one of whitespace, one empty.               *)
EXTENDS Pipeline, TLC

CONSTANTS words, other, blank, empty, k1, k2

Texts == {words, other, blank, empty}
KeyOfText == (words :> k1) @@ (other :> k2) @@ (blank :> NoKey) @@ (empty :> Skipped)

=============================================================================
