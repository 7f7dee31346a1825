----------------------------- MODULE HllsetCli -----------------------------
(***************************************************************************)
(* What one process of the shell can be at (crates/hllset-cli/src/main.rs  *)
(* and the public functions of hllset-forth and hllset-dsl):               *)
(*                                                                         *)
(*   source  reading the argument of --forth, a character at a time        *)
(*   script  compiling and running the words it read                       *)
(*   refused the source did not parse: the process has exited              *)
(*   words   compiling and running words a caller hands to compile_to_lua  *)
(*   build   putting a tokenizer together, method by method                *)
(***************************************************************************)
EXTENDS ForthLowering, ForthReader

CONSTANTS
  StrValue(_), NumValue(_),   \* the Lua value of a string and of a number
  WordOf(_),                  \* the word a name is in capitals, or NoWord
  NoWord,
  LuaName(_),                 \* whether Lua takes the name for a function; names
                              \* of a table's field (with a dot) are left out
  WordChar, Lower(_), Nul,
  Primitive, Normalizer, Pad,
  MaxWord,    \* bound on the characters of a quoted string in a source, quotes
              \* counted as one, and of any other word
  MaxText,    \* bound on what the reader holds: characters, open parentheses
  MaxGram,    \* bound on the size of n-grams
  MaxBuild    \* bound on the method calls that build a tokenizer

ASSUME BoundsAreNat == MaxWord \in Nat /\ MaxText \in Nat /\ MaxGram \in Nat /\ MaxBuild \in Nat

VARIABLES
  stage,
  left,     \* the words still to compile
  tok,      \* the tokenizer under construction
  pats,     \* the patterns made for it and not used yet
  built     \* the methods called so far

cli == <<stage, reader, left, tok, pats, built>>

T == INSTANCE Tokenizer
P == INSTANCE Patterns

CliInit ==
  /\ Init
  /\ stage \in {"source", "words", "build"}
  /\ ReaderInit
  /\ left = << >>
  /\ tok = T!New /\ pats = << >> /\ built = 0

-----------------------------------------------------------------------------
\* --forth: parse, compile, and run what was compiled.

WordSize(w) == CASE w.word = "num" -> 1 [] w.word = "ident" -> Len(w.text) [] w.word = "str" -> 1 + Len(w.text)
Size(x) == x.depth + Len(x.buf) + Len(x.str) + FoldLeft(LAMBDA n, w : n + WordSize(w), 0, x.words)

ReadChar(ch) ==
  /\ stage = "source"
  /\ ReadNext(ch)
  /\ Size(reader') <= MaxText /\ Len(reader'.buf) <= MaxWord /\ Len(reader'.str) < MaxWord
  /\ UNCHANGED <<c, stage, left, tok, pats, built>>

\* A word of the source, as the compiler takes it: a name it does not know
\* is a string.
Pushing(v) == [op |-> "PUSH", lit |-> v]
Token(w) ==
  CASE w.word = "str"   -> Pushing(StrValue(w.text))
    [] w.word = "num"   -> Pushing(NumValue(w.n))
    [] w.word = "ident" -> IF WordOf(w.text) # NoWord THEN [op |-> WordOf(w.text), lit |-> w.text]
                           ELSE Pushing(StrValue(w.text))
Tokens(words) == [i \in DOMAIN words |-> Token(words[i])]

\* Whether Lua takes the generated script at all: a string with a line break
\* is written over two lines, and a definition becomes a function of its name.
StringsFit(words) == \A i \in DOMAIN words : words[i].word = "str" => "\n" \notin ToSet(words[i].text)
Loads(ast) ==
  /\ StringsFit(ast)
  /\ \A i \in DOMAIN ast : ast[i].word = "def" => LuaName(ast[i].text) /\ StringsFit(ast[i].body)

EndSource ==
  LET end == AtEnd(reader) IN
  /\ stage = "source"
  /\ StartOver
  /\ IF end.mode \in Errors
       THEN stage' = "refused" /\ UNCHANGED <<c, left>>
       ELSE /\ stage' = "script"
            /\ left' = Grouped(end.words)
            /\ c' = [c EXCEPT !.ok = Loads(left')]
  /\ UNCHANGED <<tok, pats, built>>

CompileWord ==
  /\ stage = "script" /\ left # << >> /\ Running
  /\ left' = Tail(left)
  /\ c' = IF Head(left).word = "def" THEN Defined(c, Head(left).text, Tokens(Head(left).body))
          ELSE Compiled(c, Token(Head(left)))
  /\ UNCHANGED <<stage, reader, tok, pats, built>>

-----------------------------------------------------------------------------
\* A tokenizer and the patterns for it.

Build ==
  /\ stage = "build" /\ built < MaxBuild
  /\ built' = built + 1
  /\ UNCHANGED <<c, stage, reader, left>>

MakePattern(p) == Build /\ Len(pats) < 2 /\ pats' = Append(pats, p) /\ UNCHANGED tok

CombineTwo ==
  /\ Build /\ Len(pats) = 2
  /\ \/ pats' = <<P!Cat(pats[1], pats[2])>>
     \/ pats' = <<P!Alt(pats[1], pats[2])>>
  /\ UNCHANGED tok

CaptureOne ==
  /\ Build /\ pats # << >>
  /\ pats' = Append(Front(pats), P!Capture(Last(pats)))
  /\ UNCHANGED tok

\* pattern, or word_pattern.
UsePattern ==
  /\ Build
  /\ \/ Len(pats) = 1 /\ tok' = T!WithPattern(tok, pats[1])
     \/ pats = << >> /\ tok' = T!WithPattern(tok, T!New.pattern)
  /\ pats' = << >>

AddNormalizer(n) == Build /\ tok' = T!WithNormalizer(tok, n) /\ UNCHANGED pats

\* The call panics on any other range.
SetNgrams(min, max) ==
  /\ Build /\ T!RangeOk(min, max)
  /\ tok' = T!WithNgrams(tok, min, max)
  /\ UNCHANGED pats

SetPad(pad) == Build /\ tok' = T!WithPad(tok, pad[1], pad[2]) /\ UNCHANGED pats

-----------------------------------------------------------------------------

CliNext ==
  \/ stage = "words" /\ Next /\ UNCHANGED cli
  \/ \E ch \in Char : ReadChar(ch)
  \/ EndSource
  \/ CompileWord
  \/ \E p \in Primitive : MakePattern(p)
  \/ CombineTwo
  \/ CaptureOne
  \/ UsePattern
  \/ \E n \in Normalizer : AddNormalizer(n)
  \/ \E min, max \in 0..MaxGram : SetNgrams(min, max)
  \/ \E pad \in Pad : SetPad(pad)
  \/ stage # "words" /\ UNCHANGED <<c, cli>>   \* the process may end

CliSpec == CliInit /\ [][CliNext]_<<c, cli>>

=============================================================================
