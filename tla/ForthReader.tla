---------------------------- MODULE ForthReader ----------------------------
(***************************************************************************)
(* Forth source to words and back (crates/hllset-forth/src/parse.rs and    *)
(* the Display of ast.rs).  The reader takes one character at a time;      *)
(* `\` starts a comment to the end of the line, "(" one to the matching    *)
(* ")", a quote a string; the rest is cut into words at white space.       *)
(***************************************************************************)
EXTENDS Integers, Sequences, SequencesExt

CONSTANTS
  Char,
  White,        \* white space; the newline is one
  Numeral(_),   \* the number a word spells, or NoNumeral
  NoNumeral,
  Spelled(_),   \* how a number is printed
  Separator     \* texts that may stand between two words

Delimiter == {"\\", "(", "\""}

ASSUME WhiteIsNoDelimiter == White \cap Delimiter = {}

VARIABLE reader

\* Words.
Ident(name) == [word |-> "ident", text |-> name]
String(text) == [word |-> "str", text |-> text]
Number(n) == [word |-> "num", n |-> n]
ColonDef(name, body) == [word |-> "def", text |-> name, body |-> body]

\* mode: between or in words, in a line comment, in a block comment, in a
\* string or after its backslash; or the error that ended the parse.
Start == [mode |-> "words", depth |-> 0, str |-> << >>, buf |-> << >>, words |-> << >>]

Errors == {"unterminated comment", "unterminated string"}

\* flush_buf: the buffered characters are a number if they spell one.
Flushed(r) ==
  IF r.buf = << >> THEN r
  ELSE [r EXCEPT !.buf = << >>,
                 !.words = Append(@, IF Numeral(r.buf) # NoNumeral
                                       THEN Number(Numeral(r.buf)) ELSE Ident(r.buf))]

\* Slip: a comment does not end the word before it.
InWordsUnflushed(r, ch) ==
  CASE ch \in White -> Flushed(r)
    [] ch = "\\"    -> [r EXCEPT !.mode = "line"]
    [] ch = "("     -> [r EXCEPT !.mode = "block", !.depth = 1]
    [] ch = "\""    -> [Flushed(r) EXCEPT !.mode = "string", !.str = << >>]
    [] ch \notin White \cup Delimiter -> [r EXCEPT !.buf = Append(@, ch)]
InWords(r, ch) ==
  CASE ch \in White -> Flushed(r)
    [] ch = "\\"    -> [Flushed(r) EXCEPT !.mode = "line"]
    [] ch = "("     -> [Flushed(r) EXCEPT !.mode = "block", !.depth = 1]
    [] ch = "\""    -> [Flushed(r) EXCEPT !.mode = "string", !.str = << >>]
    [] ch \notin White \cup Delimiter -> [r EXCEPT !.buf = Append(@, ch)]

InBlock(r, ch) ==
  LET d == IF ch = "(" THEN r.depth + 1 ELSE IF ch = ")" THEN r.depth - 1 ELSE r.depth
  IN  [r EXCEPT !.depth = d, !.mode = IF d = 0 THEN "words" ELSE "block"]

InString(r, ch) ==
  CASE ch = "\"" -> [r EXCEPT !.mode = "words", !.str = << >>, !.words = Append(@, String(r.str))]
    [] ch = "\\" -> [r EXCEPT !.mode = "escape"]
    [] ch \notin {"\"", "\\"} -> [r EXCEPT !.str = Append(@, ch)]

Read(r, ch) ==
  CASE r.mode = "words"  -> InWords(r, ch)
    [] r.mode = "line"   -> IF ch = "\n" THEN [r EXCEPT !.mode = "words"] ELSE r
    [] r.mode = "block"  -> InBlock(r, ch)
    [] r.mode = "string" -> InString(r, ch)
    [] r.mode = "escape" -> [r EXCEPT !.mode = "string", !.str = Append(@, ch)]

AtEnd(r) ==
  CASE r.mode \in {"words", "line"}    -> Flushed(r)
    [] r.mode = "block"                -> [r EXCEPT !.mode = "unterminated comment"]
    [] r.mode \in {"string", "escape"} -> [r EXCEPT !.mode = "unterminated string"]

\* group_colon_defs: `: name body ;` up to the first `;`, and no more colons
\* looked for in the body.
Closings(words, i) == {j \in (i + 2)..Len(words) : words[j] = Ident(<<";">>)}

Defines(words, i) ==
  /\ words[i] = Ident(<<":">>)
  /\ i + 2 <= Len(words)
  /\ words[i + 1].word = "ident"
  /\ Closings(words, i) # {}

Definition(words, i) ==
  ColonDef(words[i + 1].text, SubSeq(words, i + 2, Min(Closings(words, i)) - 1))

Grouped(words) ==
  LET from[i \in 1..(Len(words) + 1)] ==
        IF i > Len(words) THEN << >>
        ELSE IF Defines(words, i) THEN <<Definition(words, i)>> \o from[Min(Closings(words, i)) + 1]
        ELSE <<words[i]>> \o from[i + 1]
  IN  from[1]

\* The reader after a whole text; and what the text parses to: the words, or
\* the error.
ReadFrom(r, text) ==
  LET after[i \in 0..Len(text)] == IF i = 0 THEN r ELSE Read(after[i - 1], text[i])
  IN  after[Len(text)]

ParsedFrom(text) == AtEnd(ReadFrom(Start, text))

\* Display, with any separator after each word where the code has a space.
Quoted(text) == <<"\"">> \o text \o <<"\"">>

Shown(w) ==
  CASE w.word = "str"   -> Quoted(w.text)
    [] w.word = "num"   -> Spelled(w.n)
    [] w.word = "ident" -> w.text

Plain(words, sep) == FlattenSeq([i \in DOMAIN words |-> Shown(words[i]) \o sep])

ShownWhole(w, sep) ==
  IF w.word = "def"
    THEN <<":">> \o sep \o w.text \o sep \o Plain(w.body, sep) \o <<";">> \o sep
    ELSE Shown(w) \o sep

Displayed(ast, sep) == FlattenSeq([i \in DOMAIN ast |-> ShownWhole(ast[i], sep)])

-----------------------------------------------------------------------------
\* Reading one source after another, character by character; a source may
\* end anywhere.

ReaderInit == reader = Start

ReadNext(ch) == reader' = Read(reader, ch)
StartOver == reader' = Start

ReaderNext == (\E ch \in Char : ReadNext(ch)) \/ StartOver

ReaderSpec == ReaderInit /\ [][ReaderNext]_reader

-----------------------------------------------------------------------------
(***************************************************************************)
(* Properties.                                                             *)
(***************************************************************************)

\* A separator ends the word before it, and reads as no word of its own.
Separates(sep) ==
  /\ sep \in Seq(ToSet(sep)) /\ sep # << >>
  /\ sep[1] \in White \cup {"\\", "("}
  /\ ReadFrom(Start, sep) = Start

ASSUME SeparatorsSeparate == \A sep \in Separator : Separates(sep)

\* What a word may consist of.
Ordinary == Char \ (White \cup Delimiter)

\* A number is printed as a word that spells the same number, as the
\* Display of f64 promises.
SpellsBack(t) ==
  LET spelled == Spelled(Numeral(t))
  IN  t # << >> /\ Numeral(t) # NoNumeral =>
        /\ spelled \in Seq(Ordinary) /\ spelled # << >>
        /\ Numeral(spelled) = Numeral(t)

NumbersSpellBack == \A t \in Seq(Ordinary) : SpellsBack(t)

\* A program printed reads as the same program, whatever it was read from,
\* and whatever separates the words.  Excepted are strings holding a quote or
\* a backslash, which Display does not escape.
Escaped(words) ==
  \E i \in DOMAIN words : words[i].word = "str" /\ ToSet(words[i].text) \cap {"\"", "\\"} # {}

PrintsBack ==
  LET end == AtEnd(reader) IN
  end.mode \notin Errors /\ ~ Escaped(end.words) =>
    \A sep \in Separator :
      LET again == ParsedFrom(Displayed(Grouped(end.words), sep))
      IN  again.mode \notin Errors /\ Grouped(again.words) = Grouped(end.words)

=============================================================================
