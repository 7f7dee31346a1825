------------------------------ MODULE MCForth ------------------------------
(* Programs over a short and a longer text, a number and six definitions,  *)
(* up to MaxVars values and any number of words that make none; every      *)
(* source the reader holds in MaxText characters; every tokenizer of       *)
(* MaxBuild calls.  In a source "dup" stands for three letters.            *)
EXTENDS HllsetCli, TLC

Digits == {"0", "1", "2", "3", "4", "5", "6", "7", "8", "9"}
Letters == {"a", "b", "B", "h"} \cup Digits
LowerCase(x) == IF x = "B" THEN "b" ELSE x
HPrefix == <<"h", ":">>
Blank == {" ", "\n"}

\* Decimal numerals, of hundredths.
Decimal(n) ==
  LET digits[k \in Nat] == IF k < 10 THEN <<ToString(k)>>
                           ELSE Append(digits[k \div 10], ToString(k % 10))
      whole == digits[(IF n < 0 THEN -n ELSE n) \div 100]
      cents == (IF n < 0 THEN -n ELSE n) % 100
  IN  (IF n < 0 THEN <<"-">> ELSE << >>) \o whole
      \o (IF cents = 0 THEN << >> ELSE IF cents % 10 = 0 THEN <<".", ToString(cents \div 10)>>
          ELSE <<".", ToString(cents \div 10), ToString(cents % 10)>>)
DigitValue(ch) == CHOOSE d \in 0..9 : ToString(d) = ch
NotANumeral == -1
Whole(token) ==
  IF ToSet(token) \subseteq Digits
    THEN 100 * FoldLeft(LAMBDA n, ch : 10 * n + DigitValue(ch), 0, token)
    ELSE NotANumeral

R == INSTANCE LuaRuntime WITH NumText <- Decimal, KeyPrefix <- HPrefix

Call3(w, args, world) == R!Run(w, args, world)
CountIn(v) == R!Count(v)
NoCount == R!NotACount
Empty == R!NothingStored
FunctionIn == R!LuaFunction

\* Of the names below, v1 is a variable and hllset the library's table.
Variable(name) == IF name = <<"v1">> THEN 2 ELSE 0
Assign(name, world) == IF name = <<"hllset">> THEN [world EXCEPT !.library = FALSE] ELSE world

Lit(v) == [op |-> "PUSH", lit |-> v]
Op(w) == [op |-> w, lit |-> R!Nil]

Word == R!Str(<<"a">>)
Phrase == R!Str(<<"a", " ", "B", "h", "-">>)
Two == R!Num(2 * R!One)

Literals == {Word, Phrase, Two}
Def(name, body) == [name |-> <<name>>, body |-> body]
Definitions ==
  {Def("f", <<Lit(Word), Op("TOKENIZE"), Op("DUP"), Op("STORE")>>),
   Def("f", <<Lit(Two), Lit(Word), Op("SWAP")>>)}
  \cup {Def(name, <<Lit(Word), Lit(Two), Op("INSCRIBE")>>) : name \in {"f", "hllset"}}
  \cup {Def(name, <<Op("LOAD")>>) : name \in {"v1", "hllset"}}

Sources == {"\n", "\\", "(", ")", "\"", ":", ";", "2", "dup"}
\* A space; comments to the end of the line, comments in comments, quotes in
\* comments.
Separators ==
  {<<" ">>, <<"\\", "(", "\"", "\n", "(", "\"", "(", ")", " ", "\\", ")">>}

\* What the theorems about the reader assume of its numbers, of short ones.
ASSUME ShortNumbersSpellBack == \A n \in 1..3 : \A t \in [1..n -> Ordinary] : SpellsBack(t)

StrOf(t) == R!Str(t)
NumOf(n) == R!Num(n)
Named(t) == IF t = <<"dup">> THEN "DUP" ELSE "none"
Nameless == "none"
IsLuaName(t) == ToSet(t) \subseteq {"2", "dup"} /\ t[1] \notin Digits

Atoms == {P!LiteralOf(<<"a", "B">>), P!AnyOf({"a"}), P!NotAny({"a"}), P!Span({"a", "B"}),
          P!Break({" "}), P!Arb}
Norms == {T!Lowercase, T!Trim, T!KeepOnly({"a", " "})}
Ends == {<< <<"^">>, <<"$">> >>}
Texts == {<<"a", "B", " ">>, <<" ", "a", "a", "B">>, <<"B", " ", "a", " ", "B">>}

-----------------------------------------------------------------------------
\* TOKENIZE of a text gives the sketch INSCRIBE makes of its words, the
\* longest runs of letters and digits, in lower case: no character of a word
\* is lost or counted in two words.  And with any tokenizer two n-grams are
\* one token only when they are the same words in the same order, and two
\* texts have one content key only when they have the same words: as long as
\* no word is empty or holds the separator.  The bridge, with n-grams of its
\* own, takes the same triples from a text.
IsRun(text, i, j) ==
  /\ \A k \in i..j : text[k] \in Letters
  /\ i > 1 => text[i - 1] \notin Letters
  /\ j < Len(text) => text[j + 1] \notin Letters
Runs(text) ==
  {[k \in 1..(p[2] - p[1] + 1) |-> LowerCase(text[p[1] + k - 1])] :
     p \in {q \in (1..Len(text)) \X (1..Len(text)) : q[1] <= q[2] /\ IsRun(text, q[1], q[2])}}

WindowsAreTold(kept) ==
  LET shown  == T!Windows(T!Padded(kept, tok.pad), tok.min, tok.max)
      tokens == T!Grams(tok, kept)
  IN  \A i, j \in DOMAIN tokens : tokens[i] = tokens[j] => shown[i] = shown[j]

\* The fingerprint of the bridge is the sketch of a tokenizer's own triples.
B == INSTANCE Bridge WITH First <- <<"^">>, Final <- <<"$">>

FingerprintAgrees(kept) ==
  LET triples == T!WithNgrams(T!WithPad(tok, <<"^">>, <<"$">>), 3, 3)
  IN  B!extract_3gram(kept) = ToSet(T!Grams(triples, kept))

K == INSTANCE ContentKeys WITH Separator <- Nul

KeysTell(one, other) ==
  << >> \notin ToSet(one \o other) =>
    \A p, q \in {"h", "c"} :
      K!ContentKey(one, p) = K!ContentKey(other, q) <=> p = q /\ ToSet(one) = ToSet(other)

TokenizeIsInscribe ==
  /\ c.counter > 0 /\ Last(c.env).kind = "string" =>
       R!Value("TOKENIZE", <<Last(c.env)>>, c.world)
         = R!Inscribe(SetToSeq({R!Str(t) : t \in Runs(Last(c.env).text)}))
  /\ stage = "build" /\ pats = << >> =>
       LET kept == [text \in Texts |-> T!Kept(tok, text)]
       IN  \A one, other \in Texts :
             /\ WindowsAreTold(kept[one])
             /\ KeysTell(kept[one], kept[other])
             /\ FingerprintAgrees(kept[one])

\* A pattern matches only what it denotes, with the captures of one and the
\* same way to match, and find_all passes over no place where it matches:
\* whatever patterns are put together, and on whatever text.  What a pattern
\* denotes and does not match, it misses for one reason: a sequence in it had
\* a first part that could end at several places, and the matcher, which does
\* not backtrack (pattern.rs:233-234; line 9 says it does), took one of them.
MatchesInLanguage ==
  pats # << >> =>
    \A text \in Texts :
      /\ P!Sound(Last(pats), text)
      /\ P!Complete(Last(pats), text)
      /\ P!Leftmost(Last(pats), text)

=============================================================================
