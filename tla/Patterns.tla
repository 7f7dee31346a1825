------------------------------ MODULE Patterns ------------------------------
(***************************************************************************)
(* The pattern matcher (crates/hllset-dsl/src/pattern.rs).  A text is a    *)
(* sequence of characters, a pattern a tree, a place in a text the number  *)
(* of the character there, one past the last at the end.                   *)
(***************************************************************************)
EXTENDS Integers, Sequences, SequencesExt, FiniteSets

LiteralOf(s) == [op |-> "literal", text |-> s]
AnyOf(S) == [op |-> "any", set |-> S]
NotAny(S) == [op |-> "notany", set |-> S]
Span(S) == [op |-> "span", set |-> S]
Break(S) == [op |-> "break", set |-> S]
Arb == [op |-> "arb"]
Cat(p, q) == [op |-> "cat", first |-> p, second |-> q]
Alt(p, q) == [op |-> "alt", first |-> p, second |-> q]
Capture(p) == [op |-> "capture", inner |-> p]

\* A match ends before `end`, and has captured some texts on the way.
NoMatch == [end |-> 0, captures |-> << >>]
To(end) == [end |-> end, captures |-> << >>]
OneIf(found, i) == IF found THEN To(i + 1) ELSE NoMatch

\* The end of the longest run of characters of S from i on.
RunEnd(text, i, S) ==
  CHOOSE q \in i..(Len(text) + 1) :
    /\ q <= Len(text) => text[q] \notin S
    /\ \A k \in i..(q - 1) : text[k] \in S

\* Two parts in sequence.
Joined(m, n) == [end |-> n.end, captures |-> m.captures \o n.captures]

Both(m, n) == IF n = NoMatch THEN NoMatch ELSE Joined(m, n)
Then(m, Second(_)) == IF m = NoMatch THEN NoMatch ELSE Both(m, Second(m.end))
OrElse(m, n) == IF m # NoMatch THEN m ELSE n
Captured(m, text, i) == IF m = NoMatch THEN NoMatch ELSE [m EXCEPT !.captures = Append(@, SubSeq(text, i, m.end - 1))]

RECURSIVE TryMatch(_, _, _)
TryMatch(p, text, i) ==
  LET chars == ToSet(text) IN
  CASE p.op = "literal" ->
         IF IsPrefix(p.text, SubSeq(text, i, Len(text))) THEN To(i + Len(p.text)) ELSE NoMatch
    [] p.op = "any"    -> OneIf(i <= Len(text) /\ text[i] \in p.set, i)
    [] p.op = "notany" -> OneIf(i <= Len(text) /\ text[i] \notin p.set, i)
    [] p.op = "span"   ->
         LET q == RunEnd(text, i, p.set) IN IF q > i THEN To(q) ELSE NoMatch
    [] p.op = "break"  -> To(RunEnd(text, i, chars \ p.set))
    [] p.op = "arb"    -> To(Len(text) + 1)
    [] p.op = "cat"    ->
         Then(TryMatch(p.first, text, i), LAMBDA j : TryMatch(p.second, text, j))
    [] p.op = "alt"    ->
         OrElse(TryMatch(p.first, text, i), TryMatch(p.second, text, i))
    [] p.op = "capture" ->
         Captured(TryMatch(p.inner, text, i), text, i)

\* Slip: the end of the text is no place to match.
MatchAtInside(p, text, i) == IF i > Len(text) THEN NoMatch ELSE TryMatch(p, text, i)
MatchAt(p, text, i) == IF i > Len(text) + 1 THEN NoMatch ELSE TryMatch(p, text, i)

\* find: the first place from i on where the pattern matches, with the match.
Find(p, text, i) ==
  LET found == {k \in i..(Len(text) + 1) : MatchAt(p, text, k) # NoMatch}
  IN  IF found = {} THEN << >>
      ELSE LET k == CHOOSE k \in found : \A j \in found : k <= j
           IN  <<[start |-> k, match |-> MatchAt(p, text, k)]>>

\* find_all: each match where the last one ended, or one on when it was
\* empty.  Slip: the scan goes on one character after a match began.
FindAllOverlapping(p, text) ==
  LET from[i \in 1..(Len(text) + 2)] ==
        LET m == MatchAt(p, text, i)
        IN  IF i > Len(text) + 1 THEN << >>
            ELSE IF m = NoMatch THEN from[i + 1]
            ELSE <<[start |-> i, match |-> m]>> \o from[i + 1]
  IN  from[1]
FindAll(p, text) ==
  LET from[i \in 1..(Len(text) + 2)] ==
        LET m == MatchAt(p, text, i)
        IN  IF i > Len(text) + 1 THEN << >>
            ELSE IF m = NoMatch THEN from[i + 1]
            ELSE <<[start |-> i, match |-> m]>> \o from[IF m.end > i THEN m.end ELSE i + 1]
  IN  from[1]

-----------------------------------------------------------------------------
(***************************************************************************)
(* What a pattern denotes: all the ways it could match, of which the       *)
(* matcher takes one.                                                      *)
(***************************************************************************)

\* The ways to match from i on, a sequence of parts taken in any way.
RECURSIVE Ways(_, _, _)
Ways(p, text, i) ==
  LET ends == i..(Len(text) + 1)
      Within(j, S) == \A k \in i..(j - 1) : text[k] \in S
      chars == ToSet(text)
  IN  CASE p.op = "literal" -> {To(j) : j \in {k \in ends : SubSeq(text, i, k - 1) = p.text}}
        [] p.op = "any"     -> {To(j) : j \in {k \in ends : k = i + 1 /\ Within(k, p.set)}}
        [] p.op = "notany"  -> {To(j) : j \in {k \in ends : k = i + 1 /\ Within(k, chars \ p.set)}}
        [] p.op = "span"    -> {To(j) : j \in {k \in ends : k > i /\ Within(k, p.set)}}
        [] p.op = "break"   -> {To(j) : j \in {k \in ends : Within(k, chars \ p.set)}}
        [] p.op = "arb"     -> {To(j) : j \in ends}
        [] p.op = "alt"     -> Ways(p.first, text, i) \cup Ways(p.second, text, i)
        [] p.op = "capture" -> {Captured(m, text, i) : m \in Ways(p.inner, text, i)}
        [] p.op = "cat"     ->
             UNION {{[end |-> n.end, captures |-> m.captures \o n.captures] :
                       n \in Ways(p.second, text, m.end)} : m \in Ways(p.first, text, i)}

\* Every match is one of the ways the pattern denotes, captures and all; a
\* pattern that denotes none is not matched.
Sound(p, text) ==
  \A i \in 1..(Len(text) + 1) :
    LET m == MatchAt(p, text, i) IN m # NoMatch => m \in Ways(p, text, i)

\* From i on, no sequence in the pattern has a choice where to go on.
RECURSIVE Settled(_, _, _)
Settled(p, text, i) ==
  CASE p.op = "cat" ->
         LET ends == {m.end : m \in Ways(p.first, text, i)}
         IN  /\ Cardinality(ends) <= 1
             /\ Settled(p.first, text, i)
             /\ \A j \in ends : Settled(p.second, text, j)
    [] p.op = "alt"     -> Settled(p.first, text, i) /\ Settled(p.second, text, i)
    [] p.op = "capture" -> Settled(p.inner, text, i)
    [] OTHER            -> TRUE

\* Where no sequence has a choice, the pattern matches if it denotes a match.
Complete(p, text) ==
  \A i \in 1..(Len(text) + 1) :
    Settled(p, text, i) /\ Ways(p, text, i) # {} => MatchAt(p, text, i) # NoMatch

\* find_all passes over no place that matches: each match is what find gives
\* from where the last one ended, and after the last one there is none.
Leftmost(p, text) ==
  LET all == FindAll(p, text)
      next(k) == IF k = 0 THEN 1
                 ELSE IF all[k].match.end > all[k].start THEN all[k].match.end
                 ELSE all[k].start + 1
  IN  \A k \in 0..Len(all) :
        Find(p, text, next(k)) = IF k = Len(all) THEN << >> ELSE <<all[k + 1]>>

=============================================================================
