---------------------------- MODULE ForthMachine ----------------------------
(***************************************************************************)
(* What the Forth words mean: the stack effects tabulated in               *)
(* crates/hllset-forth/src/lib.rs, on a stack of values.  How a program    *)
(* gets there (variables, generated Lua) is not its concern.               *)
(*                                                                         *)
(* The table does not say what a word does when its operands are missing;  *)
(* here, as in the compiler, it does nothing, and INSCRIBE takes the       *)
(* tokens there are.  JACCARD is compiled but missing from the table.      *)
(***************************************************************************)
EXTENDS Integers, Sequences, SequencesExt

CONSTANTS
  Outcome(_, _, _),   \* Outcome(w, args, world): running library call w;
                      \* a record [ok, value, world]
  CountOf(_),         \* the token count a number stands for, or Unknown
  Unknown             \* what CountOf says of a value that is not a number

VARIABLE m            \* [stack, world, ok]; ok: no call has failed

\* The last k elements of s, and what is below them.
Top(s, k) == SubSeq(s, Len(s) - k + 1, Len(s))
Below(s, k) == SubSeq(s, 1, Len(s) - k)

\* Stack manipulation: how many values a word takes, and which of them it
\* leaves, counted from the deepest.
Shuffle ==
  [DUP  |-> [takes |-> 1, leaves |-> <<1, 1>>],
   SWAP |-> [takes |-> 2, leaves |-> <<2, 1>>],
   DROP |-> [takes |-> 1, leaves |-> << >>],
   OVER |-> [takes |-> 2, leaves |-> <<1, 2, 1>>],
   ROT  |-> [takes |-> 3, leaves |-> <<2, 3, 1>>]]

\* Library calls: how many arguments a word takes.
Nullary == {"EMPTY", "GC"}
Unary == {"TOKENIZE", "CARD", "POPCOUNT", "KEY", "LOAD", "LIST", "STORE", "PIN", "UNPIN"}
Binary == {"UNION", "INTERSECT", "DIFF", "BSS", "JACCARD"}
Calls == Nullary \cup Unary \cup Binary

Takes(w) == IF w \in Nullary THEN 0 ELSE IF w \in Unary THEN 1 ELSE 2

\* Calls that leave nothing on the stack.
Silent == {"STORE", "PIN", "UNPIN"}

-----------------------------------------------------------------------------
\* What a token does to a machine x.

Pushed(x, v) == [x EXCEPT !.stack = Append(x.stack, v)]

Shuffled(x, w) ==
  LET k    == Shuffle[w].takes
      kept == Shuffle[w].leaves
  IN  IF Len(x.stack) < k THEN x
      ELSE [x EXCEPT !.stack =
              Below(x.stack, k) \o [i \in 1..Len(kept) |-> Top(x.stack, k)[kept[i]]]]

\* x after a call that took the top k values and answered r.
Answered(x, k, r, left) ==
  IF r.ok THEN [x EXCEPT !.stack = Below(x.stack, k) \o left, !.world = r.world]
          ELSE [x EXCEPT !.ok = FALSE]

Called(x, w) ==
  LET k == Takes(w)
      r == Outcome(w, Top(x.stack, k), x.world)
  IN  IF Len(x.stack) < k THEN x
      ELSE Answered(x, k, r, IF w \in Silent THEN << >> ELSE <<r.value>>)

\* ( tokens... n -- hllset ), whatever number n stands for.
InscribedOf(x, n) ==
  LET rest == Below(x.stack, 1)
      k    == IF n < Len(rest) THEN n ELSE Len(rest)
      r    == Outcome("INSCRIBE", Top(rest, k), x.world)
  IN  IF n = Unknown THEN [x EXCEPT !.ok = FALSE]
      ELSE Answered(x, k + 1, r, <<r.value>>)

Inscribed(x) == IF x.stack = << >> THEN x ELSE InscribedOf(x, CountOf(Last(x.stack)))

\* A token [op, lit]; only PUSH uses its literal.
Ran(x, t) ==
  IF ~ x.ok THEN x
  ELSE CASE t.op = "PUSH" -> Pushed(x, t.lit)
         [] t.op = "INSCRIBE" -> Inscribed(x)
         [] t.op \in DOMAIN Shuffle -> Shuffled(x, t.op)
         [] t.op \in Calls -> Called(x, t.op)

\* A definition runs its body once, on a stack of its own, and pushes what it
\* leaves: the value itself, or a table of none or of several.
Defined(x, body) ==
  LET b == FoldLeft(Ran, [x EXCEPT !.stack = << >>], body)
      v == IF Len(b.stack) = 1 THEN b.stack[1]
           ELSE Outcome("TABLE", b.stack, b.world).value
  IN  IF b.ok THEN [b EXCEPT !.stack = Append(x.stack, v)]
              ELSE [x EXCEPT !.ok = FALSE]

-----------------------------------------------------------------------------

Push(v) == m' = Pushed(m, v)
ShuffleStack(w) == m' = Shuffled(m, w)
Call(w) == m' = Called(m, w)
Inscribe == m' = Inscribed(m)
InscribeOf(n) == m' = InscribedOf(m, n)

=============================================================================
