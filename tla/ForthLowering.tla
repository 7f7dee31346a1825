--------------------------- MODULE ForthLowering ---------------------------
(***************************************************************************)
(* The compiler from Forth to Lua (crates/hllset-forth/src/lower_lua.rs)   *)
(* together with the script it generates.  The compiler keeps a stack of   *)
(* Lua variable names, a counter for new ones and, for number literals,    *)
(* the values it knows; the script is straight-line assignments to these   *)
(* variables.  Each line is run here as soon as it is emitted: the script  *)
(* has no jumps, so this is what running all of it afterwards does, up to  *)
(* the first call that fails.                                              *)
(*                                                                         *)
(* Variable v<n> is number n+1 here.  The variables are Lua globals, and   *)
(* the body of a definition is compiled with a counter of its own, from    *)
(* zero.  A definition assigns one more global: the function of its name,  *)
(* which may be a variable of the program or the library's table.          *)
(***************************************************************************)
EXTENDS Integers, Sequences, SequencesExt, FiniteSets

CONSTANTS
  Outcome(_, _, _), CountOf(_), Unknown, Literal,
  Definable,           \* [name, body], each name a single Lua name
  VariableNamed(_),    \* the number of the variable a name is, if it is one
  Function,            \* the Lua value of a definition's function
  Assigned(_, _),      \* Assigned(name, world): the library once the script
                       \* has a function of that name
  World0,     \* the library's state when the script starts
  MaxVars     \* bound on the variables of a script

ASSUME MaxVarsIsNat == MaxVars \in Nat

ASSUME LiteralsCount == \A v \in Literal : CountOf(v) \in Nat \cup {Unknown}

ASSUME UnknownIsNoCount == Unknown \notin Nat

VARIABLE c
  \* stack: the virtual stack, of variables; counter: the last variable made
  \* env[i]: the value variable i holds when the script gets here
  \* known[i]: the number literal in variable i, as a count, or Unknown
  \* world: the state of the library; ok: no call of the script has failed

\* A compilation about to start.
Fresh(world) ==
  [stack |-> << >>, counter |-> 0, env |-> << >>, known |-> << >>,
   world |-> world, ok |-> TRUE]

Init == c = Fresh(World0)

\* The values the variables on the virtual stack hold.
Values(x) == [i \in 1..Len(x.stack) |-> x.env[x.stack[i]]]

Machine == [stack |-> Values(c), world |-> c.world, ok |-> c.ok]

M == INSTANCE ForthMachine WITH m <- Machine

\* Pop k names; push a new variable holding v.  Slip: the name of a variable
\* is its place on the stack.
Popped(x, k) == [x EXCEPT !.stack = SubSeq(x.stack, 1, Len(x.stack) - k)]

NewVarByDepth(x, v, n) ==
  LET i == Len(x.stack) + 1
      k == IF i > x.counter THEN i ELSE x.counter
  IN  [x EXCEPT !.stack   = Append(x.stack, i),
                !.counter = k,
                !.env     = [j \in 1..k |-> IF j = i THEN v ELSE x.env[j]],
                !.known   = [j \in 1..k |-> IF j = i THEN n ELSE x.known[j]]]
NewVar(x, v, n) ==
  LET i == x.counter + 1
  IN  [x EXCEPT !.stack   = Append(x.stack, i),
                !.counter = i,
                !.env     = [j \in 1..i |-> IF j = i THEN v ELSE x.env[j]],
                !.known   = [j \in 1..i |-> IF j = i THEN n ELSE x.known[j]]]

-----------------------------------------------------------------------------
\* One word.

Pushed(x, v) == NewVar(x, v, CountOf(v))

\* DUP and OVER copy into a new variable; the others move names.  Slip: ROT
\* turns the other way.
MovesBack == [SWAP |-> <<2, 1>>, DROP |-> << >>, ROT |-> <<3, 1, 2>>]
Moves == [SWAP |-> <<2, 1>>, DROP |-> << >>, ROT |-> <<2, 3, 1>>]
Needs == [DUP |-> 1, SWAP |-> 2, DROP |-> 1, OVER |-> 2, ROT |-> 3]

Moved(x, w) ==
  LET top == SubSeq(x.stack, Len(x.stack) - Needs[w] + 1, Len(x.stack))
  IN  [x EXCEPT !.stack = Popped(x, Needs[w]).stack
                           \o [i \in 1..Len(Moves[w]) |-> top[Moves[w][i]]]]

Shuffled(x, w) ==
  IF Len(x.stack) < Needs[w] THEN x
  ELSE IF w \in {"DUP", "OVER"}
    THEN NewVar(x, x.env[x.stack[Len(x.stack) - Needs[w] + 1]], Unknown)
    ELSE Moved(x, w)

Nullary == {"EMPTY", "GC"}
Unary == {"TOKENIZE", "CARD", "POPCOUNT", "KEY", "LOAD", "LIST", "STORE", "PIN", "UNPIN"}
Binary == {"UNION", "INTERSECT", "DIFF", "BSS", "JACCARD"}
Calls == Nullary \cup Unary \cup Binary

Pops(w) == IF w \in Nullary THEN 0 ELSE IF w \in Unary THEN 1 ELSE 2

Statements == {"STORE", "PIN", "UNPIN"}

\* The values of the top k variables, deepest first.
Args(x, k) == [i \in 1..k |-> x.env[x.stack[Len(x.stack) - k + i]]]

Called(x, w) ==
  LET k == Pops(w)
      r == Outcome(w, Args(x, k), x.world)
      y == [Popped(x, k) EXCEPT !.world = r.world]
  IN  IF Len(x.stack) < k THEN x
      ELSE IF ~ r.ok THEN [x EXCEPT !.ok = FALSE]
      ELSE IF w \in Statements THEN y
      ELSE NewVar(y, r.value, Unknown)

\* The count is looked up among the literals when the program is compiled;
\* anything else counts as one.
CountUsed(x) ==
  LET n == x.known[Last(x.stack)] IN IF n = Unknown THEN 1 ELSE n

Inscribed(x) ==
  LET rest == Popped(x, 1)
      k    == IF CountUsed(x) < Len(rest.stack) THEN CountUsed(x) ELSE Len(rest.stack)
      r    == Outcome("INSCRIBE", Args(rest, k), x.world)
  IN  IF x.stack = << >> THEN x
      ELSE IF ~ r.ok THEN [x EXCEPT !.ok = FALSE]
      ELSE NewVar([Popped(rest, k) EXCEPT !.world = r.world], r.value, Unknown)

Compiled(x, t) ==
  IF ~ x.ok THEN x
  ELSE CASE t.op = "PUSH" -> Pushed(x, t.lit)
         [] t.op = "INSCRIBE" -> Inscribed(x)
         [] t.op \in DOMAIN Needs -> Shuffled(x, t.op)
         [] t.op \in Calls -> Called(x, t.op)

\* A body is a sequence of literals and of words other than definitions.
IsWord(t) ==
  \/ t.op = "PUSH" /\ t.lit \in Literal
  \/ t.op \in {"INSCRIBE"} \cup DOMAIN Needs \cup Calls

ASSUME BodiesAreWords ==
  \A d \in Definable : d.body \in Seq(ToSet(d.body)) /\ \A t \in ToSet(d.body) : IsWord(t)

\* `function name() ... end`
FunctionNamed(x, name) ==
  [x EXCEPT !.world = Assigned(name, x.world),
            !.env = [i \in 1..x.counter |-> IF i = VariableNamed(name) THEN Function ELSE x.env[i]]]

\* The call that follows it: the body assigns the globals v0, v1, ... of its
\* own count.  Slip: the body is compiled on the stack of the program.
RunBodyInPlace(x, body) == FoldLeft(Compiled, x, body)
RunBody(x, body) == FoldLeft(Compiled, Fresh(x.world), body)

\* A value alone, a table of none or of several.
Returned(b) == IF Len(b.stack) = 1 THEN b.env[b.stack[1]]
               ELSE Outcome("TABLE", Values(b), b.world).value

CallBody(x, body) ==
  LET b == RunBody(x, body)
      y == [x EXCEPT !.world = b.world,
                     !.env = [i \in 1..x.counter |->
                                IF i <= b.counter THEN b.env[i] ELSE x.env[i]]]
  IN  IF b.ok THEN NewVar(y, Returned(b), Unknown)
              ELSE [x EXCEPT !.ok = FALSE]

Defined(x, name, body) == CallBody(FunctionNamed(x, name), body)

-----------------------------------------------------------------------------

Running == c.ok /\ c.counter < MaxVars

Push(v) == Running /\ c' = Pushed(c, v)
ShuffleStack(w) == Running /\ c' = Shuffled(c, w)
Call(w) == Running /\ c' = Called(c, w)
Inscribe == Running /\ c' = Inscribed(c)
Define(d) == Running /\ c' = Defined(c, d.name, d.body)

\* The program may end after any word.
Finish == UNCHANGED c

Next ==
  \/ \E v \in Literal : Push(v)
  \/ \E w \in DOMAIN Needs : ShuffleStack(w)
  \/ \E w \in Calls : Call(w)
  \/ Inscribe
  \/ \E d \in Definable : Define(d)
  \/ Finish

Spec == Init /\ [][Next]_c

-----------------------------------------------------------------------------
(***************************************************************************)
(* Properties.                                                             *)
(***************************************************************************)

\* The inductive invariant: the stack names distinct variables, each assigned
\* before it is read, so that no two places of the stack share one and a new
\* variable never overwrites a value still on the stack.
WellFormed(x) ==
  /\ DOMAIN x = {"stack", "counter", "env", "known", "world", "ok"}
  /\ x.counter \in Nat
  /\ x.ok \in BOOLEAN
  /\ x.stack \in Seq(1..x.counter)
  /\ DOMAIN x.env = 1..x.counter
  /\ DOMAIN x.known = 1..x.counter
  /\ \A i \in 1..x.counter : x.known[i] \in Nat \cup {Unknown}
  /\ \A i, j \in 1..Len(x.stack) : x.stack[i] = x.stack[j] => i = j
LoweringInv == WellFormed(c)

\* The count compiled into an INSCRIBE is not that of the value on the stack:
\* the value was copied or computed, or its variable overwritten.
Misreads(x) ==
  /\ x.stack # << >>
  /\ CountUsed(x) # CountOf(x.env[Last(x.stack)])
MisreadsCount == Misreads(c)

\* The generated script does what the table of words says: each word changes
\* the values on the stack, the stored sketches and the outcome as its stack
\* effect has it, whatever was moved, copied, dropped or overwritten before,
\* and wherever the library's table is lost, as without it.  For an INSCRIBE
\* the table has "( tokens... n -- hllset )" (hllset-forth/src/lib.rs:36); the
\* code takes another n for a misread count, and is right in all else.  For
\* definitions see below.  (A word that changes nothing is a step of the
\* machine that changes nothing.)
WordsAreForth ==
  [][ c' # c =>
      /\ \A v \in Literal : Push(v) => M!Push(v)
      /\ \A w \in DOMAIN Needs : ShuffleStack(w) => M!ShuffleStack(w)
      /\ \A w \in Calls : Call(w) => M!Call(w)
      /\ Inscribe => M!Inscribe \/ (MisreadsCount /\ M!InscribeOf(CountUsed(c))) ]_c

\* Running the body meets an INSCRIBE that misreads its count.
MisreadsWithin(x, body) ==
  \E k \in 1..Len(body) :
    LET b == RunBody(x, SubSeq(body, 1, k - 1))
    IN  b.ok /\ body[k].op = "INSCRIBE" /\ Misreads(b)

\* The places of the stack whose variables the definition assigns: that of its
\* name, and those the body counts up to.
Overwritten(x, name, body) ==
  {i \in 1..Len(x.stack) :
     x.stack[i] = VariableNamed(name) \/ x.stack[i] <= RunBody(FunctionNamed(x, name), body).counter}

SameBut(a, b, places) ==
  /\ a.world = b.world /\ a.ok = b.ok /\ Len(a.stack) = Len(b.stack)
  /\ \A i \in 1..Len(a.stack) : i \notin places => a.stack[i] = b.stack[i]

\* A definition runs its body on a stack of its own, in a library that may be
\* lost to its name, and pushes what the body leaves: the value, or a table of
\* none or of several.  (The comment at lower_lua.rs:243, "Return the top of
\* stack (or empty table)", is wrong for several; lines 248-257 return them
\* all.)  It changes no other value but those in variables that it assigns,
\* its name one of them.  Excepted is an INSCRIBE in the body that misreads
\* its count.
DefinitionsPush ==
  [][ c' # c => \A d \in Definable :
        Define(d) /\ ~ MisreadsWithin(FunctionNamed(c, d.name), d.body) =>
          SameBut(Machine',
                  M!Defined([Machine EXCEPT !.world = Assigned(d.name, c.world)], d.body),
                  Overwritten(c, d.name, d.body)) ]_c

=============================================================================
