----------------------------- MODULE LuaRuntime -----------------------------
(***************************************************************************)
(* The values of a script and the library it calls: the bindings of        *)
(* crates/hllset-dsl/src/runtime.rs over lattice.rs, tokenizer.rs and a    *)
(* MemoryStorage of the script's own.                                      *)
(*                                                                         *)
(* A sketch is the set of strings inscribed (no collisions; those are the  *)
(* subject of Encoding), its content key a value of its own, its estimate  *)
(* exact.  Numbers count hundredths.  Strings written in programs are not  *)
(* numerals.                                                               *)
(***************************************************************************)
EXTENDS Integers, Sequences, SequencesExt, FiniteSets

CONSTANTS
  WordChar, White, Lower(_), Nul,
  NumText(_),       \* a number as Rust and Lua print it
  KeyPrefix         \* the text every content key begins with ("h:")

T == INSTANCE Tokenizer

Str(t) == [kind |-> "string", text |-> t]
Num(n) == [kind |-> "number", n |-> n]
Sketch(H) == [kind |-> "hllset", bits |-> H]
Key(H) == [kind |-> "key", of |-> H]    \* a string, to Lua
Hex(H) == [kind |-> "hex", of |-> H]    \* a key's digits, met only as a token
Table(vs) == [kind |-> "table", items |-> vs]
LuaFunction == [kind |-> "function"]
Nil == [kind |-> "nil"]

One == 100
KeyLength == 42       \* "h:" and 40 hexadecimal digits
Fraction(A, B) == Num(IF B = {} THEN One ELSE (One * Cardinality(A)) \div Cardinality(B))

\* The library's state: the sketches stored, by key, the strings pinned, and
\* whether the global hllset is still the table of its functions.
NothingStored == [data |-> {}, pinned |-> {}, library |-> TRUE]

-----------------------------------------------------------------------------

Stringlike == {"string", "key", "number"}     \* what a String argument accepts
AsString(v) == IF v.kind = "number" THEN Str(NumText(v.n)) ELSE v

\* inscribe: strings and numbers of the table; anything else is passed over.
Inscribe(args) == Sketch({AsString(a) : a \in {x \in ToSet(args) : x.kind \in Stringlike}})

\* tokenize: the default word tokenizer, lower-cased, no padding, single words.
\* A content key is "h:" and a word of digits.
TokenizeText(v) ==
  Sketch({Str(w) : w \in ToSet(T!Tokenize(T!WithNormalizer(T!New, T!Lowercase), v.text))})

\* `#v`.
LengthOf(v) == CASE v.kind = "hllset" -> Num(One * Cardinality(v.bits))
                 [] v.kind = "string" -> Num(One * Len(v.text))
                 [] v.kind = "key"    -> Num(One * KeyLength)
                 [] v.kind = "table"  -> Num(One * Len(v.items))

\* + * - on sketches are the lattice operations, on numbers arithmetic.
Algebra(w, A, B) == CASE w = "UNION"     -> A \cup B
                      [] w = "INTERSECT" -> A \cap B
                      [] w = "DIFF"      -> A \ B
Arithmetic(w, x, y) == CASE w = "UNION"     -> x + y
                         [] w = "INTERSECT" -> (x * y) \div One
                         [] w = "DIFF"      -> x - y

Keys(data) == {Key(H) : H \in data}
StartsWith(k, p) == p \in {k, Str(<< >>), Str(KeyPrefix)}
Listed(data, p) == Table(SetToSeq({k \in Keys(data) : StartsWith(k, p)}))

-----------------------------------------------------------------------------
\* What a call accepts: the rest is a Lua error, which ends the script.

\* Functions of the table hllset; the other words are operators and methods.
LibraryCalls == {"INSCRIBE", "TOKENIZE", "EMPTY", "STORE", "LOAD", "LIST", "PIN", "UNPIN", "GC"}

BothAre(args, kind) == args[1].kind = kind /\ args[2].kind = kind

Accepts(w, args) ==
  CASE w \in {"INSCRIBE", "TABLE", "EMPTY", "GC"} -> TRUE
    [] w \in {"TOKENIZE", "LOAD", "LIST", "PIN", "UNPIN"} -> args[1].kind \in Stringlike
    [] w \in {"STORE", "KEY", "POPCOUNT"} -> args[1].kind = "hllset"
    [] w = "CARD" -> args[1].kind \in {"hllset", "string", "key", "table"}
    [] w \in {"BSS", "JACCARD"} -> BothAre(args, "hllset")
    [] w \in {"UNION", "INTERSECT", "DIFF"} ->
         BothAre(args, "hllset") \/ BothAre(args, "number")

Value(w, args, world) ==
  CASE w = "INSCRIBE" -> Inscribe(args)
    [] w = "TABLE"    -> Table(args)
    [] w = "EMPTY"    -> Sketch({})
    [] w = "TOKENIZE" -> IF args[1].kind = "key" THEN Sketch({Str(<<"h">>), Hex(args[1].of)})
                         ELSE TokenizeText(AsString(args[1]))
    [] w = "CARD"     -> LengthOf(args[1])
    [] w = "POPCOUNT" -> Num(One * Cardinality(args[1].bits))
    [] w = "KEY"      -> Key(args[1].bits)
    [] w = "LOAD"     -> IF args[1] \in Keys(world.data) THEN Sketch(args[1].of) ELSE Nil
    [] w = "LIST"     -> Listed(world.data, AsString(args[1]))
    [] w = "GC"       -> Table(SetToSeq(Keys(world.data) \ world.pinned))
    [] w = "BSS"      -> Fraction(args[1].bits \cap args[2].bits, args[2].bits)
    [] w = "JACCARD"  -> Fraction(args[1].bits \cap args[2].bits, args[1].bits \cup args[2].bits)
    [] w \in {"UNION", "INTERSECT", "DIFF"} ->
         IF BothAre(args, "hllset") THEN Sketch(Algebra(w, args[1].bits, args[2].bits))
                                    ELSE Num(Arithmetic(w, args[1].n, args[2].n))
    [] OTHER          -> Nil

WorldAfter(w, args, world) ==
  CASE w = "STORE" -> [world EXCEPT !.data = @ \cup {args[1].bits}]
    [] w = "PIN"   -> [world EXCEPT !.pinned = @ \cup {AsString(args[1])}]
    [] w = "UNPIN" -> [world EXCEPT !.pinned = @ \ {AsString(args[1])}]
    [] w = "GC"    -> [world EXCEPT !.data = {H \in @ : Key(H) \in world.pinned}]
    [] OTHER       -> world

Run(w, args, world) ==
  IF Accepts(w, args) /\ (w \in LibraryCalls => world.library)
    THEN [ok |-> TRUE, value |-> Value(w, args, world), world |-> WorldAfter(w, args, world)]
    ELSE [ok |-> FALSE, value |-> Nil, world |-> world]

\* `n as usize`: negative numbers count as none, fractions are cut off.
NotACount == -1
Count(v) == IF v.kind # "number" THEN NotACount
            ELSE IF v.n < 0 THEN 0 ELSE v.n \div One

=============================================================================
