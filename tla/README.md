# Verification of hllset-next

TLA+ models of hllset-next, TLC runs over small instances of them, and theorems
about them that TLAPS checks. Paths below are relative to the repository, with
`crates/x` for `crates/hllset-x`.

The system stores *HLLSets*: bitmaps of 1024 registers of 32 bits in which a
token leaves one bit, chosen by its hash. They form a lattice (union,
intersection, difference), are stored under the hash of their bytes, and are
turned back into tokens through a reverse index (LUT) and term frequencies (TF).
A Lua runtime, a Forth front end, a router for several nodes and a pipeline of
scripts that index a git repository are built on top.

1. [Inventory](#1-inventory)
2. [Modules and the code](#2-modules-and-the-code)
3. [Runs](#3-runs)
4. [Fairness](#4-fairness)
5. [Proofs](#5-proofs)
6. [Findings](#6-findings)
7. [What is not modelled](#7-what-is-not-modelled)
8. [Plan](#8-plan)

## 1. Inventory

Every component with its state, its operations, what it interacts with, what is
hard about it, and what makes it correct.

### Storage: `crates/storage`, `crates/cid`

The trait `Storage` (`storage.rs`) has eleven calls in two groups:
content-addressed `put get has delete list pin unpin gc`, and temporal
`put_tmp get_tmp cas_tmp`. `pin`, `unpin`, `gc` and the temporal calls have
defaults that do nothing, or refuse.

- **MemoryStorage** keeps three maps behind `Rc`, shared by all clones: data,
  pinned keys, temporal values. It overrides everything.
- **CacheStorage** keeps a map of cached bytes with their times and a queue of
  keys in order of use, in front of any backend. It overrides only the five
  basic calls, so `pin` through a cache is the default.
- **SledStorage** hands the five calls to an embedded database.

Hard: the backend may be shared with handles the cache does not see; a backend
that does I/O may fail before or after it took effect; queue and map are two
structures kept in step by hand; expiry is noticed only by `get`; clients
interleave pins, collections and compare-and-swaps. Correct: a sole user cannot
tell the cache from the backend; capacity and order of eviction; how stale an
answer can be; pinned data survives; no swap loses an update.

### Sketches and lattice: `crates/core`, `contracts`, `lut`, `morphisms`, `ranks`, `context`

- **HLLSet** (`hllset.rs`, `operations.rs`): a bitmap; add, union, intersection,
  difference, merge. **Cardinality** and **BSS** (`cardinality.rs`, `bss.rs`):
  an estimate summed over bit planes, and the ratio of two estimates.
- **Hashing and tokens** (`contracts`): a 64-bit hash of a token under a seed
  gives its bit.
- **LUT** (`lut`): for a seed, the tokens seen at each bit; **LutNode**: the
  tokens a node has seen; **AtomTree**: a Merkle tree over the bits of either.
- **Ingest**, **materialize**, **TF** (`morphisms`): one touch of a token changes
  a sketch and a LUT per seed and the TF table; materializing gives for each
  active bit a token of its fiber, by TF where there are several.
- **Ranks** (`ranks`): TF folded over fibers, registers and sketches.
- **Context** (`context`): a state as the join of generators, which are inserted
  and removed; `evolve` splits two states into what departed, was retained and is
  novel. **Commit** (`commit.rs`) records such a step by content keys and links to
  the commit before. The client that puts sketches, commit and head is not in the
  repository; its order is that of `_DOCS/dev/STANDARD.md:237-240`.
- **Follow matrix** (`context`), **TF vector** (`tfvec.rs`): grow-only tables over
  pairs of tokens and over bits, merged by maximum.
- **Content addresses, serialization** (`content_addr.rs`, `serialization.rs`):
  keys of token sets; the dense form of a sketch.

Hard: collisions within a seed and between seeds; one touch updates many
structures that are read together later; merges of snapshots that arrive late,
twice or in another order; counters that must neither lose nor double count;
commits that are several puts, with a crash between any two.
Correct: materialization restores exactly the bits asked for; replicas that
heard of the same observations are equal; ranks count each observation once; from
the head, the commits give back every state.

### Distributed routing: `crates/dsl/src/distributed.rs`

A node keeps a *fingerprint*, the union of what it holds, and a count; a router
keeps the last fingerprint it was given of each node, ranks nodes by
`bss_inclusion` against a request, and a `MultiSourceMerge` unions the answers.
Hard: removal cannot take bits back; entries of the router age; scores are
ratios of estimates; equal scores come out of a `HashMap` in any order; answers
come late, twice or never. Correct: no fingerprint hides data; stale bits are
those of dropped sets; a current entry with relevant data is ranked; merged
answers are exact.

### DSL and Forth: `crates/dsl`, `crates/forth`, `crates/cli`

- **DslRuntime** (`runtime.rs`, `lattice.rs`): a Lua VM with bindings over a
  MemoryStorage of its own.
- **Tokenizer and patterns** (`tokenizer.rs`, `pattern.rs`): a builder puts
  together a pattern of combinators, normalizers, padding and a range of n-grams.
  **Worker** (`worker.rs`): four calls that hand on to elements and a store.
- **Forth** (`parse.rs`, `ast.rs`, `lower_lua.rs`): a source is read character by
  character, its definitions are grouped, and it is compiled to straight-line Lua
  over variables `v0, v1, ...`, with a virtual stack of variable names. **CLI**
  (`main.rs`) does this for one argument and runs the result.

Hard: names moved, copied and dropped on the virtual stack; counts that must be
known while compiling; definitions whose bodies share the global variables;
comments that nest and hold quotes; a matcher that takes one way of many; tokens
joined by a separator. Correct: the generated script does what the table of words
(`crates/forth/src/lib.rs:34-56`) says; a program reads as it prints; what matches is
in the pattern's language, and it matches all of that unless a sequence had a choice; n-grams and keys tell texts apart.

### Ingest pipeline: `scripts`

`ingest.py` (file, batch, commit), `ingest_init.py`, the `post-commit` hook and
the commit TUI. State: `.hllset_lattice/metadata.json`, its temporary file, and
a process's copy of it. They interact with git, with the working tree people
edit meanwhile, with the `hllset` binary (30 s timeout) and with each other.
Hard: a process killed between truncating, writing and renaming; two processes
at once; files read after the commit they are indexed for; files that fail;
commits ingested twice. Correct: the metadata is always whole, forgets nothing,
and its keys are never older than the commit they are recorded for.

### Without state: `crates/bridge`, `contracts/module.rs`, `stream.rs`, the lattice TUI

A structural fingerprint of texts, re-encodings and correlations in floating
point; static port tables; a one-slot wrapper; screens over git and the metadata
file.

### Interactions

    scripts --Lua text--> cli --> dsl runtime --> tokenizer, lattice elements, storage
                           ^
            forth source --+--> forth (compiled to Lua)
    distributed --> core (cardinality, bss) <-- lattice elements
    ranks --> morphisms --> lut --> core --> contracts
    context --> core (sketches, commits, keys) <-- bridge

All Rust code is single-threaded (`Rc<RefCell>`): what interleaves are calls of
several holders of one handle, replicas, nodes and processes.

## 2. Modules and the code

`PROJECT.json` maps each definition to its lines. An operator whose comment says
*Slip* is a plausible mistake in the definition that follows it; PROJECT.json
lists, for each property, a slip that violates it.

| Module | Code | State and actions |
|---|---|---|
| `KVStore` | `storage.rs`, `sled.rs` | abstract: one map, one answer; five calls, each may fail |
| `MemoryStorage` | `memory.rs` | `data`, `pinned`, `temporal`; actions on them and what calls return |
| `CacheStorage` | `cache.rs` | `cache`, `fresh`, `lru` over a `MemoryStorage`; the calls, their failures, the clock, peers |
| `HlppClients` | `storage.rs`, `runtime.rs:86-182` | clients over a handle that overrides the defaults or does not |
| `Encoding` | `core`, `lut`, `morphisms`, `ranks` | no state: sketches, LUTs, TF, materialization, ranks over any hash |
| `AtomTree` | `lut` | no state: the Merkle tree, with an injective hash |
| `Ingest` | `morphisms/ingest.rs` | one ingest module: sketches and LUTs per seed, TF |
| `Context` | `context`, `commit.rs` | a context over that module's sketch, the store, the head, a commit under way; crashes |
| `GrowTables` | `context`, `tfvec.rs` | no state: follow matrix and TF vector |
| `IngestReplicas` | `ingest.rs`, `tf.rs`, `lut`, `operations.rs` | replicas, snapshots under way, crashes |
| `Distributed` | `distributed.rs`, `cardinality.rs`, `bss.rs` | nodes, router, client with collected answers |
| `Pipeline` | `scripts` | working tree and git, processes, the two files on disk |
| `ForthMachine` | `forth/lib.rs:34-56` | abstract: a stack of values, the table of words |
| `ForthLowering` | `lower_lua.rs` | the compiler's stack, counter and literals; the script's variables |
| `ForthReader` | `parse.rs`, `ast.rs` | the reader: its mode, what it collects, the words; grouping and printing |
| `HllsetCli` | `cli/main.rs`, the builders | what a process is at, the reader, words left, a tokenizer and its patterns |
| `Patterns` | `pattern.rs` | no state: the matcher, and the language a pattern denotes |
| `Tokenizer` | `tokenizer.rs` | no state: extraction, normalizers, padding, n-grams |
| `ContentKeys` | `content_addr.rs` | no state: keys of token sets |
| `Bridge` | `bridge` | no state: the 3-gram fingerprint |
| `LuaRuntime` | `runtime.rs`, `lattice.rs` | no state: values, and what each call accepts, answers and changes |

`CacheStorage` composes with `MemoryStorage` and instantiates `KVStore` with the
backend's map as refinement mapping. `HlppClients` extends `MemoryStorage`.
`Ingest` instantiates `Encoding` with the hash functions as a variable, so one run
covers all of them; `Context` extends `Ingest` and evolves by the sketch of seed 0,
whatever has been ingested by then. `IngestReplicas` extends `Encoding`, through
`GrowTables`, with a constant hash; its replicas carry the grow-only tables too.
`ForthLowering` instantiates `ForthMachine` with the values its variables hold as
mapping, and takes the library as an operator, which `MCForth` sets to `LuaRuntime`
and the proofs leave arbitrary. `HllsetCli` extends `ForthLowering`: what the reader
of `ForthReader` read is compiled word by word, a definition with its body at once;
another stage hands the compiler words directly, as a caller of `compile_to_lua` may,
and a third builds tokenizers from `Tokenizer` and `Patterns`. Alone, the reader reads
characters for ever and starts over at any of them (`ReaderSpec`), which is how the proof
takes it. The `*Proofs` modules hold the theorems (`ForthProofs` those of the reader and
of the compiler), `FoldLemmas` what several of them need, the `MC*` modules the values
and symmetries of the runs.

How the code is abstracted:

- **Calls are atomic.** The Rust code is single-threaded; a call is one action
  with everything it does, down to the eviction loop at its end.
- **Errors.** A `?` is an action of its own in which exactly what the code did
  before it has happened: a failed `delete` has already forgotten the cached
  entry (`CacheStorage!DeleteFails`). A backend that failed after taking effect
  is `PutTorn` and `DeleteTorn`.
- **Time** is the set `fresh` of entries within their TTL; the clock takes one out.
- **Hashes** are arbitrary functions (`Position`). SHA-1 is taken as injective: a
  content key is a model value, or what was hashed with its prefix (`Context`,
  `ContentKeys`, `AtomTree`), or the sketch itself in `LuaRuntime`.
- **Characters** are those the reader or a pattern treats differently, and one or
  two of the rest; a word of three letters is one character in sources.
- **Sketches** are sets of pairs (register, zeros); estimates are thousandths
  from a table `FHat` of the estimator, rounded as in the code.
- **Snapshots** in `IngestReplicas` carry as history the observations that led to
  them, so that "have heard of the same" can be said. The LUT is represented by
  its node; that fibers follow from it is `LutIsBuilt` in `Ingest`.
- **Files** in `Pipeline` are bodies with the writers that have them open: a
  rename moves a file with its writers, and a write lands in the file that was
  opened. The history of texts of a file stands for time in it.
- **The script** in `ForthLowering` runs a line as soon as it is emitted, which
  is the same as running it afterwards because it has no jumps.

History variables (`older`, `dirty`, `promised`, `kept`, `expected`, `own`,
`total`, `heard`, `dropped`, `answered`, the past texts in `Pipeline`) are not
state of the program. No guard reads them but those of the bounds on edits and
observations.

## 3. Runs

Twelve runs. Bounds are constants named in the modules and set in the `.cfg`.

| Run | Question and result |
|---|---|
| `cache_shared` | A cache of one entry over a backend others write, delete and collect, with torn calls; two keys, two values. `IndInv`, the inductive invariant, holds; cached bytes are the backend's unless it was changed behind the cache (`CoherentUnlessInterfered`); a stale answer needs a fresh entry of a changed key (`StaleOnlyWithinTtl`); the cache changes no bytes by itself (`CanonicalDataKept`). |
| `cache_sole` | Three keys, two entries, no other user: queue and map in step, capacity, least recent evicted, and `ImplementsKVStore`: no answer tells the cache from the backend. Two entries and three keys are the least with an eviction that has a choice. |
| `clients_memory` | Two clients, two keys, one counter up to 3. `KeptSurvives`: no order of put, pin, unpin, gc loses what is promised; `NoLostUpdate`: a read returns what the acknowledged writes add up to. |
| `clients_pin_default` | The same through inherited defaults: `KeptSurvives` fails (finding 1). |
| `ingest_one` | Three tokens, two seeds, four bits, *every* pair of hash functions up to the naming of the bits, so all collisions within and across seeds; four steps (`MaxSteps`), each a touch or the start of a commit, of which two (`MaxCommits`), and one crash. `LutIsBuilt` (with the Merkle tree), `RestoreRoundTrip` for every part of every sketch, `EveryBitExplained`, `RankCountsTouches` at every level and under every fold; `ChainReplays`, `RemoveUndoesInsert`. |
| `replicas` | Three replicas, two tokens that collide under one seed, one transition with a weight of 0 or 1, three observations, three snapshots, one crash. `Converged`, `TfBounded`, `SketchMatchesNode`, `QuiescentMeansEqual`, and the inductive `ReplicasInv`, all of them of the follow matrix and the TF vector as well. |
| `routing` | Two nodes, two overlapping sketches, a client that asks one node and collects two answers. `FingerprintCovers`, `StaleOnlyUntilRebuild`, `NoRelevantNodeMissed`, `MergeIsExact`. |
| `routing_saturated` | Three registers, one plane saturated: `FullScoreMeansAll` fails (finding 2). |
| `pipeline` | One process at a time, two files, four texts (two with keys, one blank, one empty), two edits, two commits, two runs, a death at any step. `AlwaysReadable`, `AtLeastAsNew`, `NothingForgotten`, `EveryRunEnds`. |
| `pipeline_rerun` | The same commit ingested twice: `RecordedOnce` fails (finding 3). |
| `pipeline_shared` | Two processes: `AlwaysReadable` fails (finding 4). |
| `forth` | Every program of words over three literals and six definitions that makes up to four variables (`MaxVars`): `LoweringInv`, `WordsAreForth`, `DefinitionsPush`. Every source the reader holds in four characters and open parentheses (`MaxText`), quoted strings of one and other words of up to two (`MaxWord`): `PrintsBack`; what was read is compiled and run. Every tokenizer of up to five method calls (`MaxBuild`), two patterns at a time, n-grams up to pairs (`MaxGram`): `MatchesInLanguage`, and `TokenizeIsInscribe` on three texts. |

Why the bounds are enough. What can go wrong is reached within them: the
passing runs fire every action between them, and each property has a slip that
violates it under the same bounds. Beyond that:

- The cache, the clients, the replicas, the routing and the pipeline have
  inductive invariants proved for all values of the constants (section 5), so for
  those properties the bounds only serve to find the invariant.
- `ingest_one`: all its properties are proved too. A bit relates a fiber of one seed to
  that of another; with three tokens a fiber has a winner, a loser and an outsider,
  with four touches any two counts tie or differ. Two commits are the least with a
  link, and the crash may fall between any puts.
- `routing`: the scores compare two nodes at a time. A plane that
  is saturated here has none above it, so no estimate is extrapolated; that case is
  `routing_saturated`.
- `forth`: the words move at most three values (`ROT`); four variables leave one below.
  `LoweringInv`, `WordsAreForth` and `DefinitionsPush` are proved for programs and
  bodies of any length, `PrintsBack` for sources of any length. Of the four bodies one
  calls the library with what it has, one stores, one leaves two values and one
  inscribes with a literal count. One name is that of a variable, with a body that
  assigns none below it, so that it is the name alone that overwrites; one is `hllset`,
  so that the calls of the body, or of the program after it, find no library. In four
  characters the reader nests comments, meets each delimiter inside every other, ends in
  every mode, and reads a definition with one word in its body; how far it reads in all
  is not bounded, since it forgets comments. Five calls put three patterns together in
  any two ways, or capture parts of two.

`CHECK_DEADLOCK FALSE` is set for the pipeline only, which stops when its bounds
are used up; nothing in it waits for anything but the binary.

Symmetry is used for safety and action properties over interchangeable model
values; the run with a liveness property uses none.

## 4. Fairness

Only `Pipeline` states any: weak fairness of `Step(p)`, the steps of a running
process. Each is a file to read, a call of the binary, which ends after 30 s at
the latest (`scripts/ingest.py:35`), or a write. Nothing is assumed of
people, of git, of new processes starting or of deaths. `EveryRunEnds` needs it:
without the timeout (the slip `FailHangs`) a run may wait for ever.

The other modules are libraries. Whether a call is made is for the caller to
decide, so nothing must happen in them, and no fairness is justified.

## 5. Proofs

TLAPS proves these for all values of the constants that satisfy the `ASSUME`s of
the modules: `None` is no value, capacities and bounds are natural numbers; keys,
nodes and bits are finitely many, and registers and zeros are numbered
(`BitsAreNumbers`, `PlanesAreNumbered`); 0 is a seed (`ZeroIsSeed`, the seed of
`lut`'s trees and of contexts); hashes map tokens to bits, and tokens are natural
numbers in their lexicographic order; a sketch has two registers or more
(`SeveralRegisters`; the code has 1024) and the estimator's table gives a natural
number, at least one element, for each number of registers set (`FHatIsTable`,
`FHatGrows`); a body is a finite sequence of words that are no definitions
(`BodiesAreWords`, what `parse.rs` groups); no white space is a delimiter
(`WhiteIsNoDelimiter`), and a separator ends the word before it and is read as nothing
(`SeparatorsSeparate`). TLC evaluates the assumptions on every run.

| Module | Theorem | Establishes |
|---|---|---|
| `CacheStorageProofs` | `InvariantHolds` | `IndInv` |
| | `TypeCorrect`, `QueueMirrorsCache`, `WithinCapacity`, `Coherent` | its parts |
| | `EvictionOrder`, `StalenessBounded`, `CanonicalBytesKept` | the action properties |
| | `SoleImplementsKVStore` | the cache implements the plain store |
| `HlppClientsProofs` | `ClientsInvHolds` | `ClientsInv` |
| | `PinProtects`, `CasLosesNothing` | `KeptSurvives`, `NoLostUpdate`, if `Overrides` |
| `IngestReplicasProofs` | `ReplicasInvHolds` | `ReplicasInv` |
| | `Convergence`, `Quiescence`, `CountsBounded`, `FinestSymmetry` | the four properties |
| | `ProjectionIsLattice` | restricting a follow matrix commutes with the merge, is idempotent, adds nothing |
| `ContextProofs` | `ChainHolds` | `ChainReplays` |
| | `IngestTyped`, `IndexHolds` | `TypeOK` of `Ingest`, and `IndexIsBuilt`, the first half of `LutIsBuilt` |
| | `LutHolds` | `LutIsBuilt`: with it, the Merkle tree over the index |
| | `BitsExplained`, `RoundTrips` | `EveryBitExplained`, `RestoreRoundTrip` |
| | `RanksCount` | `RankCountsTouches` |
| | `RemoveUndoes` | `RemoveUndoesInsert` |
| `DistributedProofs` | `RoutingTypes` | `TypeOK` |
| | `FingerprintsCover`, `StaleBitsAreDropped`, `MergesAreExact`, `HoldersAreAsked` | the four properties |
| `PipelineProofs` | `PipelineTypes`, `KeysAreAsNewAsTheCommit` | `TypeOK`, `AtLeastAsNew`, any number of processes |
| | `MetadataIsAlwaysReadable`, `NothingIsForgotten` | if no two processes run at once |
| `ForthProofs` | `ReaderTypes` | what the reader may hold, whatever it read |
| | `ProgramsPrintBack` | `PrintsBack`, if numbers are printed as words that spell them |
| | `LoweringTypes`, `CompiledWordsAreForth` | `LoweringInv`, `WordsAreForth` |
| | `CompiledDefinitionsPush` | `DefinitionsPush` |
| `FoldLemmas` | (lemmas) | sums over finite sets, recursive functions, extremes |

The arguments:

**Cache.** None of the properties is inductive alone. Capacity needs queue and map
to hold the same keys, each once (`LruMirrorsCache`), so that popping n keys from
the back removes n entries; the order of eviction needs the queue sorted by last
use (`RecencyOrder`); staleness needs fresh entries to be cached (`FreshIsCached`)
and cached bytes to differ from the backend's only for dirty keys. `IndInv` is
their conjunction. The proof has a lemma on what popping from the back of the
queue leaves, and one step per action. For `SoleImplementsKVStore` the invariant
adds that nothing is dirty; then a hit answers what the backend would, the other
calls map to those of `KVStore`, expiry to a stutter.

**Clients.** `pinned = promised` and `temporal = expected` if the handle overrides
the defaults: what the clients believe is what the store has. `Overrides` is an
assumption of the two properties because without it `KeptSurvives` is false.

**Replicas.** `ReplicasInv` says of every state *and every snapshot under way* that
it is explained by the observations in its history: its tokens are theirs, its
sketches those of its tokens, each count the largest of theirs. Two lemmas show
that a touch and a join keep this. Then equal histories give equal states, which
is `Converged`; and if joins change nothing, all histories are equal. The upper
bound of `TfBounded` has to be carried through the snapshots too, since a crashed
replica may be told its own past.

The follow matrix and the TF vector are joined like the counts; `MaxTable` says
for all of them that an entry is the greatest of its observations.

**Context.** `ChainReplays` is not inductive: that a commit, once put, replays rests
on what the client put before. `ChainInv` adds that a commit under way has its
sketches in the store and leads from where the head led to, so that putting it
extends the chain, and that a head is a commit. A crash then only forgets the
commit under way. Keys are told apart because they are what was hashed
(`CommitFacts`).

**Index and materialization.** `IngestInv` says each LUT is the one built of the
tokens observed, finitely many, and each sketch theirs; one touch adds one token to
all of them (`ObservedGrows`). Materializing then rests on the tie-break having a
winner in every fiber (`SomeWinner`): a token that fewest others beat is beaten by
none, since those that beat its better beat it too. That needs a minimum of
cardinalities and no induction.

**Merkle tree.** `TreeIsAddress` holds for more than the injectivity of the hash: the
last node of an odd level is paired with itself, which in general confuses a sequence
with that sequence and a last element repeated. It does not here because the atoms are
sorted without repetition, so no level has a node twice (`UpDistinct`), and a level is
determined by the one above (`UpInjective`). Two climbs that meet at a root are then
followed down in step, and end together because a leaf is no node (`RootTells`). That
`build` sorts what it hashes is what the proof rests on, for sets of bits of any size.

**Ranks.** `RankInv` adds to `IngestInv` that TF summed over the tokens observed is the
number of touches; a touch adds one to one summand (`SumBump`). The ranks group
this sum in three ways, by bits, by registers and their bits, and by sketches of one bit:
each token is in exactly one fiber of its seed, and summing over fibers is
summing over tokens (`SumByFibers`). By Max and Min a fold finds an extreme of
what it folds, and extremes of extremes are extremes.

**Removing generators.** `RemoveUndoesInsert` is proved of every context that is the join
of its generators (`JoinIsContext`): filtering an appended generator out again leaves the
sequence alone, element for element, if none equals it (`RetainedAppend`).

**Routing.** Coverage and staleness are proved together: what removal leaves in
the fingerprint is charged to `dropped`. For the merge, one more answer joins one
more term (`MergeAppend`). Scores play no part in those; the types need only that a
ranking lists nodes the router knows (`RankingsKnown`). `NoRelevantNodeMissed` is about
the score: a node that shares a bit with the request must not be estimated at zero.
The estimate is a sum over planes, so one plane that counts is enough
(`EstimatePositive`). That is the lowest unsaturated one, or, if all planes that have
bits are saturated, any of them (`SomePlaneCounts`). So the node is relevant
(`SharerIsRelevant`), and a ranking, being sorted and cut off, leaves out a relevant node
only for TopK that score no less (`RankingKeepsBest`).

**Pipeline.** A key travels from the tree into a process's copy, the temporary
file, the metadata, the next process's copy. `PipelineInv` says the same of each
stop: each record is that of a text the file had since the commit; it grows only
truer as texts are appended. It needs no exclusion, so stale keys are ruled out for
any number of processes, even those that overwrite each other. With one process
(`SoleProcess`), `SoleInv` adds what the temporary file is in each phase, and that
the copy extends what is published.

**Forth.** `WellFormed`: the stack names distinct variables, all assigned before.
Distinctness keeps a new variable from overwriting a value still on the stack, and
is what the slip `NewVarByDepth` loses. For each kind of word a lemma says how the
values move when the names do (`PoppedValues`, `NewVarValues`, `CopyStep`,
`MoveStep`, `InscribeStep`); `WordStep` puts them together. The library is arbitrary.

A definition runs a whole body, so `DefinitionsPush` needs an induction over it
(`BodyRuns`): after each word the body's values are those of the machine
(`BodyWordStep`). What it returns is then what the machine leaves, and the
program's own values are untouched but in the variables that were assigned
(`CallsPush`). That lemma is about the machine on any stack as long as the program's,
because the name has been assigned before the body runs: `FunctionNamed` may have put
the function into a variable of the stack, or taken the library from the body.
`DefineStep` then charges each place that differs to the name or to the body's
variables (`Overwritten`); the library, the outcome, the value pushed and all other
places agree (`SameBut`). Nothing is assumed of what is overwritten. `MisreadsWithin`,
an `INSCRIBE` in the body with a misread count, is the one exception.

**Reading and printing.** The reader holds at any time only words that can be spelled
(`ReaderTypes`): a name without white space or delimiters, a number some such name
spells, a string. Each of them, printed with a separator after it and read where no
word is under way, adds itself to the words read and leaves the reader there
(`ReadShown`). A separator is known only by how it reads from the start; that it reads so
after a word, too, is because its first character already keeps the word
(`ReadSeparator`), and because the reader reads on the same whatever words it already
holds (`OntoReadFrom`): nothing it does looks back at them. The list of words follows by
induction over it (`ReadPlain`). Grouping comes in last: a definition is printed
character for character as the words it was made from (`ItemShown`), hence a grouped
program as the ungrouped one (`DisplayedGrouped`), and reading it gives the same words to
group. That `:` and `;` inside a body, or a `:` without its `;`, come out the
same needs no case of its own.

`NumbersSpellBack` is a hypothesis of `ProgramsPrintBack` and not an assumption of the
module: it is a promise of the standard library about `f64` (the shortest digits that
parse to the same number, and `NaN` and `inf` by names that parse), and the sign of
zero is lost, which the code's equality of numbers does not see. TLC checks it for the
run's numbers of up to three characters. Strings with a quote or a backslash are excepted
because the property fails for them (section 6).

**Folds and recursive functions.** The induction theorems of the library take an
operator as parameter, which the provers cannot instantiate. `FoldLemmas` argues by a
least counterexample instead, taken from the well-foundedness of `<` (`LeastNat`,
`LeastSet`). A recursive function or a fold is a CHOOSE of a table with its equations; a
table is built one entry after the other (`FiniteRecursion`, `SumTableExists`,
`DidTableExists`), so that the CHOOSE has one, and two tables agree wherever what they are
made from does. From there come the laws by which the proofs compute: a sum splits at
any element whatever order the fold took (`SumSplits`), and running a body is
running its words in turn (`DidInTurn`). For sequences `SeqByAppend` is the induction:
a set of sequences that grows at the end is all of them.

Only model-checked:

- `EveryRunEnds`, because it is liveness.
- `MatchesInLanguage`: the matcher and the language of a pattern are RECURSIVE operators
  over trees, of which nothing can be proved.
- `TokenizeIsInscribe`: it instantiates the matcher.
- The four findings: TLC gives the traces.

## 6. Findings

Each has a run in which TLC finds the property violated.

1. `clients_pin_default`, `KeptSurvives`. `CacheStorage` and `SledStorage` inherit
   `pin` from the trait (`storage.rs:62`): it answers `Ok` and does nothing. put and
   pin through a cache, gc through the store it wraps: the key is gone. The trait
   says "prevent garbage collection", the standard "PIN(cid) => cid not in GC()"
   (`_DOCS/dev/STANDARD.md:202`).
2. `routing_saturated`, `FullScoreMeansAll`. A saturated plane is extrapolated from
   the lowest sparse plane (`cardinality.rs:71`), and may be estimated below the
   same plane with a bit missing. A node that lacks a bit of the request then
   scores 1.0, which `distributed.rs:157-158` says means it has everything.
3. `pipeline_rerun`, `RecordedOnce`. A commit ingested twice has two records
   (`ingest.py:202`), and commits made in the TUI are ingested twice, by the hook and
   by the TUI itself. `post-commit:7` calls it idempotent.
4. `pipeline_shared`, `AlwaysReadable`. All processes write the same `metadata.tmp`
   (`ingest.py:117`): one may rename the file another has just truncated.

Met while modelling, without a run of their own:

- *Storage.* `cas_tmp` answers a mismatch with `Err(CasMismatch)` and a missing key
  with `Err(NotFound)` (`memory.rs:97-110`), where `storage.rs:94-95` and the law
  cas-reject say `false`. `put_tmp` through a cache or sled answers `Ok` and drops the
  bytes, against the law tmp-put-get. `put` overwrites, where `storage.rs:45` says
  that repeated PUTs have no effect. An expired entry is not evicted on access
  (`cache.rs:36`): after a miss in the backend it stays, and `has` and `list` still
  count it.
- *Routing.* `set_count` is documented as the number of distinct sets but counts
  every `add`; `remove` promises a "full recompute on next access" that does not
  exist (`distributed.rs:66`), so the fingerprint is more than the union of the sets
  held (`distributed.rs:30`) until `rebuild`.
- *Materialize.* Candidates of several encodings are pooled per bit, so a token that
  collides with nothing under its own seed may lose to one of another seed.
- *Forth.* The count of an `INSCRIBE` is looked up, while compiling, among the literals'
  own variables (`lower_lua.rs:114`), and is 1 for any other: `2 2 DUP INSCRIBE` takes
  one token, where the table of words says "( tokens... n -- hllset )"
  (`crates/forth/src/lib.rs:36`). A body that leaves several values returns a table of
  all of them (`lower_lua.rs:248-257`), which the definition pushes; the comment says
  "Return the top of stack (or empty table)" (`lower_lua.rs:243`). `WordsAreForth` and
  `DefinitionsPush` say what the code does. The body of a definition overwrites `v0, v1,
  ...` of the program: `1 : F 2 ;` returns 2 twice. So does its name: `"x" : v0 ;` loses
  "x" to the function, and after `: hllset ;` every call of the library fails
  (`lower_lua.rs:236`). No text says that they may not; `DefinitionsPush` says that
  nothing else is lost. A defined word used later pushes its name as a string, although
  the comment says it becomes a call. Underflow is ignored without a word.
- *Pipeline.* A renamed file is ingested under neither name (`ingest.py:181-182`), and
  deleted files stay in the index. A file of whitespace is stored with key `None`,
  printing which raises and has the file reported as failed. A text that ends in
  `]===` closes the Lua long string early (`ingest.py:84-88`), and the file fails.
- *Patterns.* `pattern.rs:9` promises "backtracking with greedy span/arb", and line 212
  speaks of it, but a sequence goes on from the one match its first part gives
  (`pattern.rs:233-234`): `arb`, then a literal, matches nothing. `MatchesInLanguage`
  says that nothing is missed for another reason.
- *Reading and printing.* `Display` escapes neither quotes nor backslashes
  (`ast.rs:72`), so strings with them do not read back, and `PrintsBack` excepts them.
  The compiler escapes both but no line break (`lower_lua.rs:60`): such a string, or a
  definition with a name that is no Lua name, makes the whole script fail to load.
  Whole numbers print as `1` in Rust and `1.0` in Lua; `inf` and `NaN` are
  numbers to the reader and global names to Lua.
- *Tokens joined by NUL.* Content keys and n-grams do not tell apart token lists in
  which a token is empty or holds a NUL; `TokenizeIsInscribe` excepts those.
- *Tokenizer in Lua.* The builder methods return nothing (`runtime.rs:372-396`), so
  they cannot be chained; a range of n-grams that is empty or starts at 0 panics
  (`tokenizer.rs:164`).
- *Context.* "insert∘remove = id" (`context/src/lib.rs:173`) is false when an equal
  generator was there before: all equals go. `RemoveUndoesInsert` says exactly when.
- *Commits.* `to_json` writes the fields in the order of the struct
  (`commit.rs:78-80`), not in the canonical order of line 10.
- *Worker.* `inscribe` ignores the store's error (`worker.rs:24`) and answers a key
  under which nothing may be.
- *BSS.* `bss.rs:21-26` states that morphisms compose with the minimum of their
  inclusions; for ratios of sets they need not.

## 7. What is not modelled

| Part | Why |
|---|---|
| Thresholded morphisms, symmetric difference, dense form of a sketch | estimates against thresholds the caller picks; conversions of a 4 KB array |
| `make_cid`, `parse_cid`, user and system keys, JSON of a commit, TF vector's bytes | formats of strings and bytes |
| `list` by prefix, the DSL's methods no compiled word reaches, the worker | single calls without state of their own |
| Words in parentheses of the AST | the parser never makes them and the compiler passes them over |
| MurmurHash, SHA-1, roaring bitmaps, serde | arithmetic and libraries; any hash function is allowed instead |
| sled's durability | a promise of the library and its configuration |
| Re-encoding and rank correlations in the bridge | floating point over large sketches, out of TLC's reach |
| The interactive prompt, argument handling, the TUIs' screens, JSON printing | input and output only |
| Module contracts, streams | static tables; nothing drives them yet |

Simplifications in modelled parts that could hide a fault:

- `LuaRuntime` ignores collisions of sketches and takes estimates as exact; what
  compilation does to values does not depend on either.
- `Context` gives a commit no timestamp: two commits of equal content have equal keys,
  which a moving clock would keep apart. The chain replays either way.
- Sources and patterns are over a handful of characters (section 2); that a character
  is white space, a digit or a letter is all the code asks of the others.
- A failed call ends a script in `ForthLowering`, as an uncaught Lua error does.
- A definition's name is a single Lua name. A field's (`a.b`, which Lua also takes after
  `function`) is left out: it changes what the table or userdata `a` holds.
- `IngestReplicas` joins a snapshot's sketches and LUT node in one step. The code has a
  call for each and nobody who makes both; `SketchMatchesNode` says that a caller who
  does keeps them in agreement, and not what a reader sees between the two calls.
- `NothingForgotten` is checked and proved for one process at a time. Two processes read
  the metadata, and the later one to save drops what the other recorded.
- `Pipeline` gives a file the whole text at one moment: an editor that writes in two
  steps is not modelled. git's rename detection is by equal content only.
- In `NoLostUpdate` clients only increment; the value space is small and finite.

## 8. Plan

Done: the storage layer; the sketch algebra with ingest, replication, ranks and the
Merkle tree; contexts and commits; the grow-only tables; routing; the pipeline; the
reader, the compiler and the library under it; patterns and tokenizers; and the
theorems of section 5.

Next, in this order:

1. **Commits of two clients** of one store: the head is put without a comparison, so one
   of two chains is lost unless `cas_tmp` guards it. The repository has no such client
   yet.
2. **Sketches in dense form**: `from_dense` and `to_dense` against sets of bits.
3. **Proofs**: that n-grams and keys tell texts apart, for all texts.
