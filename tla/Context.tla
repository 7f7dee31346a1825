------------------------------ MODULE Context ------------------------------
(***************************************************************************)
(* The Noether context (crates/hllset-context/src/lib.rs) over the sketch  *)
(* an ingest module keeps under seed 0, and the chain of commits that      *)
(* records its evolution (crates/hllset-core/src/core/commit.rs).          *)
(*                                                                         *)
(* A commit names what it records by content keys.  SHA-1 is taken to be   *)
(* injective: a key is its prefix with the very content it is made of, so  *)
(* the store is the set of the keys put.  The clock may stand still: the   *)
(* timestamp plays no part.                                                *)
(*                                                                         *)
(* The client that commits is outside src/: it puts the sketches, then the *)
(* commit, then the head, as COMMIT of _DOCS/dev/STANDARD.md:237-240 does, *)
(* and may crash between any two of these.                                 *)
(***************************************************************************)
EXTENDS Ingest, Sequences, SequencesExt

CONSTANTS
  MaxCommits,     \* bound on the commits begun
  MaxSteps,       \* bound on the tokens ingested and the commits begun
  MaxCrashes      \* bound on crashes of the client

VARIABLES
  ctx,        \* the context, [state, generators]
  store,      \* the keys put
  head,       \* system:head, the key of the last commit or NoHead
  pending,    \* the commit under way, as a sequence of at most one
  begun,      \* commits begun
  crashes

ctxVars == <<ctx, store, head, pending, begun, crashes>>

-----------------------------------------------------------------------------
\* Contexts.

\* Bitmap equality: both differences are empty.  Slip: only one is looked at.
SameSetOneWay(G, H) == G \ H = {}
SameSet(G, H) == G \ H = {} /\ H \ G = {}

FromGenerators(gs) == [state |-> UNION ToSet(gs), generators |-> gs]

WithGenerator(c, g) == FromGenerators(Append(c.generators, g))

\* retain: every generator equal to g goes, the others keep their order.
Retained(gs, g) ==
  LET kept[k \in 0 .. Len(gs)] ==
        IF k = 0 THEN <<>>
        ELSE IF SameSet(gs[k], g) THEN kept[k - 1] ELSE Append(kept[k - 1], gs[k])
  IN  kept[Len(gs)]

WithoutGenerator(c, g) == FromGenerators(Retained(c.generators, g))

-----------------------------------------------------------------------------
\* Evolution and commits.

\* What departed, what was retained and what is novel.  Slip: the retained
\* part keeps what departed.
EvolveKeepsAll(previous, current) ==
  [departed |-> previous \ current, retained |-> previous, novel |-> current \ previous]
Evolve(previous, current) ==
  [departed |-> previous \ current,
   retained |-> previous \cap current,
   novel    |-> current \ previous]

\* invariants_hold.
NoetherHolds(n, previous, current) ==
  /\ SameSet(n.departed \cup n.retained, previous)
  /\ SameSet(n.retained \cup n.novel, current)
  /\ n.departed \cap n.novel = {}

Key(prefix, content) == <<prefix, content>>

NoHead == Key("t", <<>>)

\* Commit::new and content_key.
NewCommit(source, prev, n) ==
  [s |-> Key("o", source), h |-> prev,
   d |-> Key("d", n.departed), r |-> Key("r", n.retained), n |-> Key("n", n.novel)]
ContentKey(c) == Key("t", <<c.s, c.h, c.d, c.r, c.n>>)

\* The commit a key was made of.
CommitOf(k) ==
  LET f == k[2] IN [s |-> f[1], h |-> f[2], d |-> f[3], r |-> f[4], n |-> f[5]]

ChainValid(c, prevKey) == c.h = prevKey

\* The states a commit says it led from and to.
Before(c) == c.d[2] \cup c.r[2]
After(c) == c.r[2] \cup c.n[2]

-----------------------------------------------------------------------------

ContextInit ==
  /\ Init
  /\ ctx = FromGenerators(<<>>)
  /\ store = {}
  /\ head = NoHead
  /\ pending = <<>>
  /\ begun = 0
  /\ crashes = 0

\* The context evolves to c by the sketch g, and the sketches of the commit
\* that records it are put.
Evolved(c, g) ==
  /\ pending = <<>>
  /\ begun < MaxCommits
  /\ touched + begun < MaxSteps
  /\ begun' = begun + 1
  /\ ctx' = c
  /\ LET commit == NewCommit(g, head, Evolve(ctx.state, c.state))
     IN  /\ pending' = <<commit>>
         /\ store' = store \cup {commit.s, commit.d, commit.r, commit.n}
  /\ UNCHANGED <<vars, head, crashes>>

InsertGenerator(g) == Evolved(WithGenerator(ctx, g), g)

RemoveGenerator(g) == Evolved(WithoutGenerator(ctx, g), g)

PutCommit ==
  /\ pending # <<>>
  /\ ContentKey(pending[1]) \notin store
  /\ store' = store \cup {ContentKey(pending[1])}
  /\ UNCHANGED <<vars, ctx, head, pending, begun, crashes>>

\* The head is put once the commit is.
PutHead ==
  /\ pending # <<>>
  /\ ContentKey(pending[1]) \in store
  /\ head' = ContentKey(pending[1])
  /\ pending' = <<>>
  /\ UNCHANGED <<vars, ctx, store, begun, crashes>>

\* The context is lost, and restored from the head as one generator.
Crash ==
  /\ crashes < MaxCrashes
  /\ crashes' = crashes + 1
  /\ pending' = <<>>
  /\ ctx' = FromGenerators(IF head = NoHead THEN <<>> ELSE <<After(CommitOf(head))>>)
  /\ UNCHANGED <<vars, store, head, begun>>

\* The input is used up.
ContextDone == touched + begun = MaxSteps /\ pending = <<>> /\ UNCHANGED <<vars, ctxVars>>

ContextNext ==
  \/ ContextDone
  \/ touched + begun < MaxSteps /\ Next /\ UNCHANGED ctxVars
  \/ InsertGenerator(hllsets[0])
  \/ \E g \in ToSet(ctx.generators) : RemoveGenerator(g)
  \/ PutCommit
  \/ PutHead
  \/ Crash

ContextSpec == ContextInit /\ [][ContextNext]_<<vars, ctxVars>>

-----------------------------------------------------------------------------
(***************************************************************************)
(* Properties.                                                             *)
(***************************************************************************)

CommitKeys == {k \in store : k[1] = "t"}

\* From the head, the chain gives back every state the context went through,
\* to its start: wherever a crash fell, the head is in the store; each commit
\* there has its D, R and N in the store, and leads from where the commit it
\* links to led to.  D \cup R and R \cup N are the states before and after.
ChainReplays ==
  /\ head # NoHead => head \in store
  /\ \A k \in CommitKeys :
       LET c == CommitOf(k)
       IN  /\ {c.d, c.r, c.n} \subseteq store
           /\ NoetherHolds([departed |-> c.d[2], retained |-> c.r[2],
                            novel |-> c.n[2]], Before(c), After(c))
           /\ c.h = NoHead => Before(c) = {}
           /\ c.h # NoHead => c.h \in store /\ After(CommitOf(c.h)) = Before(c)
  /\ pending = <<>> =>
       ctx.state = IF head = NoHead THEN {} ELSE After(CommitOf(head))
  /\ pending # <<>> => ChainValid(pending[1], head) /\ After(pending[1]) = ctx.state

\* "insert o remove = id at the generator level"
\* (crates/hllset-context/src/lib.rs:173), unless the generator was there
\* before: then its equals go with it, with the bits no other generator has.
RemoveUndoesInsert ==
  \A g \in SUBSET hllsets[0] :
    LET c == WithoutGenerator(WithGenerator(ctx, g), g)
    IN  /\ g \notin ToSet(ctx.generators) <=> c.generators = ctx.generators
        /\ ctx.state \ c.state
             = {i \in g : g \in ToSet(ctx.generators) /\
                  \A h \in ToSet(ctx.generators) : i \in h => h = g}

\* The inductive invariant behind ChainReplays: a commit under way has its
\* sketches in the store and leads from where the head led to.
Led(k) == IF k = NoHead THEN {} ELSE After(CommitOf(k))
ChainInv ==
  /\ ChainReplays
  /\ head # NoHead => head \in CommitKeys
  /\ pending # <<>> =>
       LET m == pending[1]
       IN  /\ pending = <<m>>
           /\ m = NewCommit(m.s[2], head, Evolve(Led(head), ctx.state))
           /\ {m.s, m.d, m.r, m.n} \subseteq store

=============================================================================
