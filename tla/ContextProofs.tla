---------------------------- MODULE ContextProofs ----------------------------
(***************************************************************************)
(* The chain of commits, for every set of tokens, seeds and bits, every    *)
(* hash function, any number of commits and of crashes.                    *)
(***************************************************************************)
EXTENDS Context, FoldLemmas, SequenceTheorems

\* A commit made by NewCommit is the one its key was made of, and says from
\* where to where it led.
Recorded(m, g, k, P, C) ==
  /\ CommitOf(ContentKey(m)) = m
  /\ ContentKey(m) # NoHead /\ ContentKey(m)[1] = "t"
  /\ Before(m) = P /\ After(m) = C /\ m.h = k /\ m.s[2] = g
  /\ NoetherHolds([departed |-> m.d[2], retained |-> m.r[2], novel |-> m.n[2]], P, C)
  /\ m.s[1] # "t" /\ m.d[1] # "t" /\ m.r[1] # "t" /\ m.n[1] # "t"

LEMMA CommitFacts ==
  \A g, k, P, C : Recorded(NewCommit(g, k, Evolve(P, C)), g, k, P, C)
<1> TAKE g, k, P, C
<1> DEFINE m == NewCommit(g, k, Evolve(P, C))
<1>1. /\ m.s = <<"o", g>> /\ m.h = k /\ m.d = <<"d", P \ C>>
      /\ m.r = <<"r", P \cap C>> /\ m.n = <<"n", C \ P>>
      /\ m = [s |-> m.s, h |-> m.h, d |-> m.d, r |-> m.r, n |-> m.n]
  BY DEF NewCommit, Evolve, Key
<1> HIDE DEF m
<1>2. /\ ContentKey(m) = <<"t", <<m.s, m.h, m.d, m.r, m.n>>>>
  BY DEF ContentKey, Key
<1>3. CommitOf(ContentKey(m)) = m
  BY <1>1, <1>2 DEF CommitOf
<1>4. ContentKey(m) # NoHead
  <2>1. <<m.s, m.h, m.d, m.r, m.n>> # <<>>
    OBVIOUS
  <2> QED BY <1>2, <2>1 DEF NoHead, Key
<1>5. Before(m) = P /\ After(m) = C
  BY <1>1 DEF Before, After
<1>6. NoetherHolds([departed |-> m.d[2], retained |-> m.r[2], novel |-> m.n[2]], P, C)
  BY <1>1 DEF NoetherHolds, SameSet
<1> QED BY <1>1, <1>2, <1>3, <1>4, <1>5, <1>6 DEF m, Recorded

LEMMA JoinOfOne == \A S : FromGenerators(<<S>>).state = S
  BY DEF FromGenerators, ToSet

LEMMA JoinOfNone == FromGenerators(<<>>).state = {}
  BY DEF FromGenerators, ToSet

LEMMA InitChain == ContextInit => ChainInv
<1> SUFFICES ASSUME ContextInit PROVE ChainInv
  OBVIOUS
<1>1. CommitKeys = {} /\ head = NoHead /\ pending = <<>> /\ ctx.state = {}
  BY JoinOfNone DEF ContextInit, CommitKeys
<1> QED BY <1>1 DEF ChainInv, ChainReplays

LEMMA StepChain == ChainInv /\ [ContextNext]_<<vars, ctxVars>> => ChainInv'
<1> SUFFICES ASSUME ChainInv, [ContextNext]_<<vars, ctxVars>> PROVE ChainInv'
  OBVIOUS
<1>1. ASSUME UNCHANGED ctxVars PROVE ChainInv'
  BY <1>1 DEF ctxVars, ChainInv, ChainReplays, CommitKeys, Led, ChainValid
<1>2. ASSUME NEW c, NEW g, Evolved(c, g) PROVE ChainInv'
  <2> DEFINE m == NewCommit(g, head, Evolve(ctx.state, c.state))
  <2>1. /\ pending = <<>> /\ pending' = <<m>> /\ head' = head /\ ctx' = c
        /\ store' = store \cup {m.s, m.d, m.r, m.n}
    BY <1>2 DEF Evolved
  <2>2. ctx.state = Led(head)
    BY <2>1 DEF ChainInv, ChainReplays, Led
  <2>3. /\ Before(m) = ctx.state /\ After(m) = c.state /\ m.h = head /\ m.s[2] = g
        /\ m.s[1] # "t" /\ m.d[1] # "t" /\ m.r[1] # "t" /\ m.n[1] # "t"
    <3>1. m = NewCommit(g, head, Evolve(ctx.state, c.state))
      OBVIOUS
    <3>2. Recorded(m, g, head, ctx.state, c.state)
      BY <3>1, CommitFacts
    <3> HIDE DEF m
    <3> QED BY <3>2 DEF Recorded
  <2>4. m = NewCommit(g, head, Evolve(Led(head), c.state))
    BY <2>2
  <2> HIDE DEF m
  <2>5. CommitKeys' = CommitKeys
    BY <2>1, <2>3 DEF CommitKeys
  <2>6. pending' # <<>> /\ pending'[1] = m
    BY <2>1
  <2>7. ChainReplays'
    BY <2>1, <2>3, <2>5, <2>6 DEF ChainInv, ChainReplays, ChainValid
  <2>8. m = NewCommit(m.s[2], head', Evolve(Led(head)', ctx'.state)) /\ pending' = <<m>>
    BY <2>1, <2>3, <2>4 DEF Led
  <2>9. {m.s, m.d, m.r, m.n} \subseteq store'
    BY <2>1
  <2>10. head' # NoHead => head' \in CommitKeys'
    BY <2>1, <2>5 DEF ChainInv
  <2> QED BY <2>7, <2>8, <2>9, <2>10 DEF ChainInv
<1>3. ASSUME PutCommit PROVE ChainInv'
  <2>1. pending # <<>>
    BY <1>3 DEF PutCommit
  <2> DEFINE m == pending[1]
             c == ctx.state
  <2>2. /\ m = NewCommit(m.s[2], head, Evolve(Led(head), c)) /\ pending = <<m>>
        /\ {m.s, m.d, m.r, m.n} \subseteq store
    BY <2>1 DEF ChainInv
  <2> HIDE DEF m
  <2>r. Recorded(m, m.s[2], head, Led(head), c)
    BY <2>2, CommitFacts
  <2> DEFINE k == ContentKey(m)
  <2>3. /\ store' = store \cup {k} /\ UNCHANGED <<ctx, head, pending>>
    BY <1>3, <2>2 DEF PutCommit
  <2>4. /\ CommitOf(k) = m /\ k[1] = "t" /\ Before(m) = Led(head) /\ After(m) = c
        /\ m.h = head
        /\ NoetherHolds([departed |-> m.d[2], retained |-> m.r[2],
                         novel |-> m.n[2]], Before(m), After(m))
    BY <2>r DEF Recorded
  <2> HIDE DEF k
  <2>5. CommitKeys' = CommitKeys \cup {k}
    BY <2>3, <2>4 DEF CommitKeys
  <2>6. ASSUME NEW x \in CommitKeys'
        PROVE  LET d == CommitOf(x)
               IN  /\ {d.d, d.r, d.n} \subseteq store'
                   /\ NoetherHolds([departed |-> d.d[2], retained |-> d.r[2],
                                    novel |-> d.n[2]], Before(d), After(d))
                   /\ d.h = NoHead => Before(d) = {}
                   /\ d.h # NoHead => d.h \in store' /\ After(CommitOf(d.h)) = Before(d)
    <3>1. CASE x = k
      BY <2>2, <2>3, <2>4, <3>1 DEF Led, ChainInv, ChainReplays
    <3>2. CASE x \in CommitKeys
      BY <2>3, <3>2 DEF ChainInv, ChainReplays
    <3> QED BY <2>5, <3>1, <3>2
  <2>7. ChainReplays'
    BY <2>1, <2>3, <2>6 DEF ChainInv, ChainReplays
  <2>8. m = NewCommit(m.s[2], head', Evolve(Led(head)', c)) /\ pending' = <<m>>
    BY <2>2, <2>3 DEF Led
  <2> QED BY <2>2, <2>3, <2>5, <2>7, <2>8 DEF ChainInv
<1>4. ASSUME PutHead PROVE ChainInv'
  <2>1. pending # <<>>
    BY <1>4 DEF PutHead
  <2> DEFINE m == pending[1]
             c == ctx.state
  <2>2. m = NewCommit(m.s[2], head, Evolve(Led(head), c)) /\ pending = <<m>>
    BY <2>1 DEF ChainInv
  <2> HIDE DEF m
  <2>r. Recorded(m, m.s[2], head, Led(head), c)
    BY <2>2, CommitFacts
  <2> DEFINE k == ContentKey(m)
  <2>3. k \in store /\ head' = k /\ pending' = <<>> /\ UNCHANGED <<ctx, store>>
    BY <1>4, <2>2 DEF PutHead
  <2>4. CommitOf(k) = m /\ k # NoHead /\ k[1] = "t" /\ After(m) = c
    BY <2>r DEF Recorded
  <2> HIDE DEF k
  <2>5. CommitKeys' = CommitKeys /\ k \in CommitKeys
    BY <2>3, <2>4 DEF CommitKeys
  <2>6. ChainReplays'
    BY <2>2, <2>3, <2>4, <2>5 DEF ChainInv, ChainReplays
  <2> QED BY <2>3, <2>5, <2>6 DEF ChainInv
<1>5. ASSUME Crash PROVE ChainInv'
  <2>1. /\ pending' = <<>> /\ UNCHANGED <<store, head>>
        /\ ctx' = FromGenerators(IF head = NoHead THEN <<>>
                                 ELSE <<After(CommitOf(head))>>)
    BY <1>5 DEF Crash
  <2>2. ctx'.state = Led(head)
    BY <2>1, JoinOfOne, JoinOfNone DEF Led
  <2>3. CommitKeys' = CommitKeys
    BY <2>1 DEF CommitKeys
  <2> QED BY <2>1, <2>2, <2>3 DEF ChainInv, ChainReplays, Led
<1> QED
  BY <1>1, <1>2, <1>3, <1>4, <1>5
     DEF ContextNext, ContextDone, InsertGenerator, RemoveGenerator

\* Wherever crashes fall, the chain from the head gives back every state.
THEOREM ChainHolds == ContextSpec => []ChainReplays
<1>1. ChainInv => ChainReplays
  BY DEF ChainInv
<1> QED
  BY <1>1, InitChain, StepChain, PTL DEF ContextSpec

-----------------------------------------------------------------------------
(***************************************************************************)
(* Inserting and removing generators.                                      *)
(***************************************************************************)

LEMMA SameSetIsEqual == \A G, H : SameSet(G, H) <=> G = H
  BY DEF SameSet

\* h goes through the generators one by one and keeps those not equal to g.
Keeps(h, gs, g) ==
  /\ h[0] = <<>>
  /\ \A k \in 1 .. Len(gs) : h[k] = IF gs[k] = g THEN h[k - 1] ELSE Append(h[k - 1], gs[k])

\* The same, as long as what is kept is a sequence over S.
KeepsIn(h, gs, g, S) ==
  /\ h[0] = <<>>
  /\ \A k \in 1 .. Len(gs) : h[k - 1] \in Seq(S) =>
       h[k] = IF gs[k] = g THEN h[k - 1] ELSE Append(h[k - 1], gs[k])

\* The first k values.
FirstOf(gs, k) == {gs[j] : j \in 1 .. k}

\* What has been kept of the first k.
LEMMA KeptSoFar ==
  ASSUME NEW S, NEW gs \in Seq(S), NEW g, NEW h, KeepsIn(h, gs, g, S)
  PROVE  \A k \in 0 .. Len(gs) :
           h[k] \in Seq(S) /\ ToSet(h[k]) = FirstOf(gs, k) \ {g}
<1> DEFINE Good(k) == h[k] \in Seq(S) /\ ToSet(h[k]) = FirstOf(gs, k) \ {g}
           Bad == {k \in 0 .. Len(gs) : ~Good(k)}
<1> SUFFICES ASSUME Bad # {} PROVE FALSE
  OBVIOUS
<1>1. PICK k \in Bad : \A j \in Bad : k <= j
  <2>1. Bad \in SUBSET Nat
    OBVIOUS
  <2> HIDE DEF Bad
  <2> QED BY <2>1, LeastNat
<1>2. k \in 0 .. Len(gs) /\ ~Good(k)
  OBVIOUS
<1>3. k # 0
  <2>1. 1 .. 0 = {}
    OBVIOUS
  <2>2. ToSet(<<>>) = {} /\ FirstOf(gs, 0) \ {g} = {} /\ <<>> \in Seq(S)
    BY <2>1 DEF ToSet, FirstOf
  <2>3. Good(0)
    BY <2>2 DEF KeepsIn
  <2> HIDE DEF Good
  <2> QED BY <1>2, <2>3
<1>4. k \in 1 .. Len(gs) /\ k - 1 \in 0 .. Len(gs) /\ ~(k <= k - 1)
  BY <1>2, <1>3
<1>5. Good(k - 1)
  <2> HIDE DEF Good
  <2> QED BY <1>1, <1>4
<1>6. FirstOf(gs, k) = FirstOf(gs, k - 1) \cup {gs[k]}
  <2>1. 1 .. k = (1 .. k - 1) \cup {k}
    BY <1>4
  <2> QED BY <2>1 DEF FirstOf
<1>7. gs[k] \in S
  BY <1>4
<1>8. CASE gs[k] = g
  BY <1>2, <1>4, <1>5, <1>6, <1>8 DEF KeepsIn
<1>9. CASE gs[k] # g
  <2>1. h[k] = Append(h[k - 1], gs[k])
    BY <1>4, <1>5, <1>9 DEF KeepsIn
  <2>2. h[k] \in Seq(S) /\ ToSet(h[k]) = ToSet(h[k - 1]) \cup {gs[k]}
    BY <1>5, <1>7, <2>1, AppendedSet
  <2> QED BY <1>2, <1>5, <1>6, <1>9, <2>2
<1> QED BY <1>8, <1>9

\* retain looks its result up in such an h.
LEMMA RetainedLooksUp ==
  ASSUME NEW S, NEW gs \in Seq(S), NEW g
  PROVE  \E h : Keeps(h, gs, g) /\ Retained(gs, g) = h[Len(gs)]
<1> DEFINE n == Len(gs)
           Table(h) == h = [k \in 0 .. n |->
                              IF k = 0 THEN <<>>
                              ELSE IF gs[k] = g THEN h[k - 1] ELSE Append(h[k - 1], gs[k])]
           step == [k \in 1 .. n |-> [v \in Seq(S) |-> IF gs[k] = g THEN v ELSE Append(v, gs[k])]]
<1>1. \E h : Table(h)
  <2>1. PICK h : Recurs(h, n, <<>>, step)
    <3> DEFINE b == <<>>
    <3> HIDE DEF step, b
    <3>1. \E h : Recurs(h, n, b, step)
      <4>1. n \in Nat
        OBVIOUS
      <4> HIDE DEF n
      <4> QED BY <4>1, FiniteRecursion
    <3> QED BY <3>1 DEF b
  <2>2. h[0] = <<>> /\ \A k \in 1 .. n : h[k] = step[k][h[k - 1]]
    <3> HIDE DEF step
    <3> QED BY <2>1 DEF Recurs, NextStep
  <2>3. \A k \in 1 .. n : h[k - 1] \in Seq(S) =>
          h[k] = IF gs[k] = g THEN h[k - 1] ELSE Append(h[k - 1], gs[k])
    BY <2>2
  <2>4. \A k \in 0 .. n : h[k] \in Seq(S)
    <3>1. KeepsIn(h, gs, g, S)
      <4> HIDE DEF step
      <4> QED BY <2>2, <2>3 DEF KeepsIn
    <3> HIDE DEF step
    <3> QED BY <3>1, KeptSoFar
  <2> DEFINE t == [k \in 0 .. n |-> h[k]]
  <2>5. ASSUME NEW k \in 0 .. n
        PROVE  t[k] = IF k = 0 THEN <<>>
                      ELSE IF gs[k] = g THEN t[k - 1] ELSE Append(t[k - 1], gs[k])
    <3>1. k # 0 => k \in 1 .. n /\ k - 1 \in 0 .. n
      OBVIOUS
    <3> HIDE DEF step
    <3> QED BY <2>2, <2>3, <2>4, <3>1
  <2>6. Table(t)
    BY <2>5
  <2> HIDE DEF t
  <2> QED BY <2>6
<1> DEFINE t == CHOOSE h : Table(h)
<1>2. Table(t)
  BY <1>1
<1>3. Retained(gs, g) = t[n]
  BY SameSetIsEqual DEF Retained
<1> HIDE DEF t
<1>4. Keeps(t, gs, g)
  <2>1. ASSUME NEW k \in 0 .. n
        PROVE  t[k] = IF k = 0 THEN <<>>
                      ELSE IF gs[k] = g THEN t[k - 1] ELSE Append(t[k - 1], gs[k])
    BY <1>2
  <2>2. n \in Nat
    OBVIOUS
  <2> HIDE DEF n
  <2>3. t[0] = <<>>
    <3>1. 0 \in 0 .. n
      BY <2>2
    <3> QED BY <2>1, <3>1, Zenon
  <2>4. ASSUME NEW k \in 1 .. n
        PROVE  t[k] = IF gs[k] = g THEN t[k - 1] ELSE Append(t[k - 1], gs[k])
    <3>1. k \in 0 .. n /\ k # 0
      BY <2>2
    <3> QED BY <2>1, <3>1
  <2> QED BY <2>3, <2>4 DEF Keeps, n
<1> QED BY <1>3, <1>4

\* What is retained is what is not equal to g.
LEMMA RetainedSet ==
  ASSUME NEW S, NEW gs \in Seq(S), NEW g
  PROVE  Retained(gs, g) \in Seq(S) /\ ToSet(Retained(gs, g)) = ToSet(gs) \ {g}
<1>1. PICK h : Keeps(h, gs, g) /\ Retained(gs, g) = h[Len(gs)]
  BY RetainedLooksUp
<1>2. \A k \in 0 .. Len(gs) : h[k] \in Seq(S) /\ ToSet(h[k]) = FirstOf(gs, k) \ {g}
  <2>1. KeepsIn(h, gs, g, S)
    BY <1>1 DEF Keeps, KeepsIn
  <2> QED BY <2>1, KeptSoFar
<1>3. Len(gs) \in 0 .. Len(gs) /\ ToSet(gs) = FirstOf(gs, Len(gs))
  BY DEF ToSet, FirstOf
<1> QED BY <1>1, <1>2, <1>3

\* Removing what was just added, and was not there before, is no change.
LEMMA RetainedAppend ==
  ASSUME NEW S, NEW gs \in Seq(S), NEW g \in S, g \notin ToSet(gs)
  PROVE  Retained(Append(gs, g), g) = gs
<1> DEFINE r == Append(gs, g)
           n == Len(gs)
<1>1. /\ r \in Seq(S) /\ Len(r) = n + 1 /\ n \in Nat
      /\ r[n + 1] = g /\ \A k \in 1 .. n : r[k] = gs[k] /\ gs[k] # g
  BY DEF ToSet
<1> HIDE DEF r
<1>2. PICK h : Keeps(h, r, g) /\ Retained(r, g) = h[n + 1]
  BY <1>1, RetainedLooksUp
<1>3. /\ h[0] = <<>> /\ h[n + 1] = h[n]
      /\ \A k \in 1 .. n : h[k] = Append(h[k - 1], gs[k])
  <2>1. /\ h[0] = <<>>
        /\ \A k \in 1 .. n + 1 : h[k] = IF r[k] = g THEN h[k - 1] ELSE Append(h[k - 1], r[k])
    BY <1>1, <1>2 DEF Keeps
  <2> HIDE DEF n
  <2>2. n + 1 \in 1 .. n + 1 /\ (n + 1) - 1 = n
    BY <1>1
  <2>3. \A k \in 1 .. n : k \in 1 .. n + 1
    BY <1>1
  <2>4. h[n + 1] = h[n]
    BY <1>1, <2>1, <2>2
  <2> QED BY <1>1, <2>1, <2>3, <2>4
<1> DEFINE Bad == {k \in 0 .. n : h[k] # SubSeq(gs, 1, k)}
<1>4. Bad = {}
  <2> SUFFICES ASSUME Bad # {} PROVE FALSE
    OBVIOUS
  <2>1. PICK k \in Bad : \A j \in Bad : k <= j
    <3>1. Bad \in SUBSET Nat
      OBVIOUS
    <3> HIDE DEF Bad
    <3> QED BY <3>1, LeastNat
  <2>2. k # 0
    <3>1. SubSeq(gs, 1, 0) = <<>>
      BY SubSeqEmpty
    <3> QED BY <1>3, <3>1
  <2>3. k \in 1 .. n /\ k - 1 \in 0 .. n /\ ~(k <= k - 1)
    BY <1>1, <2>2
  <2>4. h[k - 1] = SubSeq(gs, 1, k - 1)
    BY <2>1, <2>3
  <2>5. Append(SubSeq(gs, 1, k - 1), gs[k]) = SubSeq(gs, 1, k)
    BY <2>3
  <2> QED BY <1>3, <2>3, <2>4, <2>5
<1>5. h[n] = SubSeq(gs, 1, n) /\ SubSeq(gs, 1, n) = gs
  BY <1>1, <1>4, SubSeqFull
<1> QED BY <1>2, <1>3, <1>5 DEF r

\* The context is the join of a sequence of generators.
ContextInv ==
  /\ ctx.generators \in Seq(ToSet(ctx.generators))
  /\ ctx.state = UNION ToSet(ctx.generators)

LEMMA JoinIsContext ==
  ASSUME NEW S, NEW gs \in Seq(S), ctx' = FromGenerators(gs)
  PROVE  ContextInv'
<1>1. ctx'.generators = gs /\ ctx'.state = UNION ToSet(gs)
  BY DEF FromGenerators
<1>2. gs \in Seq(ToSet(gs))
  BY DEF ToSet
<1> QED BY <1>1, <1>2 DEF ContextInv

LEMMA StepContext == ContextInv /\ [ContextNext]_<<vars, ctxVars>> => ContextInv'
<1> SUFFICES ASSUME ContextInv, [ContextNext]_<<vars, ctxVars>> PROVE ContextInv'
  OBVIOUS
<1> DEFINE gs == ctx.generators
           S == ToSet(gs)
<1>0. gs \in Seq(S)
  BY DEF ContextInv
<1>1. ASSUME ctx' = ctx PROVE ContextInv'
  BY <1>1 DEF ContextInv
<1>2. ASSUME NEW g, InsertGenerator(g) PROVE ContextInv'
  <2>1. ctx' = FromGenerators(Append(gs, g))
    BY <1>2 DEF InsertGenerator, Evolved, WithGenerator
  <2>2. gs \in Seq(S \cup {g})
    BY <1>0
  <2> HIDE DEF gs, S
  <2>3. Append(gs, g) \in Seq(S \cup {g})
    BY <2>2
  <2> QED BY <2>1, <2>3, JoinIsContext
<1>3. ASSUME NEW g, RemoveGenerator(g) PROVE ContextInv'
  <2>1. ctx' = FromGenerators(Retained(gs, g))
    BY <1>3 DEF RemoveGenerator, Evolved, WithoutGenerator
  <2> HIDE DEF gs, S
  <2>2. Retained(gs, g) \in Seq(S)
    BY <1>0, RetainedSet
  <2> QED BY <2>1, <2>2, JoinIsContext
<1>4. ASSUME Crash PROVE ContextInv'
  <2> DEFINE H == After(CommitOf(head))
             r == IF head = NoHead THEN <<>> ELSE <<H>>
  <2>1. ctx' = FromGenerators(r)
    BY <1>4 DEF Crash
  <2> HIDE DEF H
  <2>2. r \in Seq({H})
    <3>1. <<>> \in Seq({H}) /\ <<H>> \in Seq({H})
      OBVIOUS
    <3> QED BY <3>1
  <2> HIDE DEF r
  <2> QED BY <2>1, <2>2, JoinIsContext
<1> QED
  BY <1>1, <1>2, <1>3, <1>4
     DEF ContextNext, ContextDone, PutCommit, PutHead, ctxVars

LEMMA ContextHolds == ContextSpec => []ContextInv
<1>1. ContextInit => ContextInv
  <2> SUFFICES ASSUME ContextInit PROVE ContextInv
    OBVIOUS
  <2>1. ctx.generators = <<>> /\ ctx.state = UNION ToSet(<<>>)
    BY DEF ContextInit, FromGenerators
  <2> QED BY <2>1 DEF ContextInv
<1> QED
  BY <1>1, StepContext, PTL DEF ContextSpec

\* However the context came to be, removing a generator just inserted gives
\* back the same context, unless it was there before: then its equals go too,
\* with the bits no other generator has.
THEOREM RemoveUndoes == ContextSpec => []RemoveUndoesInsert
<1>1. ASSUME ContextInv, NEW g
      PROVE  LET c == WithoutGenerator(WithGenerator(ctx, g), g)
             IN  /\ g \notin ToSet(ctx.generators) <=> c.generators = ctx.generators
                 /\ ctx.state \ c.state
                      = {i \in g : g \in ToSet(ctx.generators) /\
                           \A h \in ToSet(ctx.generators) : i \in h => h = g}
  <2> DEFINE gs == ctx.generators
             S == ToSet(gs)
             r == Retained(Append(gs, g), g)
             c == WithoutGenerator(WithGenerator(ctx, g), g)
  <2>1. c.generators = r /\ c.state = UNION ToSet(r)
    BY DEF WithoutGenerator, WithGenerator, FromGenerators
  <2>2. ctx.state = UNION S /\ gs \in Seq(S)
    BY <1>1 DEF ContextInv
  <2> HIDE DEF gs, c, r
  <2>3. gs \in Seq(S \cup {g}) /\ g \in S \cup {g}
    BY <2>2
  <2>4. Append(gs, g) \in Seq(S \cup {g}) /\ ToSet(Append(gs, g)) = S \cup {g}
    BY <2>3, AppendedSet
  <2>5. ToSet(r) = S \ {g}
    <3> DEFINE q == Append(gs, g)
               U == S \cup {g}
    <3>1. q \in Seq(U) /\ ToSet(q) = U
      BY <2>4
    <3> HIDE DEF q, U
    <3>2. ToSet(Retained(q, g)) = U \ {g}
      BY <3>1, RetainedSet
    <3> QED BY <3>2 DEF q, r, U
  <2>6. g \notin S => r = gs
    BY <2>3, RetainedAppend DEF r
  <2>7. r = gs => g \notin S
    BY <2>5
  <2> HIDE DEF S
  <2>8. (UNION S) \ UNION (S \ {g}) = {i \in g : g \in S /\ \A h \in S : i \in h => h = g}
    OBVIOUS
  <2> QED BY <2>1, <2>2, <2>5, <2>6, <2>7, <2>8 DEF gs, c, S
<1>2. ContextInv => RemoveUndoesInsert
  BY <1>1 DEF RemoveUndoesInsert
<1> QED
  BY <1>2, ContextHolds, PTL

-----------------------------------------------------------------------------

\* What one ingested token does to the tokens observed.
LEMMA ObservedGrows ==
  ASSUME TypeOK, NEW t \in Token, IngestToken(t)
  PROVE  Observed' = Observed \cup {t}
<1>1. tf' = [tf EXCEPT ![t] = tf[t] + 1] /\ tf \in [Token -> Nat]
  BY DEF IngestToken, E!Increment, TypeOK
<1>2. \A u \in Token : (tf'[u] > 0) <=> (tf[u] > 0 \/ u = t)
  BY <1>1
<1> QED BY <1>2 DEF Observed

\* The types, and the two presentations of the tokens observed, which are
\* finitely many.
IngestInv ==
  /\ TypeOK
  /\ IsFiniteSet(Observed)
  /\ \A s \in Seed : /\ luts[s] = E!BuildLut(s, Observed)
                     /\ hllsets[s] = E!FromTokens(s, Observed)

LEMMA InitIngest == Init => IngestInv
<1> SUFFICES ASSUME Init PROVE IngestInv
  OBVIOUS
<1>1. position \in [Seed -> [Token -> Bit]]
  BY HashesAreHashes DEF Init
<1>2. /\ hllsets = [s \in Seed |-> {}] /\ luts = [s \in Seed |-> [i \in Bit |-> {}]]
      /\ tf = [t \in Token |-> 0] /\ touched = 0
  BY DEF Init, E!EmptyLut, E!NoTf, E!Bit, Bit
<1>3. TypeOK
  BY <1>1, <1>2 DEF TypeOK
<1>4. Observed = {}
  BY <1>2 DEF Observed
<1>5. \A s \in Seed : /\ E!BuildLut(s, {}) = [i \in Bit |-> {}]
                      /\ E!FromTokens(s, {}) = {}
  BY DEF E!BuildLut, E!FromTokens, E!Bit, Bit
<1> QED BY <1>2, <1>3, <1>4, <1>5, FS_EmptySet DEF IngestInv

LEMMA StepIngest == IngestInv /\ [Next]_vars => IngestInv'
<1> SUFFICES ASSUME IngestInv, [Next]_vars PROVE IngestInv'
  OBVIOUS
<1>1. ASSUME NEW t \in Token, IngestToken(t) PROVE IngestInv'
  <2>1. /\ position \in [Seed -> [Token -> Bit]] /\ hllsets \in [Seed -> SUBSET Bit]
        /\ luts \in [Seed -> [Bit -> SUBSET Token]] /\ tf \in [Token -> Nat]
        /\ touched \in Nat
    BY DEF IngestInv, TypeOK
  <2>2. /\ touched' = touched + 1 /\ position' = position
        /\ tf' = [tf EXCEPT ![t] = tf[t] + 1]
        /\ hllsets' = [s \in Seed |-> hllsets[s] \cup {position[s][t]}]
        /\ luts' = [s \in Seed |->
                      [luts[s] EXCEPT ![position[s][t]] = luts[s][position[s][t]] \cup {t}]]
    BY <1>1 DEF IngestToken, E!Increment, E!SetAtom, E!InsertToken
  <2>3. Observed' = Observed \cup {t}
    BY <1>1, ObservedGrows DEF IngestInv
  <2>4. TypeOK'
    BY <2>1, <2>2 DEF TypeOK
  <2>5. ASSUME NEW s \in Seed
        PROVE  (luts[s] = E!BuildLut(s, Observed))'
    <3>1. luts[s] = [i \in Bit |-> {u \in Observed : position[s][u] = i}]
      BY DEF IngestInv, E!BuildLut, E!Bit, Bit
    <3>2. position[s][t] \in Bit
      BY <2>1
    <3>3. luts'[s] = [i \in Bit |-> {u \in Observed \cup {t} : position[s][u] = i}]
      <4> DEFINE b == position[s][t]
                 K(i) == {u \in Observed : position[s][u] = i}
                 L(i) == {u \in Observed \cup {t} : position[s][u] = i}
      <4>1. luts'[s] = [luts[s] EXCEPT ![b] = luts[s][b] \cup {t}]
        BY <2>2
      <4>2. \A i \in Bit : L(i) = IF i = b THEN K(i) \cup {t} ELSE K(i)
        OBVIOUS
      <4>3. luts[s] = [i \in Bit |-> K(i)]
        BY <3>1
      <4> HIDE DEF b, K, L
      <4>4. luts'[s] = [i \in Bit |-> IF i = b THEN K(i) \cup {t} ELSE K(i)]
        BY <4>1, <4>3, <3>2 DEF b
      <4>5. luts'[s] = [i \in Bit |-> L(i)]
        BY <4>2, <4>4
      <4> QED BY <4>5 DEF L
    <3> QED BY <2>2, <2>3, <3>3 DEF E!BuildLut, E!Bit, Bit
  <2>6. ASSUME NEW s \in Seed
        PROVE  (hllsets[s] = E!FromTokens(s, Observed))'
    <3>1. hllsets[s] = {position[s][u] : u \in Observed}
      BY DEF IngestInv, E!FromTokens
    <3>2. hllsets'[s] = {position[s][u] : u \in Observed \cup {t}}
      BY <2>2, <3>1
    <3> QED BY <2>2, <2>3, <3>2 DEF E!FromTokens
  <2>7. IsFiniteSet(Observed)'
    BY <2>3, FS_AddElement DEF IngestInv
  <2> QED BY <2>4, <2>5, <2>6, <2>7 DEF IngestInv
<1>2. ASSUME UNCHANGED vars PROVE IngestInv'
  BY <1>2 DEF vars, IngestInv, TypeOK, Observed, E!BuildLut, E!FromTokens
<1> QED
  BY <1>1, <1>2 DEF Next, Done

\* The commits leave the ingest module alone.
LEMMA ContextIngests == ContextSpec => []IngestInv
<1>1. ContextInit => IngestInv
  BY InitIngest DEF ContextInit
<1>2. [ContextNext]_<<vars, ctxVars>> => [Next]_vars
  BY DEF ContextNext, ContextDone, InsertGenerator, RemoveGenerator, Evolved,
         PutCommit, PutHead, Crash, ctxVars
<1>3. IngestInv /\ [ContextNext]_<<vars, ctxVars>> => IngestInv'
  BY <1>2, StepIngest
<1> QED
  BY <1>1, <1>3, PTL DEF ContextSpec

THEOREM IngestTyped == ContextSpec => []TypeOK
<1>1. IngestInv => TypeOK
  BY DEF IngestInv
<1> QED
  BY <1>1, ContextIngests, PTL

\* However tokens collide, the LUT filled token by token is the one built of
\* them all at once, and slicing the sketch by it loses none.
THEOREM IndexHolds == ContextSpec => []IndexIsBuilt
<1>1. ASSUME IngestInv, NEW s \in Seed
      PROVE  E!Slice(luts[s], hllsets[s]) = Observed
  <2>1. /\ luts[s] = [i \in Bit |-> {u \in Observed : position[s][u] = i}]
        /\ hllsets[s] = {position[s][u] : u \in Observed}
        /\ Observed \subseteq Token /\ position[s] \in [Token -> Bit]
    BY <1>1 DEF IngestInv, TypeOK, Observed, E!BuildLut, E!FromTokens, E!Bit, Bit
  <2>2. \A u \in Observed : position[s][u] \in Bit
    BY <2>1
  <2> QED BY <2>1, <2>2 DEF E!Slice
<1>2. IngestInv => IndexIsBuilt
  BY <1>1 DEF IngestInv, IndexIsBuilt
<1> QED
  BY <1>2, ContextIngests, PTL

-----------------------------------------------------------------------------
(***************************************************************************)
(* Materialization.                                                        *)
(***************************************************************************)

\* u beats t: its TF is higher, or they tie and u is the later token.
Beats(u, t) == ~(tf[u] < tf[t] \/ (tf[u] = tf[t] /\ u <= t))

\* The order has a maximum in every finite fiber: a token that fewest others
\* beat is beaten by none, for those that beat its better beat it as well.
LEMMA SomeWinner ==
  ASSUME tf \in [Token -> Nat],
         NEW C \in SUBSET Token, IsFiniteSet(C), C # {}
  PROVE  \E t \in C : \A u \in C : ~Beats(u, t)
<1> DEFINE Above(t) == {u \in C : Beats(u, t)}
           N == {Cardinality(Above(t)) : t \in C}
<1>1. \A t \in C : IsFiniteSet(Above(t)) /\ Cardinality(Above(t)) \in Nat
  BY FS_Subset, FS_CardinalityType
<1>2. PICK n \in N : \A m \in N : ~(m < n)
  <2>1. N \subseteq Nat /\ N # {}
    BY <1>1
  <2> HIDE DEF N
  <2>2. \E n \in N : \A m \in N : ~(<<m, n>> \in OpToRel(<, Nat))
    BY <2>1, WFMin, NatLessThanWellFounded, Zenon
  <2> QED BY <2>1, <2>2 DEF OpToRel
<1>3. PICK t \in C : n = Cardinality(Above(t))
  BY <1>2
<1>4. ASSUME NEW u \in C, Beats(u, t) PROVE FALSE
  <2>1. tf[t] \in Nat /\ tf[u] \in Nat /\ t \in Nat /\ u \in Nat
    BY TokensAreNumbers
  <2>2. Above(u) \subseteq Above(t)
    <3> SUFFICES ASSUME NEW w \in C, Beats(w, u) PROVE Beats(w, t)
      OBVIOUS
    <3>1. tf[w] \in Nat /\ w \in Nat
      BY TokensAreNumbers
    <3> QED BY <1>4, <2>1, <3>1 DEF Beats
  <2>3. u \in Above(t) /\ u \notin Above(u)
    BY <1>4, <2>1 DEF Beats
  <2> HIDE DEF Above
  <2>4. /\ Cardinality(Above(u)) <= Cardinality(Above(t))
        /\ Cardinality(Above(u)) # Cardinality(Above(t))
    BY <1>1, <2>2, <2>3, FS_Subset
  <2>5. Cardinality(Above(u)) < Cardinality(Above(t))
    BY <1>1, <2>4
  <2>6. Cardinality(Above(u)) \in N
    OBVIOUS
  <2> QED BY <1>2, <1>3, <2>5, <2>6
<1> QED BY <1>4

\* What materialization takes of a fiber is of the fiber.
LEMMA WinnerOfFiber ==
  ASSUME tf \in [Token -> Nat],
         NEW C \in SUBSET Token, IsFiniteSet(C), C # {}
  PROVE  E!Winner(C, tf) \in C
<1>1. \E t \in C : \A u \in C : tf[u] < tf[t] \/ (tf[u] = tf[t] /\ u <= t)
  BY SomeWinner DEF Beats
<1> QED BY <1>1 DEF E!Winner

\* What IngestInv says of a fiber, expanded.
LEMMA Fibers ==
  ASSUME IngestInv
  PROVE  /\ tf \in [Token -> Nat] /\ position \in [Seed -> [Token -> Bit]]
         /\ Observed \subseteq Token /\ IsFiniteSet(Observed)
         /\ \A s \in Seed : /\ hllsets[s] = {position[s][u] : u \in Observed}
                            /\ hllsets[s] \subseteq Bit
                            /\ \A i \in Bit :
                                 luts[s][i] = {u \in Observed : position[s][u] = i}
BY DEF IngestInv, TypeOK, Observed, E!FromTokens, E!BuildLut, E!Bit, Bit

\* With several encodings the candidates of a bit are pooled; whoever wins was
\* observed, and has the bit under one of the seeds.
THEOREM BitsExplained == ContextSpec => []EveryBitExplained
<1>1. ASSUME IngestInv, NEW r \in Seed, NEW i \in hllsets[r]
      PROVE  \E t \in E!Materialize(AllPairs, tf), s \in Seed :
               t \in Observed /\ position[s][t] = i
  <2> DEFINE C == E!Candidates(AllPairs, i)
             w == E!Winner(C, tf)
  <2>1. i \in Bit /\ \E u \in Observed : position[r][u] = i
    BY <1>1, Fibers
  <2>2. /\ \A p \in AllPairs : \E s \in Seed : p.lut = luts[s]
        /\ \E p \in AllPairs : p.sketch = hllsets[r] /\ p.lut = luts[r]
    <3>1. \A s \in Seed : /\ Pair(s, hllsets[s]).lut = luts[s]
                          /\ Pair(s, hllsets[s]).sketch = hllsets[s]
      BY DEF Pair
    <3>2. Pair(r, hllsets[r]) \in AllPairs
      BY DEF AllPairs
    <3>3. \A p \in AllPairs : \E s \in Seed : p = Pair(s, hllsets[s])
      BY DEF AllPairs
    <3> QED BY <3>1, <3>2, <3>3
  <2>3. \A t \in C : t \in Observed /\ \E s \in Seed : position[s][t] = i
    <3> SUFFICES ASSUME NEW t \in C
                 PROVE  t \in Observed /\ \E s \in Seed : position[s][t] = i
      OBVIOUS
    <3>1. PICK p \in AllPairs : t \in p.lut[i]
      BY DEF E!Candidates
    <3>2. PICK s \in Seed : p.lut = luts[s]
      BY <2>2
    <3> QED BY <1>1, <2>1, <3>1, <3>2, Fibers
  <2>4. C # {}
    <3>1. PICK p \in AllPairs : p.sketch = hllsets[r] /\ p.lut = luts[r]
      BY <2>2
    <3>2. p.lut[i] # {} /\ i \in p.sketch
      BY <1>1, <2>1, <3>1, Fibers
    <3> QED BY <3>2 DEF E!Candidates
  <2>5. C \in SUBSET Token /\ IsFiniteSet(C)
    <3>1. C \in SUBSET Observed
      BY <2>3
    <3> QED BY <1>1, <3>1, Fibers, FS_Subset
  <2> HIDE DEF C
  <2>6. w \in C
    BY <1>1, <2>4, <2>5, WinnerOfFiber, Fibers
  <2>7. w \in E!Materialize(AllPairs, tf)
    BY <2>1, <2>4 DEF E!Materialize, E!Bit, Bit, C
  <2> QED BY <2>3, <2>6, <2>7
<1>2. IngestInv => EveryBitExplained
  BY <1>1 DEF EveryBitExplained
<1> QED
  BY <1>2, ContextIngests, PTL

\* One token for each bit of the part, and no bit of another.
THEOREM RoundTrips == ContextSpec => []RestoreRoundTrip
<1>1. ASSUME IngestInv, NEW s \in Seed, NEW H \in SUBSET hllsets[s]
      PROVE  E!FromTokens(s, E!Materialize({Pair(s, H)}, tf)) = H
  <2> DEFINE C(i) == E!Candidates({Pair(s, H)}, i)
             w(i) == E!Winner(C(i), tf)
  <2>1. H \subseteq Bit /\ \A i \in H : \E u \in Observed : position[s][u] = i
    BY <1>1, Fibers
  <2>2. \A i \in Bit : C(i) = IF i \in H THEN luts[s][i] ELSE {}
    <3> DEFINE p == Pair(s, H)
    <3>1. p.sketch = H /\ p.lut = luts[s]
      BY DEF Pair
    <3> HIDE DEF p
    <3>2. \A i \in Bit : UNION {q.lut[i] : q \in {q \in {p} : i \in q.sketch}}
                           = IF i \in p.sketch THEN p.lut[i] ELSE {}
      OBVIOUS
    <3> QED BY <3>1, <3>2 DEF E!Candidates, p
  <2>3. ASSUME NEW i \in H PROVE C(i) # {} /\ position[s][w(i)] = i
    <3>1. C(i) = {u \in Observed : position[s][u] = i}
      BY <1>1, <2>1, <2>2, Fibers
    <3>2. C(i) # {} /\ C(i) \in SUBSET Observed /\ C(i) \in SUBSET Token
      BY <1>1, <2>1, <3>1, Fibers
    <3>3. IsFiniteSet(C(i))
      BY <1>1, <3>2, Fibers, FS_Subset
    <3> HIDE DEF C
    <3>4. E!Winner(C(i), tf) \in C(i)
      BY <1>1, <3>2, <3>3, WinnerOfFiber, Fibers
    <3> QED BY <3>1, <3>2, <3>4
  <2>4. E!Materialize({Pair(s, H)}, tf) = {w(i) : i \in H}
    <3>1. E!Materialize({Pair(s, H)}, tf)
            = {E!Winner(D, tf) : D \in {C(i) : i \in Bit} \ {{}}}
      BY DEF E!Materialize, E!Bit, Bit
    <3> HIDE DEF C
    <3>2. {C(i) : i \in Bit} \ {{}} = {C(i) : i \in H}
      BY <2>1, <2>2, <2>3
    <3> QED BY <3>1, <3>2
  <2>5. E!FromTokens(s, {w(i) : i \in H}) = {position[s][w(i)] : i \in H}
    <3> HIDE DEF w
    <3> QED BY DEF E!FromTokens
  <2> HIDE DEF w
  <2> QED BY <2>3, <2>4, <2>5
<1>2. IngestInv => RestoreRoundTrip
  BY <1>1 DEF RestoreRoundTrip
<1> QED
  BY <1>2, ContextIngests, PTL

-----------------------------------------------------------------------------
(***************************************************************************)
(* Ranks.                                                                  *)
(***************************************************************************)

\* TF counts every touch.
TfTotal == SumOver(tf, Observed)
RankInv == IngestInv /\ TfTotal = touched

LEMMA StepTotal == RankInv /\ [Next]_vars => RankInv'
<1> SUFFICES ASSUME RankInv, [Next]_vars PROVE RankInv'
  OBVIOUS
<1>1. IngestInv'
  BY StepIngest DEF RankInv
<1>2. ASSUME NEW t \in Token, IngestToken(t) PROVE (TfTotal = touched)'
  <2> DEFINE S == Observed
             f == [u \in S |-> tf[u]]
             g == [u \in S \cup {t} |-> tf'[u]]
  <2>1. /\ touched' = touched + 1 /\ touched \in Nat
        /\ tf \in [Token -> Nat] /\ tf' = [tf EXCEPT ![t] = tf[t] + 1]
        /\ IsFiniteSet(S)
    BY <1>2 DEF RankInv, IngestInv, TypeOK, IngestToken, E!Increment
  <2>2. Observed' = S \cup {t}
    BY <1>2, ObservedGrows DEF RankInv, IngestInv
  <2>3. /\ f \in [S -> Nat] /\ g \in [S \cup {t} -> Nat]
        /\ \A u \in S \ {t} : g[u] = f[u]
    BY <2>1 DEF Observed
  <2>4. g[t] = (IF t \in S THEN f[t] ELSE 0) + 1
    <3>1. t \notin S => tf[t] = 0
      BY <2>1 DEF Observed
    <3>2. g[t] = tf[t] + 1
      BY <2>1
    <3> QED BY <3>1, <3>2
  <2>5. SumFunction(f) = touched
    BY DEF RankInv, TfTotal, SumOver
  <2> HIDE DEF S, f, g
  <2>6. SumFunction(g) = touched + 1
    BY <2>1, <2>3, <2>4, <2>5, SumBump
  <2>7. TfTotal' = SumFunction(g)
    BY <2>2 DEF TfTotal, SumOver, g
  <2> QED BY <2>1, <2>6, <2>7
<1>3. ASSUME UNCHANGED vars PROVE (TfTotal = touched)'
  BY <1>3 DEF vars, RankInv, TfTotal, Observed
<1> QED
  BY <1>1, <1>2, <1>3 DEF Next, Done, RankInv

LEMMA TotalHolds == ContextSpec => []RankInv
<1>1. ContextInit => RankInv
  <2> SUFFICES ASSUME ContextInit PROVE RankInv
    OBVIOUS
  <2>1. Observed = {} /\ touched = 0
    BY DEF ContextInit, Init, E!NoTf, Observed
  <2>2. SumOver(tf, {}) = 0
    BY SumOverSplits, FS_EmptySet
  <2> QED BY <2>1, <2>2, InitIngest DEF ContextInit, RankInv, TfTotal
<1>2. [ContextNext]_<<vars, ctxVars>> => [Next]_vars
  BY DEF ContextNext, ContextDone, InsertGenerator, RemoveGenerator, Evolved,
         PutCommit, PutHead, Crash, ctxVars
<1>3. RankInv /\ [ContextNext]_<<vars, ctxVars>> => RankInv'
  BY <1>2, StepTotal
<1> QED
  BY <1>1, <1>3, PTL DEF ContextSpec

\* The operators of the instance are those of the library.
LEMMA SumIsSum == \A f : E!Fold("Sum", f) = SumFunction(f)
  BY DEF E!Fold, E!SumFunction, E!SumFunctionOnSet, E!FoldFunctionOnSet, E!MapThenFoldSet,
         SumFunction, SumFunctionOnSet, FoldFunctionOnSet, MapThenFoldSet

\* a comes before b when agg looks for the extreme.
Extremer(agg, a, b) == IF agg = "Max" THEN b <= a ELSE a <= b

\* A fold by Max or Min over something finds an extreme of it.
LEMMA FoldExtreme ==
  ASSUME NEW D, IsFiniteSet(D), D # {}, NEW rank, \A x \in D : rank[x] \in Nat,
         D = DOMAIN rank, NEW agg \in {"Max", "Min"}
  PROVE  /\ \E x \in D : E!Fold(agg, rank) = rank[x]
         /\ \A x \in D : Extremer(agg, E!Fold(agg, rank), rank[x])
<1> DEFINE V == {rank[x] : x \in D}
<1>1. V \in SUBSET Nat /\ V # {} /\ IsFiniteSet(V)
  <2>1. IsFiniteSet(V)
    <3> DEFINE r == [x \in D |-> rank[x]]
    <3>1. r \in Surjection(D, V)
      BY DEF Surjection
    <3> HIDE DEF r, V
    <3> QED BY <3>1, FS_Surjection
  <2> QED BY <2>1
<1>2. CASE agg = "Max"
  <2>1. IsFiniteSet({0} \cup V) /\ {0} \cup V \in SUBSET Nat
    BY <1>1, FS_AddElement
  <2>2. Max({0} \cup V) \in {0} \cup V /\ \A y \in {0} \cup V : y <= Max({0} \cup V)
    <3> DEFINE W == {0} \cup V
    <3>1. IsFiniteSet(W) /\ W \in SUBSET Nat /\ W # {}
      BY <2>1
    <3> HIDE DEF W, V
    <3>2. Max(W) \in W /\ \A y \in W : y <= Max(W)
      BY <3>1, MaxOf
    <3> QED BY <3>2 DEF W
  <2>3. E!Fold(agg, rank) = Max({0} \cup V)
    BY <1>2 DEF E!Fold, E!Max, Max
  <2> HIDE DEF V
  <2>4. Max({0} \cup V) \in V
    <3> DEFINE m == Max({0} \cup V)
    <3>1. m \in {0} \cup V /\ \A y \in V : y <= m
      BY <2>2
    <3> HIDE DEF m
    <3>2. PICK y \in V : y \in Nat
      BY <1>1
    <3>3. m = 0 => y = 0
      BY <3>1, <3>2
    <3> QED BY <3>1, <3>2, <3>3 DEF m
  <2> QED BY <1>2, <2>2, <2>3, <2>4 DEF Extremer, V
<1>3. CASE agg = "Min"
  <2>1. Min(V) \in V /\ \A y \in V : Min(V) <= y
    <3> HIDE DEF V
    <3> QED BY <1>1, MinOf
  <2>2. E!Fold(agg, rank) = Min(V)
    BY <1>1, <1>3 DEF E!Fold, E!Min, Min
  <2> HIDE DEF V
  <2> QED BY <1>3, <2>1, <2>2 DEF Extremer, V
<1> QED BY <1>2, <1>3

\* The Min of something that is not empty is 0 iff some value is.
LEMMA EmptyFold ==
  ASSUME NEW rank, DOMAIN rank = {}
  PROVE  E!Fold("Min", rank) = 0
BY DEF E!Fold

\* The parts of an image are finitely many.
LEMMA FiniteImage ==
  ASSUME NEW S, IsFiniteSet(S), NEW f
  PROVE  IsFiniteSet({f[x] : x \in S})
<1> DEFINE V == {f[x] : x \in S}
           r == [x \in S |-> f[x]]
<1>1. r \in Surjection(S, V)
  BY DEF Surjection
<1> HIDE DEF r, V
<1>2. IsFiniteSet(V)
  BY <1>1, FS_Surjection
<1> QED BY <1>2 DEF V

\* What the sum of a bit's tokens is a sum of.
LEMMA BitSum ==
  ASSUME RankInv, NEW s \in Seed, NEW i \in Bit
  PROVE  /\ E!BitRank(tf, luts[s], i, "Sum") = SumOver(tf, Fiber(Observed, position[s], i))
         /\ E!BitRank(tf, luts[s], i, "Sum") \in Nat
<1> DEFINE K == Fiber(Observed, position[s], i)
<1>1. luts[s][i] = K /\ IsFiniteSet(Observed) /\ tf \in [Token -> Nat] /\ Observed \subseteq Token
  BY Fibers DEF RankInv, Fiber
<1>2. E!BitRank(tf, luts[s], i, "Sum") = SumFunction([t \in K |-> tf[t]])
  BY <1>1, SumIsSum DEF E!BitRank, E!TokenRank
<1>3. IsFiniteSet(K) /\ \A t \in K : tf[t] \in Nat
  BY <1>1, FS_Subset DEF Fiber
<1> HIDE DEF K
<1>4. SumOver(tf, K) \in Nat
  BY <1>3, SumOverSplits
<1> QED BY <1>2, <1>4 DEF SumOver, K

\* What the sums add up.
LEMMA SumFacts ==
  ASSUME RankInv, NEW s \in Seed
  PROVE  /\ IsFiniteSet(Observed) /\ \A t \in Observed : tf[t] \in Nat
         /\ SumOver(tf, Observed) = touched
         /\ hllsets[s] = {position[s][u] : u \in Observed}
         /\ hllsets[s] \subseteq Bit
         /\ IsFiniteSet(hllsets[s])
         /\ \A u \in Observed : position[s][u] \in hllsets[s] /\ position[s][u] \in Bit
<1>1. /\ IsFiniteSet(Observed) /\ Observed \subseteq Token
      /\ tf \in [Token -> Nat] /\ SumOver(tf, Observed) = touched
      /\ hllsets[s] = {position[s][u] : u \in Observed} /\ hllsets[s] \subseteq Bit
  BY Fibers DEF RankInv, TfTotal
<1>2. IsFiniteSet(hllsets[s])
  BY <1>1, FiniteImage
<1> QED BY <1>1, <1>2

\* The rank of a sketch counts every touch.
LEMMA SketchTotal ==
  ASSUME RankInv, NEW s \in Seed
  PROVE  E!HllsetRank(tf, luts[s], hllsets[s], "Sum") = touched
<1> DEFINE I == hllsets[s]
           p == position[s]
<1>1. \A i \in I : E!BitRank(tf, luts[s], i, "Sum") = SumOver(tf, Fiber(Observed, p, i))
  BY SumFacts, BitSum
<1>2. E!HllsetRank(tf, luts[s], I, "Sum")
        = SumFunction([i \in I |-> E!BitRank(tf, luts[s], i, "Sum")])
  BY SumIsSum DEF E!HllsetRank
<1>3. [i \in I |-> E!BitRank(tf, luts[s], i, "Sum")]
        = [i \in I |-> SumOver(tf, Fiber(Observed, p, i))]
  BY <1>1
<1>4. /\ IsFiniteSet(I) /\ \A u \in Observed : p[u] \in I
      /\ IsFiniteSet(Observed) /\ \A t \in Observed : tf[t] \in Nat
      /\ SumOver(tf, Observed) = touched
  BY SumFacts
<1> HIDE DEF I, p
<1>5. SumFunction([i \in I |-> SumOver(tf, Fiber(Observed, p, i))]) = touched
  BY <1>4, SumByFibers
<1> QED BY <1>2, <1>3, <1>5 DEF I

\* So do the ranks of the registers together.
LEMMA RegisterTotal ==
  ASSUME RankInv, NEW s \in Seed
  PROVE  SumFunction([r \in Reg |-> E!RegisterRank(tf, luts[s], r, "Sum")]) = touched
<1> DEFINE p == position[s]
           reg == [u \in Observed |-> p[u][1]]
           zeros == [u \in Observed |-> p[u][2]]
           S(r) == Fiber(Observed, reg, r)
<1>1. /\ IsFiniteSet(Observed) /\ \A t \in Observed : tf[t] \in Nat
      /\ SumOver(tf, Observed) = touched
      /\ \A u \in Observed : p[u] \in Bit
  BY SumFacts
<1>2. \A u \in Observed : reg[u] \in Reg /\ zeros[u] \in Zeros /\ p[u] = <<reg[u], zeros[u]>>
  BY <1>1 DEF Bit
<1>3. ASSUME NEW r \in Reg
      PROVE  E!RegisterRank(tf, luts[s], r, "Sum") = SumOver(tf, S(r))
  <2>1. ASSUME NEW z \in Zeros
        PROVE  E!BitRank(tf, luts[s], <<r, z>>, "Sum") = SumOver(tf, Fiber(S(r), zeros, z))
    <3>1. Fiber(S(r), zeros, z) = Fiber(Observed, p, <<r, z>>)
      <4> HIDE DEF reg, zeros, p
      <4> QED BY <1>2 DEF Fiber
    <3>2. <<r, z>> \in Bit
      BY DEF Bit
    <3>3. E!BitRank(tf, luts[s], <<r, z>>, "Sum") = SumOver(tf, Fiber(Observed, p, <<r, z>>))
      BY <3>2, BitSum
    <3> QED BY <3>1, <3>3
  <2>2. E!RegisterRank(tf, luts[s], r, "Sum")
          = SumFunction([z \in Zeros |-> E!BitRank(tf, luts[s], <<r, z>>, "Sum")])
    BY SumIsSum DEF E!RegisterRank
  <2>3. [z \in Zeros |-> E!BitRank(tf, luts[s], <<r, z>>, "Sum")]
          = [z \in Zeros |-> SumOver(tf, Fiber(S(r), zeros, z))]
    BY <2>1
  <2>4. IsFiniteSet(S(r)) /\ (\A t \in S(r) : tf[t] \in Nat) /\ \A u \in S(r) : zeros[u] \in Zeros
    <3>1. S(r) \subseteq Observed
      BY DEF Fiber
    <3> HIDE DEF S, zeros
    <3> QED BY <1>1, <1>2, <3>1, FS_Subset
  <2>5. IsFiniteSet(Zeros)
    BY BitsAreNumbers
  <2> DEFINE R == S(r)
  <2> HIDE DEF S, zeros, R
  <2>6. SumFunction([z \in Zeros |-> SumOver(tf, Fiber(R, zeros, z))]) = SumOver(tf, R)
    BY <2>4, <2>5, SumByFibers DEF R
  <2> QED BY <2>2, <2>3, <2>6 DEF R
<1>4. [r \in Reg |-> E!RegisterRank(tf, luts[s], r, "Sum")] = [r \in Reg |-> SumOver(tf, S(r))]
  BY <1>3
<1>5. IsFiniteSet(Reg)
  BY BitsAreNumbers
<1>6. SumFunction([r \in Reg |-> SumOver(tf, Fiber(Observed, reg, r))]) = SumOver(tf, Observed)
  <2> HIDE DEF reg
  <2> QED BY <1>1, <1>2, <1>5, SumByFibers
<1> QED BY <1>1, <1>4, <1>6

\* And those of the bits, each as a sketch of its own.
LEMMA CompoundTotal ==
  ASSUME RankInv, NEW s \in Seed
  PROVE  E!CompoundRank(tf, luts[s], {{i} : i \in hllsets[s]}, "Sum") = touched
<1> DEFINE p == position[s]
           alone == [u \in Observed |-> {p[u]}]
           I == {{i} : i \in hllsets[s]}
<1>1. /\ IsFiniteSet(Observed) /\ \A t \in Observed : tf[t] \in Nat
      /\ SumOver(tf, Observed) = touched
      /\ hllsets[s] \subseteq Bit /\ IsFiniteSet(hllsets[s])
      /\ \A u \in Observed : p[u] \in hllsets[s]
  BY SumFacts
<1>2. IsFiniteSet(I)
  <2> DEFINE single == [i \in hllsets[s] |-> {i}]
  <2>1. IsFiniteSet({single[i] : i \in hllsets[s]})
    <3> HIDE DEF single
    <3> QED BY <1>1, FiniteImage
  <2> QED BY <2>1
<1>3. \A u \in Observed : alone[u] \in I
  BY <1>1
<1>4. ASSUME NEW i \in hllsets[s]
      PROVE  E!HllsetRank(tf, luts[s], {i}, "Sum") = SumOver(tf, Fiber(Observed, alone, {i}))
  <2> DEFINE f == [j \in {i} |-> E!BitRank(tf, luts[s], j, "Sum")]
  <2>1. E!HllsetRank(tf, luts[s], {i}, "Sum") = SumFunction(f)
    BY SumIsSum DEF E!HllsetRank
  <2>2. i \in Bit /\ f[i] \in Nat /\ f[i] = SumOver(tf, Fiber(Observed, p, i))
    BY <1>1, BitSum
  <2>3. f = [j \in {i} |-> f[j]]
    OBVIOUS
  <2> HIDE DEF f
  <2>4. SumFunction(f) = SumOver(f, {i})
    BY <2>3 DEF SumOver
  <2>5. SumOver(f, {i}) = f[i] + SumOver(f, {}) /\ SumOver(f, {}) = 0
    <3>1. IsFiniteSet({i}) /\ \A x \in {i} : f[x] \in Nat
      BY <2>2, FS_Singleton
    <3>2. SumOver(f, {}) = 0
      BY SumOverSplits, FS_EmptySet
    <3>3. {i} \ {i} = {}
      OBVIOUS
    <3>4. SumOver(f, {i}) = f[i] + SumOver(f, {i} \ {i})
      BY <3>1, SumOverSplits
    <3> QED BY <3>2, <3>3, <3>4
  <2>6. Fiber(Observed, alone, {i}) = Fiber(Observed, p, i)
    BY DEF Fiber
  <2> QED BY <2>1, <2>2, <2>4, <2>5, <2>6
<1>5. E!CompoundRank(tf, luts[s], I, "Sum")
        = SumFunction([H \in I |-> E!HllsetRank(tf, luts[s], H, "Sum")])
  BY SumIsSum DEF E!CompoundRank
<1>6. [H \in I |-> E!HllsetRank(tf, luts[s], H, "Sum")]
        = [H \in I |-> SumOver(tf, Fiber(Observed, alone, H))]
  <2>1. \A H \in I : E!HllsetRank(tf, luts[s], H, "Sum") = SumOver(tf, Fiber(Observed, alone, H))
    BY <1>4
  <2> HIDE DEF I, alone
  <2> QED BY <2>1
<1>7. SumFunction([H \in I |-> SumOver(tf, Fiber(Observed, alone, H))]) = SumOver(tf, Observed)
  <2> HIDE DEF I, alone
  <2> QED BY <1>1, <1>2, <1>3, SumByFibers
<1> QED BY <1>1, <1>5, <1>6, <1>7

\* By Max and Min, the rank of a bit is an extreme of its tokens' TF.
LEMMA BitExtreme ==
  ASSUME RankInv, NEW s \in Seed, NEW i \in hllsets[s], NEW agg \in {"Max", "Min"}
  PROVE  LET m == E!BitRank(tf, luts[s], i, agg)
         IN  /\ m \in Nat
             /\ \E t \in Observed : position[s][t] = i /\ m = tf[t]
             /\ \A t \in Observed : position[s][t] = i => Extremer(agg, m, tf[t])
<1> DEFINE K == {u \in Observed : position[s][u] = i}
           rank == [t \in K |-> tf[t]]
<1>1. /\ luts[s][i] = K /\ K # {} /\ IsFiniteSet(Observed)
      /\ tf \in [Token -> Nat] /\ Observed \subseteq Token
  BY Fibers DEF RankInv
<1>2. E!BitRank(tf, luts[s], i, agg) = E!Fold(agg, rank)
  BY <1>1 DEF E!BitRank, E!TokenRank
<1>3. IsFiniteSet(K) /\ K = DOMAIN rank /\ \A t \in K : rank[t] \in Nat /\ rank[t] = tf[t]
  BY <1>1, FS_Subset
<1>4. \A t \in K : t \in Observed /\ position[s][t] = i
  OBVIOUS
<1>5. \A t \in Observed : position[s][t] = i => t \in K
  OBVIOUS
<1> HIDE DEF K, rank
<1>6. /\ \E t \in K : E!Fold(agg, rank) = rank[t]
      /\ \A t \in K : Extremer(agg, E!Fold(agg, rank), rank[t])
  BY <1>1, <1>3, FoldExtreme
<1> QED BY <1>2, <1>3, <1>4, <1>5, <1>6

\* By Max and Min, the rank of a part of a sketch is an extreme of its bits'.
LEMMA PartExtreme ==
  ASSUME RankInv, NEW s \in Seed, NEW H \in SUBSET hllsets[s], H # {},
         NEW agg \in {"Max", "Min"}
  PROVE  LET m == E!HllsetRank(tf, luts[s], H, agg)
             R(i) == E!BitRank(tf, luts[s], i, agg)
         IN  /\ m \in Nat
             /\ \E i \in H : m = R(i)
             /\ \A i \in H : Extremer(agg, m, R(i))
<1> DEFINE rank == [i \in H |-> E!BitRank(tf, luts[s], i, agg)]
<1>1. IsFiniteSet(H)
  BY SumFacts, FS_Subset
<1>2. E!HllsetRank(tf, luts[s], H, agg) = E!Fold(agg, rank)
  BY DEF E!HllsetRank
<1>3. H = DOMAIN rank /\ \A i \in H : rank[i] \in Nat /\ rank[i] = E!BitRank(tf, luts[s], i, agg)
  BY BitExtreme
<1> HIDE DEF rank
<1>4. /\ \E i \in H : E!Fold(agg, rank) = rank[i]
      /\ \A i \in H : Extremer(agg, E!Fold(agg, rank), rank[i])
  BY <1>1, <1>3, FoldExtreme
<1> QED BY <1>2, <1>3, <1>4

\* Two extremes of the same kind are one.
LEMMA OneExtreme ==
  \A agg, a, b : a \in Nat /\ b \in Nat /\ Extremer(agg, a, b) /\ Extremer(agg, b, a) => a = b
  BY DEF Extremer

\* Transitively.
LEMMA ExtremerTrans ==
  \A agg, a, b, c : a \in Nat /\ b \in Nat /\ c \in Nat
      /\ Extremer(agg, a, b) /\ Extremer(agg, b, c) => Extremer(agg, a, c)
  BY DEF Extremer

\* The rank of the sketch by Max and Min is the extreme of all TFs.
LEMMA SketchExtreme ==
  ASSUME RankInv, NEW s \in Seed, Observed # {}, NEW agg \in {"Max", "Min"}
  PROVE  LET counts == {tf[t] : t \in Observed}
         IN  E!HllsetRank(tf, luts[s], hllsets[s], agg)
               = IF agg = "Max" THEN Max(counts) ELSE Min(counts)
<1> DEFINE counts == {tf[t] : t \in Observed}
           e == IF agg = "Max" THEN Max(counts) ELSE Min(counts)
           m == E!HllsetRank(tf, luts[s], hllsets[s], agg)
           R(i) == E!BitRank(tf, luts[s], i, agg)
<1>1. /\ IsFiniteSet(Observed) /\ \A t \in Observed : tf[t] \in Nat
      /\ hllsets[s] # {} /\ \A u \in Observed : position[s][u] \in hllsets[s]
  BY SumFacts
<1>2. counts \in SUBSET Nat /\ counts # {} /\ IsFiniteSet(counts)
  BY <1>1, FiniteImage
<1>3. e \in counts /\ \A y \in counts : Extremer(agg, e, y)
  <2> HIDE DEF counts
  <2>1. CASE agg = "Max"
    BY <1>2, <2>1, MaxOf DEF Extremer
  <2>2. CASE agg = "Min"
    BY <1>2, <2>2, MinOf DEF Extremer
  <2> QED BY <2>1, <2>2
<1>4. m \in Nat /\ (\E i \in hllsets[s] : m = R(i)) /\ \A i \in hllsets[s] : Extremer(agg, m, R(i))
  BY <1>1, PartExtreme
<1>5. \A i \in hllsets[s] :
        /\ R(i) \in Nat
        /\ \E t \in Observed : R(i) = tf[t]
        /\ \A t \in Observed : position[s][t] = i => Extremer(agg, R(i), tf[t])
  BY BitExtreme
<1> HIDE DEF m, R, e
<1>6. \A t \in Observed : Extremer(agg, m, tf[t])
  <2> TAKE t \in Observed
  <2> DEFINE i == position[s][t]
  <2>1. i \in hllsets[s] /\ R(i) \in Nat /\ tf[t] \in Nat
    BY <1>1, <1>5
  <2>2. Extremer(agg, m, R(i)) /\ Extremer(agg, R(i), tf[t])
    BY <1>4, <1>5, <2>1
  <2> QED BY <1>4, <2>1, <2>2, ExtremerTrans
<1>7. \E t \in Observed : m = tf[t]
  BY <1>4, <1>5
<1>8. Extremer(agg, m, e) /\ Extremer(agg, e, m) /\ e \in Nat
  BY <1>2, <1>3, <1>6, <1>7
<1>9. m = e
  BY <1>4, <1>8, OneExtreme
<1> QED BY <1>9 DEF m, e

\* The compound of the bits is the sketch, by Max and Min as well.
LEMMA CompoundExtreme ==
  ASSUME RankInv, NEW s \in Seed, Observed # {}, NEW agg \in {"Max", "Min"}
  PROVE  E!CompoundRank(tf, luts[s], {{i} : i \in hllsets[s]}, agg)
           = E!HllsetRank(tf, luts[s], hllsets[s], agg)
<1> DEFINE I == {{i} : i \in hllsets[s]}
           rank == [H \in I |-> E!HllsetRank(tf, luts[s], H, agg)]
           c == E!Fold(agg, rank)
           m == E!HllsetRank(tf, luts[s], hllsets[s], agg)
           R(i) == E!BitRank(tf, luts[s], i, agg)
<1>1. IsFiniteSet(hllsets[s]) /\ hllsets[s] # {}
  BY SumFacts
<1>2. IsFiniteSet(I) /\ I # {}
  <2> DEFINE single == [i \in hllsets[s] |-> {i}]
  <2>1. IsFiniteSet({single[i] : i \in hllsets[s]})
    <3> HIDE DEF single
    <3> QED BY <1>1, FiniteImage
  <2> QED BY <1>1, <2>1
<1>3. \A i \in hllsets[s] : R(i) \in Nat
  BY BitExtreme
<1>4. \A i \in hllsets[s] : {i} \in I /\ rank[{i}] = R(i)
  <2> TAKE i \in hllsets[s]
  <2>1. {i} \in SUBSET hllsets[s] /\ {i} # {}
    OBVIOUS
  <2>2. \E j \in {i} : E!HllsetRank(tf, luts[s], {i}, agg) = R(j)
    BY <2>1, PartExtreme
  <2> QED BY <2>2
<1>5. \A H \in I : \E i \in hllsets[s] : H = {i}
  OBVIOUS
<1>6. I = DOMAIN rank
  OBVIOUS
<1>7. E!CompoundRank(tf, luts[s], I, agg) = c
  BY DEF E!CompoundRank
<1>8. m \in Nat /\ (\E i \in hllsets[s] : m = R(i)) /\ \A i \in hllsets[s] : Extremer(agg, m, R(i))
  BY <1>1, PartExtreme
<1> HIDE DEF I, rank, m, R
<1>9. \A H \in I : rank[H] \in Nat
  BY <1>3, <1>4, <1>5
<1>10. /\ \E H \in I : c = rank[H]
       /\ \A H \in I : Extremer(agg, c, rank[H])
  BY <1>2, <1>6, <1>9, FoldExtreme
<1> HIDE DEF c
<1>11. c \in Nat /\ (\E i \in hllsets[s] : c = R(i)) /\ \A i \in hllsets[s] : Extremer(agg, c, R(i))
  <2>1. PICK H \in I : c = rank[H]
    BY <1>10
  <2>2. PICK i \in hllsets[s] : H = {i}
    BY <1>5
  <2>3. c = R(i) /\ c \in Nat
    BY <1>3, <1>4, <2>1, <2>2
  <2>4. ASSUME NEW j \in hllsets[s] PROVE Extremer(agg, c, R(j))
    <3>1. {j} \in I /\ rank[{j}] = R(j)
      BY <1>4
    <3>2. Extremer(agg, c, rank[{j}])
      BY <1>10, <3>1
    <3> QED BY <3>1, <3>2
  <2> QED BY <2>3, <2>4
<1>12. c = m
  BY <1>8, <1>11, OneExtreme
<1> QED BY <1>7, <1>12 DEF m, I

\* The Min of a register is positive as soon as each of its bits has a token.
LEMMA RegisterMin ==
  ASSUME RankInv, NEW s \in Seed, NEW r \in Reg
  PROVE  E!RegisterRank(tf, luts[s], r, "Min") > 0 <=> {r} \X Zeros \subseteq hllsets[s]
<1> DEFINE R(z) == E!BitRank(tf, luts[s], <<r, z>>, "Min")
           rank == [z \in Zeros |-> R(z)]
<1>1. ASSUME NEW z \in Zeros
      PROVE  R(z) \in Nat /\ (R(z) > 0 <=> <<r, z>> \in hllsets[s])
  <2>1. <<r, z>> \in Bit
    BY DEF Bit
  <2>2. CASE <<r, z>> \in hllsets[s]
    <3>1. R(z) \in Nat /\ \E t \in Observed : R(z) = tf[t]
      BY <2>2, BitExtreme
    <3>2. \A t \in Observed : tf[t] > 0
      BY DEF Observed
    <3> QED BY <2>2, <3>1, <3>2
  <2>3. CASE <<r, z>> \notin hllsets[s]
    <3>1. luts[s][<<r, z>>] = {}
      BY <2>1, <2>3, Fibers DEF RankInv
    <3>2. R(z) = E!Fold("Min", [t \in {} |-> tf[t]])
      BY <3>1 DEF E!BitRank, E!TokenRank
    <3>3. DOMAIN [t \in {} |-> tf[t]] = {}
      OBVIOUS
    <3>4. R(z) = 0
      BY <3>2, <3>3, EmptyFold
    <3> QED BY <2>3, <3>4
  <2> QED BY <2>2, <2>3
<1>2. E!RegisterRank(tf, luts[s], r, "Min") = E!Fold("Min", rank)
  BY DEF E!RegisterRank
<1>3. Zeros = DOMAIN rank /\ \A z \in Zeros : rank[z] = R(z)
  OBVIOUS
<1> HIDE DEF R, rank
<1>4. IsFiniteSet(Zeros) /\ Zeros # {}
  BY BitsAreNumbers
<1> DEFINE m == E!Fold("Min", rank)
<1>5. (\E z \in Zeros : m = rank[z]) /\ \A z \in Zeros : Extremer("Min", m, rank[z])
  <2>1. \A z \in Zeros : rank[z] \in Nat
    BY <1>1, <1>3
  <2>2. "Min" \in {"Max", "Min"}
    OBVIOUS
  <2> QED BY <1>3, <1>4, <2>1, <2>2, FoldExtreme
<1> HIDE DEF m
<1>6. m > 0 <=> \A z \in Zeros : R(z) > 0
  <2>1. \A z \in Zeros : m <= R(z)
    BY <1>3, <1>5 DEF Extremer
  <2>2. PICK z \in Zeros : m = R(z)
    BY <1>3, <1>5
  <2>3. m \in Nat
    BY <1>1, <2>2
  <2>4. ASSUME m > 0, NEW y \in Zeros PROVE R(y) > 0
    <3>1. m <= R(y) /\ R(y) \in Nat
      BY <1>1, <2>1
    <3> QED BY <2>3, <2>4, <3>1
  <2>5. (\A y \in Zeros : R(y) > 0) => m > 0
    BY <2>2
  <2> QED BY <2>4, <2>5
<1>7. m > 0 <=> \A z \in Zeros : <<r, z>> \in hllsets[s]
  BY <1>1, <1>6
<1>8. {r} \X Zeros \subseteq hllsets[s] <=> \A z \in Zeros : <<r, z>> \in hllsets[s]
  OBVIOUS
<1> QED BY <1>2, <1>7, <1>8 DEF m

\* At every level the ranks count every touch once, however tokens collide;
\* by Max and Min they find the highest and the lowest TF.
THEOREM RanksCount == ContextSpec => []RankCountsTouches
<1>1. ASSUME RankInv, NEW counts, counts = {tf[t] : t \in Observed}, counts # {}
      PROVE  Observed # {}
  BY <1>1
<1>2. RankInv => RankCountsTouches
  <2> SUFFICES ASSUME RankInv, NEW s \in Seed
               PROVE
        LET counts == {tf[t] : t \in Observed}
        IN  /\ E!HllsetRank(tf, luts[s], hllsets[s], "Sum") = touched
            /\ SumFunction([r \in Reg |-> E!RegisterRank(tf, luts[s], r, "Sum")]) = touched
            /\ E!CompoundRank(tf, luts[s], {{i} : i \in hllsets[s]}, "Sum") = touched
            /\ \A agg \in {"Max", "Min"} :
                 counts # {} =>
                   /\ E!HllsetRank(tf, luts[s], hllsets[s], agg)
                        = (IF agg = "Max" THEN Max(counts) ELSE Min(counts))
                   /\ E!CompoundRank(tf, luts[s], {{i} : i \in hllsets[s]}, agg)
                        = E!HllsetRank(tf, luts[s], hllsets[s], agg)
            /\ \A r \in Reg : E!RegisterRank(tf, luts[s], r, "Min") > 0
                                <=> {r} \X Zeros \subseteq hllsets[s]
    BY DEF RankCountsTouches
  <2> QED BY <1>1, SketchTotal, RegisterTotal, CompoundTotal, SketchExtreme,
             CompoundExtreme, RegisterMin
<1> QED
  BY <1>2, TotalHolds, PTL

-----------------------------------------------------------------------------
(***************************************************************************)
(* The tree.                                                               *)
(***************************************************************************)

\* l is a sequence of m values, each there once.
Distinct(l, m) ==
  /\ m \in Nat \ {0}
  /\ l = [k \in 1 .. m |-> l[k]]
  /\ \A j, k \in 1 .. m : l[j] = l[k] => j = k

LEMMA DistinctLen ==
  ASSUME NEW l, NEW m, Distinct(l, m)
  PROVE  Len(l) = m /\ DOMAIN l = 1 .. m /\ m \in Nat /\ m > 0
<1>1. m \in Nat /\ m > 0 /\ l = [k \in 1 .. m |-> l[k]]
  BY DEF Distinct
<1>2. l \in [1 .. m -> {l[k] : k \in 1 .. m}]
  BY <1>1
<1>3. l \in Seq({l[k] : k \in 1 .. m})
  BY <1>1, <1>2
<1> QED BY <1>1, <1>2, <1>3

\* The next level is shorter, and again each node is there once.
LEMMA UpDistinct ==
  ASSUME NEW l, NEW m, Distinct(l, m), m > 1
  PROVE  LET c == (m + 1) \div 2
         IN  /\ c < m
             /\ Distinct(T!LevelUp(l), c)
             /\ \A k \in 1 .. c :
                  T!LevelUp(l)[k]
                    = T!Node(l[2 * k - 1], l[IF 2 * k <= m THEN 2 * k ELSE 2 * k - 1])
<1> DEFINE c == (m + 1) \div 2
           u == [k \in 1 .. c |->
                   T!Node(l[2 * k - 1], l[IF 2 * k <= m THEN 2 * k ELSE 2 * k - 1])]
<1>1. Len(l) = m /\ m \in Nat
  BY DistinctLen
<1>2. T!LevelUp(l) = u
  BY <1>1 DEF T!LevelUp
<1>3. c \in Nat /\ c > 0 /\ c < m /\ (m = 2 * c \/ m = 2 * c - 1)
  BY <1>1
<1> HIDE DEF c
<1>4. \A k \in 1 .. c : u[k] = T!Node(l[2 * k - 1], l[IF 2 * k <= m THEN 2 * k ELSE 2 * k - 1])
  OBVIOUS
<1>5. u = [k \in 1 .. c |-> u[k]]
  OBVIOUS
<1> HIDE DEF u
<1>6. ASSUME NEW j \in 1 .. c, NEW k \in 1 .. c, u[j] = u[k]
      PROVE  j = k
  <2>1. l[2 * j - 1] = l[2 * k - 1]
    BY <1>4, <1>6 DEF T!Node
  <2>2. 2 * j - 1 \in 1 .. m /\ 2 * k - 1 \in 1 .. m
    BY <1>1, <1>3
  <2>3. 2 * j - 1 = 2 * k - 1
    BY <2>1, <2>2 DEF Distinct
  <2> QED BY <2>3
<1>7. Distinct(u, c)
  BY <1>3, <1>5, <1>6 DEF Distinct
<1> QED BY <1>2, <1>3, <1>4, <1>7 DEF c

\* And its first node is a node, no leaf.
LEMMA FirstIsNode ==
  ASSUME NEW l, NEW m, Distinct(l, m), m > 1
  PROVE  \E x, y : T!LevelUp(l)[1] = T!Node(x, y)
<1> DEFINE c == (m + 1) \div 2
<1>1. \A k \in 1 .. c : \E x, y : T!LevelUp(l)[k] = T!Node(x, y)
  <2> DEFINE At(k) == IF 2 * k <= m THEN 2 * k ELSE 2 * k - 1
  <2>1. \A k \in 1 .. c : T!LevelUp(l)[k] = T!Node(l[2 * k - 1], l[At(k)])
    BY UpDistinct
  <2> HIDE DEF At, c
  <2> QED BY <2>1
<1>2. 1 \in 1 .. c
  <2>1. m \in Nat /\ m > 1
    BY DistinctLen
  <2> QED BY <2>1
<1> HIDE DEF c
<1> QED BY <1>1, <1>2

\* No two levels have the same level above them: the last node of an odd level,
\* its own sibling, is not mistaken for a pair, as no node is there twice.
LEMMA UpInjective ==
  ASSUME NEW l, NEW m, Distinct(l, m), m > 1,
         NEW k, NEW n, Distinct(k, n), n > 1,
         T!LevelUp(l) = T!LevelUp(k)
  PROVE  l = k
<1> DEFINE c == (m + 1) \div 2
           d == (n + 1) \div 2
           u == T!LevelUp(l)
           At(p, o) == IF 2 * p <= o THEN 2 * p ELSE 2 * p - 1
<1>1. m \in Nat /\ n \in Nat
  BY DistinctLen
<1>2. Len(u) = c /\ Len(u) = d
  BY UpDistinct, DistinctLen
<1>3. \A p \in 1 .. c : l[2 * p - 1] = k[2 * p - 1] /\ l[At(p, m)] = k[At(p, n)]
  <2> TAKE p \in 1 .. c
  <2>1. u[p] = T!Node(l[2 * p - 1], l[At(p, m)])
    BY UpDistinct
  <2>2. u[p] = T!Node(k[2 * p - 1], k[At(p, n)])
    BY <1>2, UpDistinct
  <2> HIDE DEF u
  <2> QED BY <2>1, <2>2 DEF T!Node
<1>4. /\ c \in Nat /\ c > 0 /\ c = d
      /\ m = 2 * c \/ m = 2 * c - 1
      /\ n = 2 * c \/ n = 2 * c - 1
  BY <1>1, <1>2
<1> HIDE DEF c, d, u
<1>5. l[2 * c - 1] = k[2 * c - 1] /\ l[At(c, m)] = k[At(c, n)] /\ 1 <= 2 * c - 1
  BY <1>3, <1>4
<1>6. m = n
  <2>1. ASSUME m = 2 * c, n = 2 * c - 1 PROVE FALSE
    <3>1. At(c, m) = 2 * c /\ At(c, n) = 2 * c - 1
      BY <1>4, <2>1
    <3>2. l[2 * c] = l[2 * c - 1] /\ 2 * c \in 1 .. m /\ 2 * c - 1 \in 1 .. m
      BY <1>4, <1>5, <2>1, <3>1
    <3>3. 2 * c = 2 * c - 1
      BY <3>2 DEF Distinct
    <3> QED BY <1>4, <3>3
  <2>2. ASSUME n = 2 * c, m = 2 * c - 1 PROVE FALSE
    <3>1. At(c, n) = 2 * c /\ At(c, m) = 2 * c - 1
      BY <1>4, <2>2
    <3>2. k[2 * c] = k[2 * c - 1] /\ 2 * c \in 1 .. n /\ 2 * c - 1 \in 1 .. n
      BY <1>4, <1>5, <2>2, <3>1
    <3>3. 2 * c = 2 * c - 1
      BY <3>2 DEF Distinct
    <3> QED BY <1>4, <3>3
  <2> QED BY <1>4, <2>1, <2>2
<1>7. ASSUME NEW j \in 1 .. m PROVE l[j] = k[j]
  <2>1. PICK p \in 1 .. c : j = 2 * p - 1 \/ j = 2 * p
    <3>1. (j + 1) \div 2 \in 1 .. c /\ (j = 2 * ((j + 1) \div 2) - 1 \/ j = 2 * ((j + 1) \div 2))
      BY <1>1, <1>4
    <3> QED BY <3>1
  <2>2. CASE j = 2 * p - 1
    BY <1>3, <2>2
  <2>3. CASE j = 2 * p
    <3>1. At(p, m) = j /\ At(p, n) = j
      BY <1>6, <2>3
    <3> QED BY <1>3, <3>1
  <2> QED BY <2>1, <2>2, <2>3
<1> QED BY <1>6, <1>7 DEF Distinct

\* h goes up from the leaves of q, level by level.
LevelAt(h, q, d) ==
  IF d = 0 THEN [k \in DOMAIN q |-> T!Leaf(q[k])]
  ELSE IF Len(h[d - 1]) > 1 THEN T!LevelUp(h[d - 1]) ELSE h[d - 1]
TreeOver(h, q) == \A d \in 0 .. Len(q) : h[d] = LevelAt(h, q, d)

LEMMA LevelsAreTree ==
  ASSUME NEW q, Len(q) \in Nat
  PROVE  TreeOver(T!Levels(q), q)
<1> DEFINE n == Len(q)
           Table(h) == h = [d \in 0 .. n |->
             IF d = 0 THEN [k \in DOMAIN q |-> T!Leaf(q[k])]
             ELSE IF Len(h[d - 1]) > 1 THEN T!LevelUp(h[d - 1]) ELSE h[d - 1]]
           UpTo(h, m) == \A d \in 0 .. n : d <= m => h[d] = LevelAt(h, q, d)
           Bad == {m \in Nat : ~ \E h : UpTo(h, m)}
<1>1. Bad = {}
  <2> SUFFICES ASSUME Bad # {} PROVE FALSE
    OBVIOUS
  <2>1. PICK m \in Bad : \A k \in Bad : m <= k
    <3> HIDE DEF UpTo
    <3> QED BY LeastNat
  <2>2. CASE m = 0
    <3> DEFINE h == [d \in 0 .. n |-> [k \in DOMAIN q |-> T!Leaf(q[k])]]
    <3>1. UpTo(h, m)
      BY <2>2 DEF LevelAt
    <3> HIDE DEF UpTo, h
    <3> QED BY <3>1
  <2>3. CASE m # 0
    <3>1. m - 1 \in Nat /\ m - 1 \notin Bad
      <4> HIDE DEF UpTo
      <4>1. m \in Nat /\ m # 0
        BY <2>3
      <4>2. m - 1 \in Nat /\ ~(m <= m - 1)
        BY <4>1
      <4> HIDE DEF Bad
      <4> QED BY <2>1, <4>2
    <3>2. PICK h : UpTo(h, m - 1)
      <4> HIDE DEF UpTo
      <4> QED BY <3>1
    <3> DEFINE g == [d \in 0 .. n |-> IF d <= m - 1 THEN h[d] ELSE LevelAt(h, q, d)]
    <3>3. ASSUME NEW d \in 0 .. n, d <= m
          PROVE  g[d] = LevelAt(g, q, d)
      <4>1. g[d] = LevelAt(h, q, d)
        BY <3>2
      <4>2. d # 0 => d - 1 \in 0 .. n /\ g[d - 1] = h[d - 1]
        BY <3>3
      <4> QED BY <4>1, <4>2 DEF LevelAt
    <3>4. UpTo(g, m)
      BY <3>3
    <3> HIDE DEF UpTo, g
    <3> QED BY <3>4
  <2> QED BY <2>2, <2>3
<1>2. PICK h : UpTo(h, n)
  <2> HIDE DEF UpTo
  <2> QED BY <1>1
<1>3. \E t : Table(t)
  <2> DEFINE t == [d \in 0 .. n |-> h[d]]
  <2>1. ASSUME NEW d \in 0 .. n
        PROVE  t[d] = IF d = 0 THEN [k \in DOMAIN q |-> T!Leaf(q[k])]
                      ELSE IF Len(t[d - 1]) > 1 THEN T!LevelUp(t[d - 1]) ELSE t[d - 1]
    <3>1. t[d] = LevelAt(h, q, d)
      BY <1>2
    <3>2. d # 0 => d - 1 \in 0 .. n /\ t[d - 1] = h[d - 1]
      OBVIOUS
    <3> HIDE DEF t
    <3> QED BY <3>1, <3>2 DEF LevelAt
  <2>2. Table(t)
    BY <2>1
  <2> HIDE DEF t, Table
  <2> QED BY <2>2
<1> DEFINE t == CHOOSE s : Table(s)
<1>4. T!Levels(q) = t
  BY DEF T!Levels
<1>5. Table(t)
  BY <1>3
<1> HIDE DEF t
<1>6. ASSUME NEW d \in 0 .. n PROVE t[d] = LevelAt(t, q, d)
  BY <1>5 DEF LevelAt
<1> QED BY <1>4, <1>6 DEF TreeOver

\* In the first e levels, each is made from a longer one below.
Climbs(h, e) == \A c \in 1 .. e : Len(h[c - 1]) > 1 /\ h[c] = T!LevelUp(h[c - 1])

\* At level d the climb has got to level e, the root or not yet; d levels up,
\* a sequence of n values has at most n - d left.
Climbed(h, n, d) ==
  \E m \in Nat : /\ Distinct(h[d], m)
                 /\ m = 1 \/ m <= n - d
                 /\ \E e \in 0 .. d : Climbs(h, e) /\ h[d] = h[e] /\ (e = d \/ m = 1)

LEMMA Climb ==
  ASSUME NEW q, NEW n, Distinct(q, n), NEW h, TreeOver(h, q)
  PROVE  \A d \in 0 .. n : Climbed(h, n, d)
<1>1. n \in Nat /\ n > 0 /\ Len(q) = n /\ DOMAIN q = 1 .. n
  BY DistinctLen
<1> DEFINE Bad == {d \in 0 .. n : ~Climbed(h, n, d)}
<1> SUFFICES ASSUME Bad # {} PROVE FALSE
  OBVIOUS
<1>2. PICK d \in Bad : \A e \in Bad : d <= e
  <2>1. Bad \in SUBSET Nat
    BY <1>1
  <2> HIDE DEF Bad
  <2> QED BY <2>1, LeastNat
<1>3. d \in 0 .. n /\ ~Climbed(h, n, d)
  OBVIOUS
<1>4. h[d] = LevelAt(h, q, d)
  BY <1>1, <1>3 DEF TreeOver
<1>5. CASE d = 0
  <2> DEFINE l == [k \in 1 .. n |-> T!Leaf(q[k])]
  <2>1. h[0] = l
    BY <1>1, <1>4, <1>5 DEF LevelAt
  <2>2. \A j \in 1 .. n : l[j] = <<"leaf", q[j]>>
    BY DEF T!Leaf
  <2>3. l = [k \in 1 .. n |-> l[k]]
    OBVIOUS
  <2> HIDE DEF l
  <2>4. \A j, k \in 1 .. n : l[j] = l[k] => j = k
    BY <2>2 DEF Distinct
  <2>5. Distinct(l, n)
    BY <1>1, <2>3, <2>4 DEF Distinct
  <2>6. Climbs(h, 0) /\ 0 \in 0 .. 0 /\ n <= n - 0
    BY <1>1 DEF Climbs
  <2>7. Climbed(h, n, 0)
    BY <1>1, <2>1, <2>5, <2>6 DEF Climbed
  <2> QED BY <1>3, <1>5, <2>7
<1>6. CASE d # 0
  <2> DEFINE c == d - 1
  <2>0. d \in Nat /\ d # 0 /\ d <= n
    BY <1>1, <1>3, <1>6
  <2>1. c \in 0 .. n /\ ~(d <= c) /\ d = c + 1 /\ c \in Nat
    BY <1>1, <2>0
  <2>2. Climbed(h, n, c)
    BY <1>2, <2>1
  <2> HIDE DEF c
  <2>3. PICK m \in Nat :
          /\ Distinct(h[c], m)
          /\ m = 1 \/ m <= n - c
          /\ \E e \in 0 .. c : Climbs(h, e) /\ h[c] = h[e] /\ (e = c \/ m = 1)
    BY <2>2 DEF Climbed
  <2>4. PICK e \in 0 .. c : Climbs(h, e) /\ h[c] = h[e] /\ (e = c \/ m = 1)
    BY <2>3
  <2>5. Len(h[c]) = m /\ m > 0
    BY <2>3, DistinctLen
  <2>6. h[d] = IF m > 1 THEN T!LevelUp(h[c]) ELSE h[c]
    BY <1>4, <1>6, <2>5 DEF LevelAt, c
  <2>7. CASE m > 1
    <3> DEFINE w == (m + 1) \div 2
    <3>1. w < m /\ Distinct(h[d], w) /\ w \in Nat
      <4>1. w < m /\ Distinct(T!LevelUp(h[c]), w)
        BY <2>3, <2>7, UpDistinct
      <4>2. w \in Nat
        OBVIOUS
      <4> HIDE DEF w
      <4> QED BY <2>6, <2>7, <4>1, <4>2
    <3>2. e = c /\ m <= n - c
      BY <2>3, <2>4, <2>7
    <3>3. w <= n - d
      BY <1>1, <2>1, <3>1, <3>2
    <3>4. Climbs(h, d)
      <4> SUFFICES ASSUME NEW j \in 1 .. d
                   PROVE  Len(h[j - 1]) > 1 /\ h[j] = T!LevelUp(h[j - 1])
        BY DEF Climbs
      <4>1. CASE j = d
        BY <2>5, <2>6, <2>7, <4>1 DEF c
      <4>2. CASE j # d
        <5>1. j \in 1 .. e
          BY <2>1, <3>2, <4>2
        <5> QED BY <2>4, <5>1 DEF Climbs
      <4> QED BY <4>1, <4>2
    <3>5. d \in 0 .. d
      BY <2>0
    <3> HIDE DEF w
    <3> QED BY <1>3, <3>1, <3>3, <3>4, <3>5 DEF Climbed
  <2>8. CASE m = 1
    <3>1. h[d] = h[e] /\ Distinct(h[d], m) /\ e \in 0 .. d
      BY <2>1, <2>3, <2>4, <2>6, <2>8
    <3> QED BY <1>3, <2>4, <2>8, <3>1 DEF Climbed
  <2> QED BY <2>5, <2>7, <2>8
<1> QED BY <1>5, <1>6

\* The tree of n distinct values has a height: a level that is one root.
LEMMA Height ==
  ASSUME NEW q, NEW n, Distinct(q, n), NEW h, TreeOver(h, q)
  PROVE  \E e \in 0 .. n : Climbs(h, e) /\ h[n] = h[e] /\ Distinct(h[e], 1)
<1>1. n \in Nat /\ n > 0 /\ n \in 0 .. n
  BY DistinctLen
<1>2. PICK m \in Nat :
        /\ Distinct(h[n], m)
        /\ m = 1 \/ m <= n - n
        /\ \E e \in 0 .. n : Climbs(h, e) /\ h[n] = h[e] /\ (e = n \/ m = 1)
  BY <1>1, Climb DEF Climbed
<1>3. m = 1
  BY <1>1, <1>2, DistinctLen
<1> QED BY <1>2, <1>3

\* Every level of a climb is of distinct nodes.
LEMMA LevelsDistinct ==
  ASSUME NEW q, NEW n, Distinct(q, n), NEW h, TreeOver(h, q), NEW d \in 0 .. n
  PROVE  Distinct(h[d], Len(h[d]))
<1>1. PICK m \in Nat : Distinct(h[d], m)
  BY Climb DEF Climbed
<1>2. Len(h[d]) = m
  BY <1>1, DistinctLen
<1> QED BY <1>1, <1>2

\* The root gives back the values: going down from equal roots the levels are
\* equal, and leaves are no nodes, so that both trees end at once.
LEMMA RootTells ==
  ASSUME NEW q, NEW n, Distinct(q, n), NEW h, TreeOver(h, q),
         NEW r, NEW m, Distinct(r, m), NEW g, TreeOver(g, r),
         h[n][1] = g[m][1]
  PROVE  n = m /\ \A k \in 1 .. n : q[k] = r[k]
<1>0. n \in Nat /\ n > 0 /\ m \in Nat /\ m > 0 /\ Len(q) = n /\ Len(r) = m
      /\ DOMAIN q = 1 .. n /\ DOMAIN r = 1 .. m
  BY DistinctLen
<1>1. PICK a \in 0 .. n : Climbs(h, a) /\ h[n] = h[a] /\ Distinct(h[a], 1)
  BY Height
<1>2. PICK b \in 0 .. m : Climbs(g, b) /\ g[m] = g[b] /\ Distinct(g[b], 1)
  BY Height
<1>3. h[a] = g[b]
  <2>1. h[a] = [k \in 1 .. 1 |-> h[a][k]] /\ g[b] = [k \in 1 .. 1 |-> g[b][k]]
    BY <1>1, <1>2 DEF Distinct
  <2>2. h[a][1] = g[b][1] /\ \A k \in 1 .. 1 : k = 1
    BY <1>1, <1>2
  <2>3. \A k \in 1 .. 1 : h[a][k] = g[b][k]
    BY <2>2
  <2> QED BY <2>1, <2>3
<1> DEFINE Below == {j \in Nat : j <= a /\ j <= b}
           Bad == {j \in Below : h[a - j] # g[b - j]}
<1>4. Bad = {}
  <2> SUFFICES ASSUME Bad # {} PROVE FALSE
    OBVIOUS
  <2>1. PICK j \in Bad : \A i \in Bad : j <= i
    <3>1. Bad \in SUBSET Nat
      OBVIOUS
    <3> HIDE DEF Bad
    <3> QED BY <3>1, LeastNat
  <2>2. j \in Nat /\ j <= a /\ j <= b /\ h[a - j] # g[b - j] /\ a \in Nat /\ b \in Nat
    BY <1>0
  <2>3. j # 0
    BY <1>3, <2>2
  <2> DEFINE i == j - 1
             c == a - j
             d == b - j
  <2>4. /\ i \in Nat /\ i <= a /\ i <= b /\ ~(j <= i)
        /\ c \in 0 .. n /\ d \in 0 .. m
        /\ a - i = c + 1 /\ b - i = d + 1
        /\ c + 1 \in 1 .. a /\ d + 1 \in 1 .. b
        /\ (c + 1) - 1 = c /\ (d + 1) - 1 = d
    BY <1>0, <2>2, <2>3
  <2>5. h[a - i] = g[b - i]
    <3>1. i \in Below /\ i \notin Bad
      BY <2>1, <2>4
    <3> HIDE DEF Below
    <3> QED BY <3>1
  <2> HIDE DEF i, c, d
  <2>6. /\ Len(h[c]) > 1 /\ h[c + 1] = T!LevelUp(h[c])
        /\ Len(g[d]) > 1 /\ g[d + 1] = T!LevelUp(g[d])
    BY <1>1, <1>2, <2>4 DEF Climbs
  <2>7. Distinct(h[c], Len(h[c])) /\ Distinct(g[d], Len(g[d]))
    BY <2>4, LevelsDistinct
  <2>8. h[c] = g[d]
    BY <2>4, <2>5, <2>6, <2>7, UpInjective
  <2> QED BY <2>2, <2>8 DEF c, d
<1>5. h[0] = [k \in 1 .. n |-> T!Leaf(q[k])] /\ g[0] = [k \in 1 .. m |-> T!Leaf(r[k])]
  <2>1. 0 \in 0 .. n /\ 0 \in 0 .. m
    BY <1>0
  <2> QED BY <1>0, <2>1 DEF TreeOver, LevelAt
<1>6. \A e \in 1 .. a : \E x, y : h[e][1] = T!Node(x, y)
  <2> TAKE e \in 1 .. a
  <2>1. e - 1 \in 0 .. n /\ Len(h[e - 1]) > 1 /\ h[e] = T!LevelUp(h[e - 1])
    BY <1>0, <1>1 DEF Climbs
  <2>2. Distinct(h[e - 1], Len(h[e - 1]))
    BY <2>1, LevelsDistinct
  <2> QED BY <2>1, <2>2, FirstIsNode
<1>7. \A e \in 1 .. b : \E x, y : g[e][1] = T!Node(x, y)
  <2> TAKE e \in 1 .. b
  <2>1. e - 1 \in 0 .. m /\ Len(g[e - 1]) > 1 /\ g[e] = T!LevelUp(g[e - 1])
    BY <1>0, <1>2 DEF Climbs
  <2>2. Distinct(g[e - 1], Len(g[e - 1]))
    BY <2>1, LevelsDistinct
  <2> QED BY <2>1, <2>2, FirstIsNode
<1>8. \A x, y, z : T!Leaf(x) # T!Node(y, z)
  BY DEF T!Leaf, T!Node
<1>9. a = b
  <2>1. ASSUME a < b PROVE FALSE
    <3>1. a \in Below /\ a - a = 0 /\ b - a \in 1 .. b /\ 1 \in 1 .. n
      BY <1>0, <2>1
    <3>2. h[0] = g[b - a]
      BY <1>4, <3>1
    <3>3. h[0][1] = T!Leaf(q[1])
      BY <1>5, <3>1
    <3> QED BY <1>7, <1>8, <3>1, <3>2, <3>3
  <2>2. ASSUME b < a PROVE FALSE
    <3>1. b \in Below /\ b - b = 0 /\ a - b \in 1 .. a /\ 1 \in 1 .. m
      BY <1>0, <2>2
    <3>2. g[0] = h[a - b]
      BY <1>4, <3>1
    <3>3. g[0][1] = T!Leaf(r[1])
      BY <1>5, <3>1
    <3> QED BY <1>6, <1>8, <3>1, <3>2, <3>3
  <2> QED BY <1>0, <2>1, <2>2
<1>10. h[0] = g[0]
  <2>1. a \in Below /\ a - a = 0 /\ b - a = 0
    BY <1>0, <1>9
  <2> QED BY <1>4, <2>1
<1>11. n = m
  <2>1. DOMAIN h[0] = 1 .. n /\ DOMAIN g[0] = 1 .. m
    BY <1>5
  <2>2. 1 .. n = 1 .. m
    BY <1>10, <2>1
  <2> QED BY <1>0, <2>2
<1>12. \A k \in 1 .. n : T!Leaf(q[k]) = T!Leaf(r[k])
  <2> TAKE k \in 1 .. n
  <2>1. h[0][k] = T!Leaf(q[k]) /\ g[0][k] = T!Leaf(r[k])
    BY <1>5, <1>11
  <2> QED BY <1>10, <2>1
<1> QED BY <1>11, <1>12 DEF T!Leaf

\* Of the bits of a set one comes after all others.
LEMMA LastBit ==
  ASSUME NEW A \in SUBSET (Nat \X Nat), IsFiniteSet(A), A # {}
  PROVE  \E x \in A : \A y \in A \ {x} : T!BitLess(y, x)
<1> DEFINE fst == [i \in A |-> i[1]]
           V == {fst[i] : i \in A}
<1>1. V \in SUBSET Nat /\ V # {} /\ \A i \in A : fst[i] = i[1]
  OBVIOUS
<1>2. IsFiniteSet(V)
  <2> HIDE DEF fst
  <2> QED BY FiniteImage
<1> DEFINE r == Max(V)
<1>3. r \in V /\ \A v \in V : v <= r
  <2> HIDE DEF V
  <2> QED BY <1>1, <1>2, MaxOf
<1> HIDE DEF r
<1> DEFINE B == {i \in A : i[1] = r}
           snd == [i \in B |-> i[2]]
           W == {snd[i] : i \in B}
<1>4. W \in SUBSET Nat /\ W # {} /\ \A i \in B : snd[i] = i[2]
  BY <1>3
<1>5. IsFiniteSet(W)
  <2>1. IsFiniteSet(B)
    BY FS_Subset
  <2> HIDE DEF snd, B
  <2> QED BY <2>1, FiniteImage
<1>6. Max(W) \in W /\ \A w \in W : w <= Max(W)
  <2> HIDE DEF W
  <2> QED BY <1>4, <1>5, MaxOf
<1>7. PICK x \in B : Max(W) = x[2]
  BY <1>4, <1>6
<1>8. ASSUME NEW y \in A, y # x PROVE T!BitLess(y, x)
  <2>1. y[1] <= r /\ x[1] = r /\ x \in A
    BY <1>1, <1>3
  <2>2. y[1] = r => y[2] <= x[2]
    <3> SUFFICES ASSUME y[1] = r PROVE y[2] <= x[2]
      OBVIOUS
    <3>1. y \in B
      OBVIOUS
    <3>2. y[2] \in W
      BY <1>4, <3>1
    <3> HIDE DEF W
    <3> QED BY <1>6, <1>7, <3>2
  <2>3. x = <<x[1], x[2]>> /\ y = <<y[1], y[2]>>
        /\ x[1] \in Nat /\ x[2] \in Nat /\ y[1] \in Nat /\ y[2] \in Nat
    BY <2>1
  <2>4. y[1] = r => y[2] # x[2]
    BY <1>8, <2>1, <2>3
  <2> QED BY <2>1, <2>2, <2>3, <2>4 DEF T!BitLess
<1> QED BY <1>8

\* q lists the n elements of A in the order of the bits.
Lists(q, n, A) ==
  /\ q \in [1 .. n -> A]
  /\ \A j, k \in 1 .. n : j # k => q[j] # q[k]
  /\ \A j, k \in 1 .. n : j < k => T!BitLess(q[j], q[k])

\* A finite set of bits can be sorted.
LEMMA CanBeSorted ==
  ASSUME NEW A \in SUBSET (Nat \X Nat), IsFiniteSet(A)
  PROVE  \E q : Lists(q, Cardinality(A), A)
<1> DEFINE F == {B \in SUBSET A : ~ \E q : Lists(q, Cardinality(B), B)}
<1> SUFFICES ASSUME F # {} PROVE FALSE
  OBVIOUS
<1>1. PICK B \in F : \A C \in F : Cardinality(B) <= Cardinality(C)
  <2>1. F \in SUBSET SUBSET A
    OBVIOUS
  <2> HIDE DEF F
  <2> QED BY <2>1, LeastSet
<1>2. /\ B \subseteq A /\ ~ \E q : Lists(q, Cardinality(B), B)
      /\ IsFiniteSet(B) /\ Cardinality(B) \in Nat
  BY FS_Subset, FS_CardinalityType
<1>3. B # {}
  <2>1. ASSUME B = {} PROVE FALSE
    <3>1. Cardinality(B) = 0
      BY <2>1, FS_EmptySet
    <3> DEFINE q == [k \in 1 .. 0 |-> k]
    <3>2. Lists(q, 0, B)
      BY DEF Lists
    <3> HIDE DEF q
    <3> QED BY <1>2, <3>1, <3>2
  <2> QED BY <2>1
<1>4. PICK x \in B : \A y \in B \ {x} : T!BitLess(y, x)
  BY <1>2, <1>3, LastBit
<1> DEFINE C == B \ {x}
           n == Cardinality(B)
<1>5. IsFiniteSet(C) /\ C \subseteq A /\ Cardinality(C) = n - 1 /\ n - 1 \in Nat
  <2>1. Cardinality(C) = n - 1 /\ IsFiniteSet(C)
    BY <1>2, FS_RemoveElement
  <2> QED BY <1>2, <2>1, FS_CardinalityType
<1>6. PICK q : Lists(q, n - 1, C)
  <2>1. ~(n <= n - 1)
    BY <1>2
  <2>2. C \notin F
    <3> HIDE DEF F
    <3> QED BY <1>1, <1>5, <2>1
  <2> QED BY <1>5, <2>2
<1> DEFINE p == [k \in 1 .. n |-> IF k = n THEN x ELSE q[k]]
<1> HIDE DEF C, n
<1>7. /\ n \in Nat /\ n \in 1 .. n
      /\ \A k \in 1 .. n : k # n => k \in 1 .. n - 1
  BY <1>2, <1>5 DEF n
<1>8. /\ p[n] = x
      /\ \A k \in 1 .. n : k # n => p[k] = q[k] /\ q[k] \in C
  BY <1>6, <1>7 DEF Lists
<1>9. p \in [1 .. n -> B]
  BY <1>8 DEF C
<1> HIDE DEF p
<1>10. ASSUME NEW j \in 1 .. n, NEW k \in 1 .. n, j < k
       PROVE  p[j] # p[k] /\ T!BitLess(p[j], p[k])
  <2>1. j # n /\ j \in 1 .. n - 1 /\ p[j] = q[j] /\ p[j] \in C
    BY <1>7, <1>8, <1>10
  <2>2. CASE k = n
    BY <1>4, <1>8, <2>1, <2>2 DEF C
  <2>3. CASE k # n
    <3>1. k \in 1 .. n - 1 /\ p[k] = q[k] /\ j # k
      BY <1>7, <1>8, <1>10, <2>3
    <3> QED BY <1>6, <1>10, <2>1, <3>1 DEF Lists
  <2> QED BY <2>2, <2>3
<1>11. \A j, k \in 1 .. n : j # k => p[j] # p[k]
  <2> TAKE j, k \in 1 .. n
  <2>1. j < k \/ k < j \/ j = k
    BY <1>7
  <2> QED BY <1>10, <2>1
<1>12. Lists(p, n, B)
  BY <1>9, <1>10, <1>11 DEF Lists
<1> QED BY <1>2, <1>12 DEF n

\* The atoms of a set are its elements, each once.
LEMMA AtomsOf ==
  ASSUME NEW A \in SUBSET (Nat \X Nat), IsFiniteSet(A)
  PROVE  LET q == T!SortedAtoms(A)
             n == Cardinality(A)
         IN  /\ n \in Nat
             /\ q \in [1 .. n -> A] /\ Len(q) = n
             /\ n # 0 => Distinct(q, n)
             /\ A = {q[k] : k \in 1 .. n}
<1> DEFINE q == T!SortedAtoms(A)
           n == Cardinality(A)
           Sorted(p) == \A j, k \in DOMAIN p : j < k => T!BitLess(p[j], p[k])
<1>1. n \in Nat
  BY FS_CardinalityType
<1>2. T!SetToSeqs(A) = {p \in [1 .. n -> A] : \A j, k \in 1 .. n : j # k => p[j] # p[k]}
  <2>1. T!Cardinality(A) = Cardinality(A)
    BY DEF T!Cardinality, Cardinality
  <2> HIDE DEF n
  <2> QED BY <2>1 DEF T!SetToSeqs, n
<1>3. \E p \in T!SetToSeqs(A) : Sorted(p)
  <2>1. PICK p : Lists(p, n, A)
    BY CanBeSorted
  <2> QED BY <1>2, <2>1 DEF Lists
<1>4. q \in T!SetToSeqs(A)
  BY <1>3 DEF T!SortedAtoms
<1> HIDE DEF q
<1>5. q \in [1 .. n -> A] /\ \A j, k \in 1 .. n : j # k => q[j] # q[k]
  BY <1>2, <1>4
<1>6. Len(q) = n
  <2> HIDE DEF n
  <2>1. q \in Seq(A)
    BY <1>1, <1>5
  <2> QED BY <1>1, <1>5, <2>1
<1>7. n # 0 => Distinct(q, n)
  BY <1>1, <1>5 DEF Distinct
<1>8. A = {q[k] : k \in 1 .. n}
  <2> DEFINE D == 1 .. n
             R == {q[k] : k \in D}
  <2>1. IsFiniteSet(D) /\ Cardinality(D) = n
    <3>1. IsFiniteSet(1 .. n) /\ Cardinality(1 .. n) = IF 1 > n THEN 0 ELSE n - 1 + 1
      BY <1>1, FS_Interval
    <3> QED BY <1>1, <3>1
  <2>2. q \in Bijection(D, R) /\ R \subseteq A
    BY <1>5 DEF Bijection, Injection, Surjection, IsInjective
  <2> HIDE DEF D, R, n
  <2>3. Cardinality(R) = n
    BY <2>1, <2>2, FS_Bijection DEF ExistsBijection
  <2>4. R = A
    BY <2>2, <2>3, FS_Subset DEF n
  <2> QED BY <2>4 DEF R, D
<1> QED BY <1>1, <1>5, <1>6, <1>7, <1>8 DEF q

\* Equal roots, equal sets.
LEMMA RootIsAddress ==
  ASSUME NEW A \in SUBSET (Nat \X Nat), IsFiniteSet(A),
         NEW B \in SUBSET (Nat \X Nat), IsFiniteSet(B),
         T!BuildTree(A).root = T!BuildTree(B).root
  PROVE  A = B
<1> DEFINE q == T!SortedAtoms(A)
           r == T!SortedAtoms(B)
           n == Cardinality(A)
           m == Cardinality(B)
<1>1. /\ n \in Nat /\ q \in [1 .. n -> A] /\ Len(q) = n /\ (n # 0 => Distinct(q, n))
      /\ A = {q[k] : k \in 1 .. n}
  BY AtomsOf
<1>2. /\ m \in Nat /\ r \in [1 .. m -> B] /\ Len(r) = m /\ (m # 0 => Distinct(r, m))
      /\ B = {r[k] : k \in 1 .. m}
  BY AtomsOf
<1>3. T!MerkleRoot(q) = T!MerkleRoot(r)
  BY DEF T!BuildTree
<1> HIDE DEF q, r, n, m
<1>4. ASSUME NEW p, NEW o \in Nat, Len(p) = o, o # 0, Distinct(p, o)
      PROVE  /\ T!MerkleRoot(p) = T!Levels(p)[o][1]
             /\ TreeOver(T!Levels(p), p)
             /\ T!MerkleRoot(p) # <<"empty">>
  <2>1. TreeOver(T!Levels(p), p)
    BY <1>4, LevelsAreTree
  <2>2. p # <<>>
    BY <1>4
  <2>3. T!MerkleRoot(p) = T!Levels(p)[o][1]
    BY <1>4, <2>2 DEF T!MerkleRoot
  <2>4. PICK e \in 0 .. o : Climbs(T!Levels(p), e) /\ T!Levels(p)[o] = T!Levels(p)[e]
    BY <1>4, <2>1, Height
  <2>5. \E x, y : T!MerkleRoot(p) = T!Node(x, y) \/ T!MerkleRoot(p) = T!Leaf(x)
    <3>1. CASE e = 0
      <4> DEFINE h == T!Levels(p)
      <4>0. 0 \in 0 .. Len(p)
        BY <1>4
      <4>1. h[0] = [k \in DOMAIN p |-> T!Leaf(p[k])]
        <5> HIDE DEF h
        <5>1. TreeOver(h, p)
          BY <2>1 DEF h
        <5> QED BY <4>0, <5>1 DEF TreeOver, LevelAt
      <4>2. 1 \in DOMAIN p
        BY <1>4, DistinctLen
      <4> QED BY <2>3, <2>4, <3>1, <4>1, <4>2
    <3>2. CASE e # 0
      <4>1. e \in 1 .. e /\ e - 1 \in 0 .. o
        BY <3>2
      <4>2. Len(T!Levels(p)[e - 1]) > 1 /\ T!Levels(p)[e] = T!LevelUp(T!Levels(p)[e - 1])
        BY <2>4, <4>1 DEF Climbs
      <4>3. Distinct(T!Levels(p)[e - 1], Len(T!Levels(p)[e - 1]))
        BY <1>4, <2>1, <4>1, LevelsDistinct
      <4> QED BY <2>3, <2>4, <4>2, <4>3, FirstIsNode
    <3> QED BY <3>1, <3>2
  <2>6. \A x, y : <<"empty">> # T!Node(x, y) /\ <<"empty">> # T!Leaf(x)
    BY DEF T!Node, T!Leaf
  <2> QED BY <2>1, <2>3, <2>5, <2>6
<1>5. ASSUME NEW S, NEW p \in [1 .. 0 -> S]
      PROVE  T!MerkleRoot(p) = <<"empty">>
  <2>1. p = <<>>
    OBVIOUS
  <2> QED BY <2>1 DEF T!MerkleRoot
<1>6. CASE n = 0 /\ m = 0
  BY <1>1, <1>2, <1>6
<1>7. CASE n = 0 /\ m # 0
  BY <1>1, <1>2, <1>3, <1>4, <1>5, <1>7
<1>8. CASE n # 0 /\ m = 0
  BY <1>1, <1>2, <1>3, <1>4, <1>5, <1>8
<1>9. CASE n # 0 /\ m # 0
  <2>1. T!Levels(q)[n][1] = T!Levels(r)[m][1]
    BY <1>1, <1>2, <1>3, <1>4, <1>9
  <2>2. TreeOver(T!Levels(q), q) /\ TreeOver(T!Levels(r), r)
    BY <1>1, <1>2, <1>4, <1>9
  <2> DEFINE h == T!Levels(q)
             g == T!Levels(r)
  <2>3. /\ Distinct(q, n) /\ TreeOver(h, q)
        /\ Distinct(r, m) /\ TreeOver(g, r)
        /\ h[n][1] = g[m][1]
    BY <1>1, <1>2, <1>9, <2>1, <2>2
  <2> HIDE DEF h, g
  <2>4. n = m
    BY <2>3, RootTells
  <2>5. \A k \in 1 .. n : q[k] = r[k]
    BY <2>3, RootTells
  <2>6. {q[k] : k \in 1 .. n} = {r[k] : k \in 1 .. n}
    BY <2>5
  <2> QED BY <1>1, <1>2, <2>4, <2>6
<1> QED BY <1>6, <1>7, <1>8, <1>9

\* Whatever was ingested, the index is the one built of the tokens, and the
\* root of the tree over it is the address of the set of its bits.
THEOREM LutHolds == ContextSpec => []LutIsBuilt
<1>1. ASSUME IngestInv PROVE TreeIsAddress
  <2>1. E!FromTokens(0, Observed) = hllsets[0]
    BY <1>1, ZeroIsSeed DEF IngestInv
  <2>2. TreeFromLut(Observed) = TreeFromHllset(hllsets[0])
    BY <2>1 DEF TreeFromLut, TreeFromHllset
  <2>3. hllsets[0] \in SUBSET (Nat \X Nat) /\ IsFiniteSet(hllsets[0])
    <3>1. /\ IsFiniteSet(Observed) /\ hllsets[0] \subseteq Bit
          /\ hllsets[0] = {position[0][u] : u \in Observed}
      BY <1>1, ZeroIsSeed, Fibers
    <3>2. hllsets[0] \subseteq Nat \X Nat
      BY <3>1, BitsAreNumbers DEF Bit
    <3> DEFINE p == position[0]
    <3> HIDE DEF p
    <3>3. IsFiniteSet({p[u] : u \in Observed})
      BY <3>1, FiniteImage
    <3> QED BY <3>1, <3>2, <3>3 DEF p
  <2>4. ASSUME NEW A \in SUBSET hllsets[0],
               TreeFromHllset(A).root = TreeFromHllset(hllsets[0]).root
        PROVE  A = hllsets[0]
    <3>1. A \in SUBSET (Nat \X Nat) /\ IsFiniteSet(A)
      BY <2>3, FS_Subset
    <3> QED BY <2>3, <2>4, <3>1, RootIsAddress DEF TreeFromHllset
  <2> QED BY <2>2, <2>4 DEF TreeIsAddress
<1>2. IngestInv => TreeIsAddress
  BY <1>1
<1> QED
  BY <1>2, ContextIngests, IndexHolds, PTL DEF LutIsBuilt

=============================================================================
