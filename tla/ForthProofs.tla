---------------------------- MODULE ForthProofs ----------------------------
(***************************************************************************)
(* The Forth front end, part one: what is printed is read back, for        *)
(* sources, programs and separators of any length.  Part two: the compiler *)
(* and the script it generates agree with the table of words, for programs *)
(* of any length, whatever the library calls do.                           *)
(***************************************************************************)
EXTENDS ForthLowering, ForthReader, FoldLemmas, SequenceTheorems

-----------------------------------------------------------------------------
(***************************************************************************)
(* Sequences.                                                              *)
(***************************************************************************)

\* Induction: a set of sequences that grows at the end is all of them.
LEMMA SeqByAppend ==
  ASSUME NEW S, NEW T \in SUBSET Seq(S), << >> \in T,
         \A s \in T, e \in S : Append(s, e) \in T
  PROVE  T = Seq(S)
<1> DEFINE Bad == Seq(S) \ T
           N == {Len(s) : s \in Bad}
<1> SUFFICES ASSUME Bad # {} PROVE FALSE
  OBVIOUS
<1>1. N \in SUBSET Nat /\ N # {}
  <2>1. \A s \in Bad : Len(s) \in Nat
    BY LenProperties
  <2> HIDE DEF Bad
  <2> QED BY <2>1
<1>2. PICK n \in N : \A m \in N : n <= m
  <2> HIDE DEF N
  <2> QED BY <1>1, LeastNat
<1>3. PICK s \in Bad : n = Len(s)
  OBVIOUS
<1>4. PICK q \in Seq(S), e \in S : s = Append(q, e)
  <2>1. s \in Seq(S) /\ s # << >>
    OBVIOUS
  <2> QED BY <2>1, SequenceEmptyOrAppend
<1>5. Len(s) = Len(q) + 1 /\ Len(q) \in Nat
  BY <1>4, LenProperties, AppendProperties
<1>6. q \notin Bad
  <2>1. q \in Bad => Len(q) \in N
    OBVIOUS
  <2> HIDE DEF Bad, N
  <2> QED BY <2>1, <1>2, <1>3, <1>5
<1>7. s \in T
  BY <1>4, <1>6
<1> QED BY <1>3, <1>7

\* One more element in the middle may be counted to either side.
LEMMA MoveOne ==
  ASSUME NEW S, NEW s \in Seq(S), NEW t \in Seq(S), NEW e \in S
  PROVE  /\ s \o Append(t, e) = Append(s \o t, e)
         /\ <<e>> \in Seq(S)
         /\ Append(s, e) = s \o <<e>>
<1>1. <<e>> \in Seq(S) /\ s \o t \in Seq(S)
  BY ConcatProperties
<1>2. Append(t, e) = t \o <<e>> /\ Append(s \o t, e) = (s \o t) \o <<e>> /\ Append(s, e) = s \o <<e>>
  BY <1>1, AppendIsConcat
<1>3. (s \o t) \o <<e>> = s \o (t \o <<e>>)
  BY <1>1, ConcatAssociative
<1> QED BY <1>1, <1>2, <1>3

-----------------------------------------------------------------------------
(***************************************************************************)
(* Reading a text is reading its characters in turn.                       *)
(***************************************************************************)

ReadStep(h, r, text, i) == IF i = 0 THEN r ELSE Read(h[i - 1], text[i])
IsReadTable(h, r, text) == h = [i \in 0 .. Len(text) |-> ReadStep(h, r, text, i)]

LEMMA ReadTableExists ==
  ASSUME NEW S, NEW text \in Seq(S), NEW r
  PROVE  \E h : IsReadTable(h, r, text)
<1> DEFINE n == Len(text)
           UpTo(h, m) == \A i \in 0 .. n : i <= m => h[i] = ReadStep(h, r, text, i)
           Bad == {m \in Nat : ~ \E h : UpTo(h, m)}
<1>0. n \in Nat
  BY LenProperties
<1> HIDE DEF n
<1>1. Bad = {}
  <2> SUFFICES ASSUME Bad # {} PROVE FALSE
    OBVIOUS
  <2>1. PICK m \in Bad : \A k \in Bad : m <= k
    <3> HIDE DEF UpTo
    <3> QED BY LeastNat
  <2>2. CASE m = 0
    <3> DEFINE h == [i \in 0 .. n |-> r]
    <3>1. UpTo(h, m)
      BY <2>2 DEF ReadStep
    <3> HIDE DEF UpTo, h
    <3> QED BY <3>1
  <2>3. CASE m # 0
    <3>1. m - 1 \in Nat /\ m - 1 \notin Bad
      <4> HIDE DEF UpTo
      <4>1. m \in Nat
        OBVIOUS
      <4>2. m - 1 \in Nat /\ ~(m <= m - 1)
        BY <2>3, <4>1
      <4> HIDE DEF Bad
      <4> QED BY <2>1, <4>2
    <3>2. PICK h : UpTo(h, m - 1)
      <4> HIDE DEF UpTo
      <4> QED BY <3>1
    <3> DEFINE g == [i \in 0 .. n |-> IF i <= m - 1 THEN h[i] ELSE ReadStep(h, r, text, i)]
    <3>3. ASSUME NEW i \in 0 .. n, i <= m
          PROVE  g[i] = ReadStep(g, r, text, i)
      <4>1. g[i] = ReadStep(h, r, text, i)
        BY <3>2
      <4>2. i # 0 => i - 1 \in 0 .. n /\ g[i - 1] = h[i - 1]
        BY <3>3, <1>0
      <4> QED BY <4>1, <4>2 DEF ReadStep
    <3>4. UpTo(g, m)
      BY <3>3
    <3> HIDE DEF UpTo, g
    <3> QED BY <3>4
  <2> QED BY <2>2, <2>3
<1>2. PICK h : UpTo(h, n)
  <2> HIDE DEF UpTo
  <2> QED BY <1>0, <1>1
<1> DEFINE g == [i \in 0 .. n |-> h[i]]
<1>3. ASSUME NEW i \in 0 .. n PROVE g[i] = ReadStep(g, r, text, i)
  <2>1. g[i] = ReadStep(h, r, text, i) /\ (i # 0 => g[i - 1] = h[i - 1])
    BY <1>0, <1>2
  <2> QED BY <2>1 DEF ReadStep
<1>4. IsReadTable(g, r, text)
  BY <1>3 DEF IsReadTable, n
<1> HIDE DEF g
<1> QED BY <1>4

LEMMA ReadLooksUp ==
  ASSUME NEW S, NEW text \in Seq(S), NEW r
  PROVE  \E h : IsReadTable(h, r, text) /\ ReadFrom(r, text) = h[Len(text)]
<1> DEFINE h == CHOOSE h : IsReadTable(h, r, text)
<1>1. ReadFrom(r, text) = h[Len(text)]
  BY DEF ReadFrom, IsReadTable, ReadStep
<1>2. IsReadTable(h, r, text)
  BY ReadTableExists
<1> HIDE DEF h
<1> QED BY <1>1, <1>2

\* No character, one more, one alone, and one text after another.
LEMMA ReadEmpty ==
  ASSUME NEW r
  PROVE  ReadFrom(r, << >>) = r
<1>1. << >> \in Seq({}) /\ Len(<< >>) = 0
  OBVIOUS
<1>2. PICK h : IsReadTable(h, r, << >>) /\ ReadFrom(r, << >>) = h[Len(<< >>)]
  BY <1>1, ReadLooksUp
<1>3. 0 \in 0 .. Len(<< >>)
  BY <1>1
<1>4. h[0] = ReadStep(h, r, << >>, 0)
  BY <1>2, <1>3 DEF IsReadTable
<1> QED BY <1>1, <1>2, <1>4 DEF ReadStep

LEMMA ReadAppend ==
  ASSUME NEW S, NEW text \in Seq(S), NEW ch \in S, NEW r
  PROVE  ReadFrom(r, Append(text, ch)) = Read(ReadFrom(r, text), ch)
<1> DEFINE n == Len(text)
           more == Append(text, ch)
<1>1. /\ n \in Nat /\ more \in Seq(S) /\ Len(more) = n + 1
      /\ \A i \in 1 .. n : more[i] = text[i]
      /\ more[n + 1] = ch
  BY LenProperties, AppendProperties
<1> HIDE DEF more
<1>2. PICK h : IsReadTable(h, r, text) /\ ReadFrom(r, text) = h[n]
  BY ReadLooksUp
<1>3. PICK g : IsReadTable(g, r, more) /\ ReadFrom(r, more) = g[n + 1]
  BY <1>1, ReadLooksUp
<1> HIDE DEF n
<1>4. \A i \in 0 .. n : h[i] = ReadStep(h, r, text, i)
  BY <1>2 DEF IsReadTable, n
<1>5. \A i \in 0 .. (n + 1) : g[i] = ReadStep(g, r, more, i)
  BY <1>1, <1>3 DEF IsReadTable
<1>6. \A i \in 0 .. n : g[i] = h[i]
  <2> DEFINE Bad == {i \in 0 .. n : g[i] # h[i]}
  <2> SUFFICES ASSUME Bad # {} PROVE FALSE
    OBVIOUS
  <2>1. Bad \in SUBSET Nat
    BY <1>1
  <2>2. PICK i \in Bad : \A k \in Bad : i <= k
    <3> HIDE DEF Bad
    <3> QED BY <2>1, LeastNat
  <2>3. i \in 0 .. n /\ i \in 0 .. (n + 1) /\ g[i] # h[i]
    BY <1>1
  <2>4. CASE i = 0
    BY <1>4, <1>5, <2>3, <2>4 DEF ReadStep
  <2>5. CASE i # 0
    <3>1. i - 1 \in 0 .. n /\ i \in 1 .. n
      BY <1>1, <2>3, <2>5
    <3>2. i - 1 \notin Bad
      BY <2>2, <2>3
    <3>3. g[i - 1] = h[i - 1] /\ more[i] = text[i]
      BY <1>1, <3>1, <3>2
    <3> HIDE DEF Bad
    <3> QED BY <1>4, <1>5, <2>3, <2>5, <3>3 DEF ReadStep
  <2> QED BY <2>4, <2>5
<1>7. n + 1 \in 0 .. (n + 1) /\ n \in 0 .. n /\ n + 1 # 0 /\ n + 1 - 1 = n
  BY <1>1
<1>8. g[n + 1] = Read(g[n], ch)
  BY <1>1, <1>5, <1>7 DEF ReadStep
<1> QED BY <1>2, <1>3, <1>6, <1>7, <1>8 DEF more

LEMMA ReadConcat ==
  ASSUME NEW S, NEW s \in Seq(S), NEW t \in Seq(S), NEW r
  PROVE  ReadFrom(r, s \o t) = ReadFrom(ReadFrom(r, s), t)
<1> DEFINE T == {u \in Seq(S) : ReadFrom(r, s \o u) = ReadFrom(ReadFrom(r, s), u)}
<1>1. << >> \in T
  BY ReadEmpty, ConcatEmptySeq, EmptySeq
<1>2. ASSUME NEW u \in T, NEW e \in S PROVE Append(u, e) \in T
  <2>1. u \in Seq(S) /\ Append(u, e) \in Seq(S) /\ s \o u \in Seq(S)
    BY AppendProperties, ConcatProperties
  <2>2. s \o Append(u, e) = Append(s \o u, e)
    BY <2>1, MoveOne
  <2>3. ReadFrom(r, Append(s \o u, e)) = Read(ReadFrom(r, s \o u), e)
    BY <2>1, ReadAppend
  <2>4. ReadFrom(ReadFrom(r, s), Append(u, e)) = Read(ReadFrom(ReadFrom(r, s), u), e)
    BY <2>1, ReadAppend
  <2> QED BY <2>1, <2>2, <2>3, <2>4
<1>3. T \in SUBSET Seq(S)
  OBVIOUS
<1> HIDE DEF T
<1>4. T = Seq(S)
  BY <1>1, <1>2, <1>3, SeqByAppend
<1> QED BY <1>4 DEF T

LEMMA ReadOne ==
  ASSUME NEW ch, NEW r
  PROVE  ReadFrom(r, <<ch>>) = Read(r, ch)
<1>1. << >> \in Seq({ch}) /\ <<ch>> = Append(<< >>, ch)
  OBVIOUS
<1>2. ReadFrom(r, Append(<< >>, ch)) = Read(ReadFrom(r, << >>), ch)
  BY <1>1, ReadAppend
<1> QED BY <1>1, <1>2, ReadEmpty

-----------------------------------------------------------------------------
(***************************************************************************)
(* Joining texts: FlattenSeq takes them in turn.                           *)
(***************************************************************************)

FlatStep(h, texts, i) == IF i = 1 THEN texts[i] ELSE h[i - 1] \o texts[i]
IsFlatTable(h, texts) == h = [i \in 1 .. Len(texts) |-> FlatStep(h, texts, i)]

LEMMA FlatTableExists ==
  ASSUME NEW S, NEW texts \in Seq(S)
  PROVE  \E h : IsFlatTable(h, texts)
<1> DEFINE n == Len(texts)
           UpTo(h, m) == \A i \in 1 .. n : i <= m => h[i] = FlatStep(h, texts, i)
           Bad == {m \in Nat : ~ \E h : UpTo(h, m)}
<1>0. n \in Nat
  BY LenProperties
<1> HIDE DEF n
<1>1. Bad = {}
  <2> SUFFICES ASSUME Bad # {} PROVE FALSE
    OBVIOUS
  <2>1. PICK m \in Bad : \A k \in Bad : m <= k
    <3> HIDE DEF UpTo
    <3> QED BY LeastNat
  <2>2. CASE m = 0
    <3> DEFINE h == [i \in 1 .. n |-> i]
    <3>1. UpTo(h, m)
      BY <2>2
    <3> HIDE DEF UpTo, h
    <3> QED BY <3>1
  <2>3. CASE m # 0
    <3>1. m - 1 \in Nat /\ m - 1 \notin Bad
      <4> HIDE DEF UpTo
      <4>1. m \in Nat
        OBVIOUS
      <4>2. m - 1 \in Nat /\ ~(m <= m - 1)
        BY <2>3, <4>1
      <4> HIDE DEF Bad
      <4> QED BY <2>1, <4>2
    <3>2. PICK h : UpTo(h, m - 1)
      <4> HIDE DEF UpTo
      <4> QED BY <3>1
    <3> DEFINE g == [i \in 1 .. n |-> IF i <= m - 1 THEN h[i] ELSE FlatStep(h, texts, i)]
    <3>3. ASSUME NEW i \in 1 .. n, i <= m
          PROVE  g[i] = FlatStep(g, texts, i)
      <4>1. g[i] = FlatStep(h, texts, i)
        BY <3>2
      <4>2. i # 1 => i - 1 \in 1 .. n /\ g[i - 1] = h[i - 1]
        BY <3>3, <1>0
      <4> QED BY <4>1, <4>2 DEF FlatStep
    <3>4. UpTo(g, m)
      BY <3>3
    <3> HIDE DEF UpTo, g
    <3> QED BY <3>4
  <2> QED BY <2>2, <2>3
<1>2. PICK h : UpTo(h, n)
  <2> HIDE DEF UpTo
  <2> QED BY <1>0, <1>1
<1> DEFINE g == [i \in 1 .. n |-> h[i]]
<1>3. ASSUME NEW i \in 1 .. n PROVE g[i] = FlatStep(g, texts, i)
  <2>1. g[i] = FlatStep(h, texts, i) /\ (i # 1 => g[i - 1] = h[i - 1])
    BY <1>0, <1>2
  <2> QED BY <2>1 DEF FlatStep
<1>4. IsFlatTable(g, texts)
  BY <1>3 DEF IsFlatTable, n
<1> HIDE DEF g
<1> QED BY <1>4

LEMMA FlatLooksUp ==
  ASSUME NEW S, NEW texts \in Seq(S), texts # << >>
  PROVE  \E h : IsFlatTable(h, texts) /\ FlattenSeq(texts) = h[Len(texts)]
<1> DEFINE h == CHOOSE h : IsFlatTable(h, texts)
<1>1. Len(texts) # 0
  BY EmptySeq
<1>2. FlattenSeq(texts) = h[Len(texts)]
  BY <1>1 DEF FlattenSeq, IsFlatTable, FlatStep
<1>3. IsFlatTable(h, texts)
  BY FlatTableExists
<1> HIDE DEF h
<1> QED BY <1>2, <1>3

LEMMA FlattenEmpty == FlattenSeq(<< >>) = << >>
BY DEF FlattenSeq

LEMMA FlattenOneMore ==
  ASSUME NEW S, NEW texts \in Seq(Seq(S)), NEW s \in Seq(S)
  PROVE  FlattenSeq(Append(texts, s)) = FlattenSeq(texts) \o s
<1> DEFINE n == Len(texts)
           more == Append(texts, s)
<1>1. /\ n \in Nat /\ more \in Seq(Seq(S)) /\ Len(more) = n + 1 /\ more # << >>
      /\ \A i \in 1 .. n : more[i] = texts[i]
      /\ more[n + 1] = s
  BY LenProperties, AppendProperties
<1> HIDE DEF more
<1>3. PICK g : IsFlatTable(g, more) /\ FlattenSeq(more) = g[n + 1]
  BY <1>1, FlatLooksUp
<1>5. \A i \in 1 .. (n + 1) : g[i] = FlatStep(g, more, i)
  BY <1>1, <1>3 DEF IsFlatTable
<1>7. n + 1 \in 1 .. (n + 1) /\ n + 1 - 1 = n
  BY <1>1
<1>8. CASE texts = << >>
  <2>1. n = 0 /\ FlattenSeq(texts) = << >> /\ << >> \o s = s
    BY <1>8, FlattenEmpty, ConcatEmptySeq, EmptySeq
  <2>2. g[n + 1] = s
    BY <1>1, <1>5, <1>7, <2>1 DEF FlatStep
  <2> QED BY <1>3, <2>1, <2>2 DEF more
<1>9. CASE texts # << >>
  <2>1. n # 0
    BY <1>9, EmptySeq
  <2>2. PICK h : IsFlatTable(h, texts) /\ FlattenSeq(texts) = h[n]
    BY <1>9, FlatLooksUp
  <2>3. \A i \in 1 .. n : h[i] = FlatStep(h, texts, i)
    BY <2>2 DEF IsFlatTable
  <2> HIDE DEF n
  <2>4. \A i \in 1 .. n : g[i] = h[i]
    <3> DEFINE Bad == {i \in 1 .. n : g[i] # h[i]}
    <3> SUFFICES ASSUME Bad # {} PROVE FALSE
      OBVIOUS
    <3>1. Bad \in SUBSET Nat
      BY <1>1
    <3>2. PICK i \in Bad : \A k \in Bad : i <= k
      <4> HIDE DEF Bad
      <4> QED BY <3>1, LeastNat
    <3>3. i \in 1 .. n /\ i \in 1 .. (n + 1) /\ g[i] # h[i]
      BY <1>1
    <3>4. CASE i = 1
      BY <1>1, <2>3, <1>5, <3>3, <3>4 DEF FlatStep
    <3>5. CASE i # 1
      <4>1. i - 1 \in 1 .. n /\ ~(i <= i - 1)
        BY <1>1, <3>3, <3>5
      <4>2. i - 1 \notin Bad
        <5> HIDE DEF Bad
        <5> QED BY <3>2, <4>1
      <4>3. g[i - 1] = h[i - 1] /\ more[i] = texts[i]
        BY <1>1, <3>3, <4>1, <4>2
      <4> HIDE DEF Bad
      <4> QED BY <2>3, <1>5, <3>3, <3>5, <4>3 DEF FlatStep
    <3> QED BY <3>4, <3>5
  <2>5. n \in 1 .. n /\ n + 1 # 1
    BY <1>1, <2>1
  <2>6. g[n + 1] = g[n] \o more[n + 1]
    <3> DEFINE k == n + 1
    <3>1. k # 1 /\ k - 1 = n /\ k \in 1 .. (n + 1)
      BY <1>7, <2>5
    <3> HIDE DEF k
    <3>2. g[k] = FlatStep(g, more, k)
      BY <1>5, <3>1
    <3>3. FlatStep(g, more, k) = g[k - 1] \o more[k]
      BY <3>1 DEF FlatStep
    <3>4. g[k] = g[n] \o more[k]
      BY <3>1, <3>2, <3>3
    <3> QED BY <3>4 DEF k
  <2>7. g[n + 1] = h[n] \o s
    <3>1. more[n + 1] = s
      BY <1>1 DEF n
    <3> QED BY <2>4, <2>5, <2>6, <3>1
  <2> QED BY <1>3, <2>2, <2>7 DEF more, n
<1> QED BY <1>8, <1>9

LEMMA FlattenIsSeq ==
  ASSUME NEW S, NEW texts \in Seq(Seq(S))
  PROVE  FlattenSeq(texts) \in Seq(S)
<1> DEFINE T == {ss \in Seq(Seq(S)) : FlattenSeq(ss) \in Seq(S)}
<1>1. << >> \in T
  BY FlattenEmpty, EmptySeq
<1>2. ASSUME NEW ss \in T, NEW s \in Seq(S) PROVE Append(ss, s) \in T
  <2>1. FlattenSeq(ss) \o s \in Seq(S)
    BY ConcatProperties
  <2>2. Append(ss, s) \in Seq(Seq(S))
    BY AppendProperties
  <2> QED BY <2>1, <2>2, FlattenOneMore
<1>3. T \in SUBSET Seq(Seq(S))
  OBVIOUS
<1> HIDE DEF T
<1>4. T = Seq(Seq(S))
  BY <1>1, <1>2, <1>3, SeqByAppend
<1> QED BY <1>4 DEF T

\* The texts F gives for the words of s, joined.
Spread(F, s) == FlattenSeq([i \in DOMAIN s |-> F[s[i]]])
Texts(F, W, S) == F \in [W -> Seq(S)]

LEMMA MappedIsSeq ==
  ASSUME NEW W, NEW T, NEW F \in [W -> T], NEW s \in Seq(W)
  PROVE  /\ [i \in DOMAIN s |-> F[s[i]]] \in Seq(T)
         /\ Len([i \in DOMAIN s |-> F[s[i]]]) = Len(s)
<1>1. Len(s) \in Nat /\ DOMAIN s = 1 .. Len(s) /\ \A i \in 1 .. Len(s) : s[i] \in W
  BY LenProperties, ElementOfSeq
<1>2. [i \in DOMAIN s |-> F[s[i]]] \in [1 .. Len(s) -> T]
  BY <1>1
<1> QED BY <1>1, <1>2

LEMMA SpreadEmpty ==
  ASSUME NEW F
  PROVE  Spread(F, << >>) = << >>
<1>1. [i \in DOMAIN << >> |-> F[<< >>[i]]] = << >>
  OBVIOUS
<1> QED BY <1>1, FlattenEmpty DEF Spread

LEMMA SpreadIsSeq ==
  ASSUME NEW S, NEW W, NEW F, Texts(F, W, S), NEW s \in Seq(W)
  PROVE  Spread(F, s) \in Seq(S)
<1>1. [i \in DOMAIN s |-> F[s[i]]] \in Seq(Seq(S))
  BY MappedIsSeq DEF Texts
<1> QED BY <1>1, FlattenIsSeq DEF Spread

LEMMA SpreadOneMore ==
  ASSUME NEW S, NEW W, NEW F, Texts(F, W, S), NEW s \in Seq(W), NEW w \in W
  PROVE  Spread(F, Append(s, w)) = Spread(F, s) \o F[w]
<1> DEFINE m == [i \in DOMAIN s |-> F[s[i]]]
           more == [i \in DOMAIN Append(s, w) |-> F[Append(s, w)[i]]]
<1>1. /\ Append(s, w) \in Seq(W) /\ Len(Append(s, w)) = Len(s) + 1 /\ Len(s) \in Nat
      /\ \A i \in 1 .. Len(s) : Append(s, w)[i] = s[i]
      /\ Append(s, w)[Len(s) + 1] = w
      /\ DOMAIN s = 1 .. Len(s)
  BY LenProperties, AppendProperties
<1>2. DOMAIN Append(s, w) = 1 .. Len(s) + 1
  BY <1>1, LenProperties
<1>3. m \in Seq(Seq(S)) /\ Len(m) = Len(s) /\ more \in Seq(Seq(S)) /\ Len(more) = Len(s) + 1
  BY <1>1, MappedIsSeq DEF Texts
<1>4. /\ \A i \in 1 .. Len(s) : m[i] = F[s[i]]
      /\ \A i \in 1 .. Len(s) : more[i] = F[s[i]]
      /\ more[Len(s) + 1] = F[w]
  BY <1>1, <1>2
<1> HIDE DEF m, more
<1>5. F[w] \in Seq(S)
  BY DEF Texts
<1>6. /\ Append(m, F[w]) \in Seq(Seq(S)) /\ Len(Append(m, F[w])) = Len(s) + 1
      /\ \A i \in 1 .. Len(s) : Append(m, F[w])[i] = F[s[i]]
      /\ Append(m, F[w])[Len(s) + 1] = F[w]
  BY <1>3, <1>4, <1>5, AppendProperties
<1>7. \A i \in 1 .. Len(more) : more[i] = Append(m, F[w])[i]
  BY <1>1, <1>3, <1>4, <1>6
<1>8. more = Append(m, F[w])
  BY <1>3, <1>6, <1>7, SeqEqual
<1>9. FlattenSeq(Append(m, F[w])) = FlattenSeq(m) \o F[w]
  BY <1>3, <1>5, FlattenOneMore
<1> QED BY <1>8, <1>9 DEF Spread, m, more

LEMMA SpreadConcat ==
  ASSUME NEW S, NEW W, NEW F, Texts(F, W, S), NEW s \in Seq(W), NEW t \in Seq(W)
  PROVE  Spread(F, s \o t) = Spread(F, s) \o Spread(F, t)
<1>a. \A u \in Seq(W), w \in W : Spread(F, Append(u, w)) = Spread(F, u) \o F[w]
  BY SpreadOneMore
<1>b. \A u \in Seq(W) : Spread(F, u) \in Seq(S)
  BY SpreadIsSeq
<1>c. \A p, q, u \in Seq(S) : (p \o q) \o u = p \o (q \o u)
  BY ConcatAssociative
<1> DEFINE T == {u \in Seq(W) : Spread(F, s \o u) = Spread(F, s) \o Spread(F, u)}
<1>0. Spread(F, s) \in Seq(S)
  BY <1>b
<1>1. << >> \in T
  BY <1>0, SpreadEmpty, ConcatEmptySeq, EmptySeq
<1>2. ASSUME NEW u \in T, NEW w \in W PROVE Append(u, w) \in T
  <2>1. u \in Seq(W) /\ Append(u, w) \in Seq(W) /\ s \o u \in Seq(W)
    BY AppendProperties, ConcatProperties
  <2>2. s \o Append(u, w) = Append(s \o u, w)
    BY <2>1, MoveOne
  <2>3. Spread(F, Append(s \o u, w)) = Spread(F, s \o u) \o F[w]
    BY <2>1, <1>a
  <2>4. Spread(F, Append(u, w)) = Spread(F, u) \o F[w]
    BY <2>1, <1>a
  <2>5. Spread(F, s \o u) = Spread(F, s) \o Spread(F, u)
    OBVIOUS
  <2>6. Spread(F, u) \in Seq(S) /\ F[w] \in Seq(S)
    BY <2>1, <1>b DEF Texts
  <2>7. (Spread(F, s) \o Spread(F, u)) \o F[w] = Spread(F, s) \o (Spread(F, u) \o F[w])
    BY <1>0, <2>6, <1>c
  <2> QED BY <2>1, <2>2, <2>3, <2>4, <2>5, <2>7
<1>3. T \in SUBSET Seq(W)
  OBVIOUS
<1> HIDE DEF T
<1>4. T = Seq(W)
  BY <1>1, <1>2, <1>3, SeqByAppend
<1> QED BY <1>4 DEF T

LEMMA SpreadOne ==
  ASSUME NEW S, NEW W, NEW F, Texts(F, W, S), NEW w \in W
  PROVE  Spread(F, <<w>>) = F[w]
<1>1. << >> \in Seq(W) /\ <<w>> = Append(<< >>, w) /\ F[w] \in Seq(S)
  BY DEF Texts
<1>2. \A s \in Seq(W) : Spread(F, Append(s, w)) = Spread(F, s) \o F[w]
  BY SpreadOneMore
<1> QED BY <1>1, <1>2, SpreadEmpty, ConcatEmptySeq

-----------------------------------------------------------------------------
(***************************************************************************)
(* What a reader of characters in S may hold, whatever it read.            *)
(***************************************************************************)

OrdinaryOf(S) == S \ (White \cup Delimiter)
Spelling(S) == {t \in Seq(OrdinaryOf(S)) : t # << >>}

Spelt(t) == IF Numeral(t) # NoNumeral THEN Number(Numeral(t)) ELSE Ident(t)
WordsOf(S) == {Spelt(t) : t \in Spelling(S)} \cup {String(t) : t \in Seq(S)}

Modes == {"words", "line", "block", "string", "escape"}
Readers(S) ==
  [mode : Modes, depth : Int, str : Seq(S), buf : Seq(OrdinaryOf(S)), words : Seq(WordsOf(S))]

\* A reader by its fields.
Reader(m, d, s, b, w) == [mode |-> m, depth |-> d, str |-> s, buf |-> b, words |-> w]

LEMMA ReaderFields ==
  ASSUME NEW S, NEW r \in Readers(S)
  PROVE  /\ r = Reader(r.mode, r.depth, r.str, r.buf, r.words)
         /\ r.mode \in Modes /\ r.depth \in Int /\ r.str \in Seq(S)
         /\ r.buf \in Seq(OrdinaryOf(S)) /\ r.words \in Seq(WordsOf(S))
BY DEF Readers, Reader

\* The words, with the one in the buffer.
Kept(b, w) == IF b = << >> THEN w ELSE Append(w, Spelt(b))

LEMMA FlushedFields ==
  ASSUME NEW m, NEW d, NEW s, NEW b, NEW w
  PROVE  Flushed(Reader(m, d, s, b, w)) = Reader(m, d, s, << >>, Kept(b, w))
BY DEF Flushed, Reader, Spelt, Kept

Quote == "\""
Backslash == "\\"

\* What each character does, by the mode it is read in.
LEMMA WhiteInWords ==
  ASSUME NEW d, NEW s, NEW b, NEW w, NEW ch \in White
  PROVE  Read(Reader("words", d, s, b, w), ch) = Reader("words", d, s, << >>, Kept(b, w))
<1>1. Read(Reader("words", d, s, b, w), ch) = InWords(Reader("words", d, s, b, w), ch)
  BY DEF Read, Reader
<1>2. InWords(Reader("words", d, s, b, w), ch) = Flushed(Reader("words", d, s, b, w))
  BY WhiteIsNoDelimiter DEF InWords, Delimiter
<1>3. Flushed(Reader("words", d, s, b, w)) = Reader("words", d, s, << >>, Kept(b, w))
  BY FlushedFields
<1> QED BY <1>1, <1>2, <1>3

LEMMA LineInWords ==
  ASSUME NEW d, NEW s, NEW b, NEW w
  PROVE  Read(Reader("words", d, s, b, w), Backslash) = Reader("line", d, s, << >>, Kept(b, w))
<1>1. Read(Reader("words", d, s, b, w), Backslash) = InWords(Reader("words", d, s, b, w), Backslash)
  BY DEF Read, Reader
<1>2. InWords(Reader("words", d, s, b, w), Backslash) =
        [Flushed(Reader("words", d, s, b, w)) EXCEPT !.mode = "line"]
  BY WhiteIsNoDelimiter DEF InWords, Delimiter, Backslash
<1>3. Flushed(Reader("words", d, s, b, w)) = Reader("words", d, s, << >>, Kept(b, w))
  BY FlushedFields
<1>4. [Reader("words", d, s, << >>, Kept(b, w)) EXCEPT !.mode = "line"] =
        Reader("line", d, s, << >>, Kept(b, w))
  BY DEF Reader
<1> QED BY <1>1, <1>2, <1>3, <1>4

LEMMA BlockInWords ==
  ASSUME NEW d, NEW s, NEW b, NEW w
  PROVE  Read(Reader("words", d, s, b, w), "(") = Reader("block", 1, s, << >>, Kept(b, w))
<1>1. Read(Reader("words", d, s, b, w), "(") = InWords(Reader("words", d, s, b, w), "(")
  BY DEF Read, Reader
<1>2. InWords(Reader("words", d, s, b, w), "(") =
        [Flushed(Reader("words", d, s, b, w)) EXCEPT !.mode = "block", !.depth = 1]
  BY WhiteIsNoDelimiter DEF InWords, Delimiter
<1>3. Flushed(Reader("words", d, s, b, w)) = Reader("words", d, s, << >>, Kept(b, w))
  BY FlushedFields
<1>4. [Reader("words", d, s, << >>, Kept(b, w)) EXCEPT !.mode = "block"] =
        Reader("block", d, s, << >>, Kept(b, w))
  BY DEF Reader
<1>5. [Reader("block", d, s, << >>, Kept(b, w)) EXCEPT !.depth = 1] =
        Reader("block", 1, s, << >>, Kept(b, w))
  BY DEF Reader
<1>6. [Reader("words", d, s, << >>, Kept(b, w)) EXCEPT !.mode = "block", !.depth = 1] =
        [[Reader("words", d, s, << >>, Kept(b, w)) EXCEPT !.mode = "block"] EXCEPT !.depth = 1]
  OBVIOUS
<1> QED BY <1>1, <1>2, <1>3, <1>4, <1>5, <1>6

LEMMA QuoteInWords ==
  ASSUME NEW d, NEW s, NEW b, NEW w
  PROVE  Read(Reader("words", d, s, b, w), Quote) = Reader("string", d, << >>, << >>, Kept(b, w))
<1>1. Read(Reader("words", d, s, b, w), Quote) = InWords(Reader("words", d, s, b, w), Quote)
  BY DEF Read, Reader
<1>2. InWords(Reader("words", d, s, b, w), Quote) =
        [Flushed(Reader("words", d, s, b, w)) EXCEPT !.mode = "string", !.str = << >>]
  BY WhiteIsNoDelimiter DEF InWords, Delimiter, Quote
<1>3. Flushed(Reader("words", d, s, b, w)) = Reader("words", d, s, << >>, Kept(b, w))
  BY FlushedFields
<1>4. [Reader("words", d, s, << >>, Kept(b, w)) EXCEPT !.mode = "string"] =
        Reader("string", d, s, << >>, Kept(b, w))
  BY DEF Reader
<1>5. [Reader("string", d, s, << >>, Kept(b, w)) EXCEPT !.str = << >>] =
        Reader("string", d, << >>, << >>, Kept(b, w))
  BY DEF Reader
<1>6. [Reader("words", d, s, << >>, Kept(b, w)) EXCEPT !.mode = "string", !.str = << >>] =
        [[Reader("words", d, s, << >>, Kept(b, w)) EXCEPT !.mode = "string"] EXCEPT !.str = << >>]
  OBVIOUS
<1> QED BY <1>1, <1>2, <1>3, <1>4, <1>5, <1>6

LEMMA OtherInWords ==
  ASSUME NEW d, NEW s, NEW b, NEW w, NEW ch, ch \notin White \cup Delimiter
  PROVE  Read(Reader("words", d, s, b, w), ch) = Reader("words", d, s, Append(b, ch), w)
<1>1. Read(Reader("words", d, s, b, w), ch) = InWords(Reader("words", d, s, b, w), ch)
  BY DEF Read, Reader
<1> QED BY <1>1 DEF InWords, Delimiter, Reader

AfterLine(ch) == IF ch = "\n" THEN "words" ELSE "line"

LEMMA AnyInLine ==
  ASSUME NEW d, NEW s, NEW b, NEW w, NEW ch
  PROVE  Read(Reader("line", d, s, b, w), ch) = Reader(AfterLine(ch), d, s, b, w)
BY DEF Read, Reader, AfterLine

Deeper(d, ch) == IF ch = "(" THEN d + 1 ELSE IF ch = ")" THEN d - 1 ELSE d
AfterBlock(d) == IF d = 0 THEN "words" ELSE "block"

LEMMA AnyInBlock ==
  ASSUME NEW d, NEW s, NEW b, NEW w, NEW ch
  PROVE  Read(Reader("block", d, s, b, w), ch) =
           Reader(AfterBlock(Deeper(d, ch)), Deeper(d, ch), s, b, w)
<1>1. Read(Reader("block", d, s, b, w), ch) = InBlock(Reader("block", d, s, b, w), ch)
  BY DEF Read, Reader
<1>2. Reader("block", d, s, b, w).depth = d
  BY DEF Reader
<1>3. InBlock(Reader("block", d, s, b, w), ch) =
        [Reader("block", d, s, b, w) EXCEPT !.depth = Deeper(d, ch), !.mode = AfterBlock(Deeper(d, ch))]
  BY <1>2 DEF InBlock, Deeper, AfterBlock
<1> QED BY <1>1, <1>3 DEF Reader

LEMMA QuoteInString ==
  ASSUME NEW d, NEW s, NEW b, NEW w
  PROVE  Read(Reader("string", d, s, b, w), Quote) = Reader("words", d, << >>, b, Append(w, String(s)))
<1>1. Read(Reader("string", d, s, b, w), Quote) = InString(Reader("string", d, s, b, w), Quote)
  BY DEF Read, Reader
<1> QED BY <1>1 DEF InString, Reader, Quote

LEMMA SlashInString ==
  ASSUME NEW d, NEW s, NEW b, NEW w
  PROVE  Read(Reader("string", d, s, b, w), Backslash) = Reader("escape", d, s, b, w)
<1>1. Read(Reader("string", d, s, b, w), Backslash) = InString(Reader("string", d, s, b, w), Backslash)
  BY DEF Read, Reader
<1> QED BY <1>1 DEF InString, Reader, Backslash

LEMMA OtherInString ==
  ASSUME NEW d, NEW s, NEW b, NEW w, NEW ch, ch # Quote, ch # Backslash
  PROVE  Read(Reader("string", d, s, b, w), ch) = Reader("string", d, Append(s, ch), b, w)
<1>1. Read(Reader("string", d, s, b, w), ch) = InString(Reader("string", d, s, b, w), ch)
  BY DEF Read, Reader
<1> QED BY <1>1 DEF InString, Reader, Quote, Backslash

LEMMA AnyInEscape ==
  ASSUME NEW d, NEW s, NEW b, NEW w, NEW ch
  PROVE  Read(Reader("escape", d, s, b, w), ch) = Reader("string", d, Append(s, ch), b, w)
BY DEF Read, Reader

LEMMA SpeltIsWord ==
  ASSUME NEW S, NEW b \in Seq(OrdinaryOf(S)), NEW w \in Seq(WordsOf(S))
  PROVE  Kept(b, w) \in Seq(WordsOf(S))
<1>1. b # << >> => Spelt(b) \in WordsOf(S)
  BY DEF WordsOf, Spelling
<1> HIDE DEF WordsOf
<1> QED BY <1>1, AppendProperties DEF Kept

LEMMA ReadersAre ==
  ASSUME NEW S, NEW m \in Modes, NEW d \in Int, NEW s \in Seq(S),
         NEW b \in Seq(OrdinaryOf(S)), NEW w \in Seq(WordsOf(S))
  PROVE  Reader(m, d, s, b, w) \in Readers(S)
BY DEF Reader, Readers

\* A reader stays one.
LEMMA ReadIsReader ==
  ASSUME NEW S, NEW r \in Readers(S), NEW ch \in S
  PROVE  Read(r, ch) \in Readers(S)
<1> DEFINE d == r.depth
           s == r.str
           b == r.buf
           w == r.words
           f == Kept(b, w)
<1>1. /\ r = Reader(r.mode, d, s, b, w)
      /\ r.mode \in Modes /\ d \in Int /\ s \in Seq(S)
      /\ b \in Seq(OrdinaryOf(S)) /\ w \in Seq(WordsOf(S))
  BY ReaderFields
<1>2. f \in Seq(WordsOf(S))
  BY <1>1, SpeltIsWord
<1>3. << >> \in Seq(S) /\ << >> \in Seq(OrdinaryOf(S)) /\ 1 \in Int
  OBVIOUS
<1>4. {"words", "line", "block", "string", "escape"} \subseteq Modes
  BY DEF Modes
<1>5. Append(s, ch) \in Seq(S)
  BY <1>1, AppendProperties
<1> HIDE DEF d, s, b, w, f
<1>6. CASE r.mode = "words"
  <2>1. r = Reader("words", d, s, b, w)
    BY <1>1, <1>6
  <2>2. CASE ch \in White
    <3>1. Read(r, ch) = Reader("words", d, s, << >>, f)
      BY <2>1, <2>2, WhiteInWords DEF f
    <3> QED BY <3>1, <1>1, <1>2, <1>3, <1>4, ReadersAre
  <2>3. CASE ch = Backslash
    <3>1. Read(r, ch) = Reader("line", d, s, << >>, f)
      BY <2>1, <2>3, LineInWords DEF f
    <3> QED BY <3>1, <1>1, <1>2, <1>3, <1>4, ReadersAre
  <2>4. CASE ch = "("
    <3>1. Read(r, ch) = Reader("block", 1, s, << >>, f)
      BY <2>1, <2>4, BlockInWords DEF f
    <3> QED BY <3>1, <1>1, <1>2, <1>3, <1>4, ReadersAre
  <2>5. CASE ch = Quote
    <3>1. Read(Reader("words", d, s, b, w), Quote) = Reader("string", d, << >>, << >>, f)
      BY QuoteInWords DEF f
    <3> QED BY <2>1, <2>5, <3>1, <1>1, <1>2, <1>3, <1>4, ReadersAre
  <2>6. CASE ch \notin White \cup Delimiter
    <3>1. Read(r, ch) = Reader("words", d, s, Append(b, ch), w)
      BY <2>1, <2>6, OtherInWords
    <3>2. ch \in OrdinaryOf(S)
      BY <2>6 DEF OrdinaryOf
    <3>3. Append(b, ch) \in Seq(OrdinaryOf(S))
      BY <1>1, <3>2, AppendProperties
    <3> QED BY <3>1, <3>3, <1>1, <1>4, ReadersAre
  <2> QED BY <2>2, <2>3, <2>4, <2>5, <2>6 DEF Delimiter, Quote, Backslash
<1>7. CASE r.mode = "line"
  <2>1. Read(r, ch) = Reader(AfterLine(ch), d, s, b, w)
    BY <1>1, <1>7, AnyInLine
  <2>2. AfterLine(ch) \in Modes
    BY DEF AfterLine, Modes
  <2> QED BY <2>1, <2>2, <1>1, ReadersAre
<1>8. CASE r.mode = "block"
  <2>1. Read(r, ch) = Reader(AfterBlock(Deeper(d, ch)), Deeper(d, ch), s, b, w)
    BY <1>1, <1>8, AnyInBlock
  <2>2. AfterBlock(Deeper(d, ch)) \in Modes /\ Deeper(d, ch) \in Int
    BY <1>1 DEF AfterBlock, Deeper, Modes
  <2> QED BY <2>1, <2>2, <1>1, ReadersAre
<1>9. CASE r.mode = "string"
  <2>1. r = Reader("string", d, s, b, w)
    BY <1>1, <1>9
  <2>2. CASE ch = Quote
    <3>1. Read(r, ch) = Reader("words", d, << >>, b, Append(w, String(s)))
      BY <2>1, <2>2, QuoteInString
    <3>2. String(s) \in WordsOf(S)
      BY <1>1 DEF WordsOf
    <3>3. Append(w, String(s)) \in Seq(WordsOf(S))
      BY <1>1, <3>2, AppendProperties
    <3> QED BY <3>1, <3>3, <1>1, <1>3, <1>4, ReadersAre
  <2>3. CASE ch = Backslash
    <3>1. Read(r, ch) = Reader("escape", d, s, b, w)
      BY <2>1, <2>3, SlashInString
    <3> QED BY <3>1, <1>1, <1>4, ReadersAre
  <2>4. CASE ch # Quote /\ ch # Backslash
    <3>1. Read(Reader("string", d, s, b, w), ch) = Reader("string", d, Append(s, ch), b, w)
      BY <2>4, OtherInString
    <3> QED BY <2>1, <3>1, <1>1, <1>4, <1>5, ReadersAre
  <2> QED BY <2>2, <2>3, <2>4
<1>10. CASE r.mode = "escape"
  <2>1. Read(r, ch) = Reader("string", d, Append(s, ch), b, w)
    BY <1>1, <1>10, AnyInEscape
  <2> QED BY <2>1, <1>1, <1>4, <1>5, ReadersAre
<1> QED BY <1>1, <1>6, <1>7, <1>8, <1>9, <1>10 DEF Modes

\* A reader that holds the words ws in front of its own reads on as it would
\* without them.
Onto(ws, r) == Reader(r.mode, r.depth, r.str, r.buf, ws \o r.words)

LEMMA OntoRead ==
  ASSUME NEW S, NEW r \in Readers(S), NEW ch \in S,
         NEW V, WordsOf(S) \subseteq V, NEW ws \in Seq(V)
  PROVE  Read(Onto(ws, r), ch) = Onto(ws, Read(r, ch))
<1> DEFINE d == r.depth
           s == r.str
           b == r.buf
           w == r.words
           f == Kept(b, w)
           g == Kept(b, ws \o w)
<1>1. /\ r = Reader(r.mode, d, s, b, w)
      /\ r.mode \in Modes /\ d \in Int /\ s \in Seq(S)
      /\ b \in Seq(OrdinaryOf(S)) /\ w \in Seq(WordsOf(S))
  BY ReaderFields
<1>2. w \in Seq(V)
  BY <1>1, SeqMonotonic
<1>3. g = ws \o f
  <2>1. CASE b = << >>
    BY <2>1 DEF Kept
  <2>2. CASE b # << >>
    <3>1. Spelt(b) \in V
      BY <1>1, <2>2 DEF WordsOf, Spelling
    <3>2. ws \o Append(w, Spelt(b)) = Append(ws \o w, Spelt(b))
      BY <1>2, <3>1, MoveOne
    <3> QED BY <2>2, <3>2 DEF Kept
  <2> QED BY <2>1, <2>2
<1>4. ws \o Append(w, String(s)) = Append(ws \o w, String(s))
  <2>1. String(s) \in V
    BY <1>1 DEF WordsOf
  <2> QED BY <1>2, <2>1, MoveOne
<1>5. Onto(ws, r) = Reader(r.mode, d, s, b, ws \o w)
  BY DEF Onto
<1>6. \A m1, d1, s1, b1, w1 :
        Onto(ws, Reader(m1, d1, s1, b1, w1)) = Reader(m1, d1, s1, b1, ws \o w1)
  BY DEF Onto, Reader
<1> HIDE DEF d, s, b, w, f, g
<1>7. CASE r.mode = "words"
  <2>1. r = Reader("words", d, s, b, w) /\ Onto(ws, r) = Reader("words", d, s, b, ws \o w)
    BY <1>1, <1>5, <1>7
  <2>2. CASE ch \in White
    <3>1. Read(r, ch) = Reader("words", d, s, << >>, f)
      BY <2>1, <2>2, WhiteInWords DEF f
    <3>2. Read(Onto(ws, r), ch) = Reader("words", d, s, << >>, g)
      BY <2>1, <2>2, WhiteInWords DEF g
    <3> QED BY <3>1, <3>2, <1>3, <1>6
  <2>3. CASE ch = Backslash
    <3>1. Read(r, ch) = Reader("line", d, s, << >>, f)
      BY <2>1, <2>3, LineInWords DEF f
    <3>2. Read(Onto(ws, r), ch) = Reader("line", d, s, << >>, g)
      BY <2>1, <2>3, LineInWords DEF g
    <3> QED BY <3>1, <3>2, <1>3, <1>6
  <2>4. CASE ch = "("
    <3>1. Read(r, ch) = Reader("block", 1, s, << >>, f)
      BY <2>1, <2>4, BlockInWords DEF f
    <3>2. Read(Onto(ws, r), ch) = Reader("block", 1, s, << >>, g)
      BY <2>1, <2>4, BlockInWords DEF g
    <3> QED BY <3>1, <3>2, <1>3, <1>6
  <2>5. CASE ch = Quote
    <3>1. Read(Reader("words", d, s, b, w), Quote) = Reader("string", d, << >>, << >>, f)
      BY QuoteInWords DEF f
    <3>2. Read(Reader("words", d, s, b, ws \o w), Quote) = Reader("string", d, << >>, << >>, g)
      BY QuoteInWords DEF g
    <3>3. Onto(ws, Reader("string", d, << >>, << >>, f)) = Reader("string", d, << >>, << >>, g)
      BY <1>3, <1>6
    <3> QED BY <2>1, <2>5, <3>1, <3>2, <3>3
  <2>6. CASE ch \notin White \cup Delimiter
    <3>1. Read(r, ch) = Reader("words", d, s, Append(b, ch), w)
      BY <2>1, <2>6, OtherInWords
    <3>2. Read(Onto(ws, r), ch) = Reader("words", d, s, Append(b, ch), ws \o w)
      BY <2>1, <2>6, OtherInWords
    <3> QED BY <3>1, <3>2, <1>6
  <2> QED BY <2>2, <2>3, <2>4, <2>5, <2>6 DEF Delimiter, Quote, Backslash
<1>8. CASE r.mode = "line"
  <2>1. Read(r, ch) = Reader(AfterLine(ch), d, s, b, w)
    BY <1>1, <1>8, AnyInLine
  <2>2. Read(Onto(ws, r), ch) = Reader(AfterLine(ch), d, s, b, ws \o w)
    BY <1>5, <1>8, AnyInLine
  <2> QED BY <2>1, <2>2, <1>6
<1>9. CASE r.mode = "block"
  <2>1. Read(r, ch) = Reader(AfterBlock(Deeper(d, ch)), Deeper(d, ch), s, b, w)
    BY <1>1, <1>9, AnyInBlock
  <2>2. Read(Onto(ws, r), ch) = Reader(AfterBlock(Deeper(d, ch)), Deeper(d, ch), s, b, ws \o w)
    BY <1>5, <1>9, AnyInBlock
  <2> QED BY <2>1, <2>2, <1>6
<1>10. CASE r.mode = "string"
  <2>1. r = Reader("string", d, s, b, w) /\ Onto(ws, r) = Reader("string", d, s, b, ws \o w)
    BY <1>1, <1>5, <1>10
  <2>2. CASE ch = Quote
    <3>1. Read(r, ch) = Reader("words", d, << >>, b, Append(w, String(s)))
      BY <2>1, <2>2, QuoteInString
    <3>2. Read(Onto(ws, r), ch) = Reader("words", d, << >>, b, Append(ws \o w, String(s)))
      BY <2>1, <2>2, QuoteInString
    <3>3. Onto(ws, Reader("words", d, << >>, b, Append(w, String(s)))) =
            Reader("words", d, << >>, b, ws \o Append(w, String(s)))
      BY <1>6
    <3> QED BY <3>1, <3>2, <3>3, <1>4
  <2>3. CASE ch = Backslash
    <3>1. Read(r, ch) = Reader("escape", d, s, b, w)
      BY <2>1, <2>3, SlashInString
    <3>2. Read(Onto(ws, r), ch) = Reader("escape", d, s, b, ws \o w)
      BY <2>1, <2>3, SlashInString
    <3> QED BY <3>1, <3>2, <1>6
  <2>4. CASE ch # Quote /\ ch # Backslash
    <3>1. Read(r, ch) = Reader("string", d, Append(s, ch), b, w)
      BY <2>1, <2>4, OtherInString
    <3>2. Read(Onto(ws, r), ch) = Reader("string", d, Append(s, ch), b, ws \o w)
      BY <2>1, <2>4, OtherInString
    <3> QED BY <3>1, <3>2, <1>6
  <2> QED BY <2>2, <2>3, <2>4
<1>11. CASE r.mode = "escape"
  <2>1. Read(r, ch) = Reader("string", d, Append(s, ch), b, w)
    BY <1>1, <1>11, AnyInEscape
  <2>2. Read(Onto(ws, r), ch) = Reader("string", d, Append(s, ch), b, ws \o w)
    BY <1>5, <1>11, AnyInEscape
  <2> QED BY <2>1, <2>2, <1>6
<1> QED BY <1>1, <1>7, <1>8, <1>9, <1>10, <1>11 DEF Modes

LEMMA OntoReadFrom ==
  ASSUME NEW S, NEW r \in Readers(S), NEW t \in Seq(S),
         NEW V, WordsOf(S) \subseteq V, NEW ws \in Seq(V)
  PROVE  /\ ReadFrom(r, t) \in Readers(S)
         /\ ReadFrom(Onto(ws, r), t) = Onto(ws, ReadFrom(r, t))
<1> DEFINE Good(u) == /\ ReadFrom(r, u) \in Readers(S)
                      /\ ReadFrom(Onto(ws, r), u) = Onto(ws, ReadFrom(r, u))
           T == {u \in Seq(S) : Good(u)}
<1>1. << >> \in T
  BY ReadEmpty, EmptySeq
<1>2. ASSUME NEW u \in T, NEW ch \in S PROVE Append(u, ch) \in T
  <2>1. u \in Seq(S) /\ Good(u)
    OBVIOUS
  <2>2. /\ ReadFrom(r, Append(u, ch)) = Read(ReadFrom(r, u), ch)
        /\ ReadFrom(Onto(ws, r), Append(u, ch)) = Read(ReadFrom(Onto(ws, r), u), ch)
    BY <2>1, ReadAppend
  <2>3. Read(ReadFrom(r, u), ch) \in Readers(S)
    BY <2>1, ReadIsReader
  <2>4. Read(Onto(ws, ReadFrom(r, u)), ch) = Onto(ws, Read(ReadFrom(r, u), ch))
    BY <2>1, OntoRead
  <2>5. Append(u, ch) \in Seq(S)
    BY <2>1, AppendProperties
  <2> QED BY <2>1, <2>2, <2>3, <2>4, <2>5
<1>3. T \in SUBSET Seq(S)
  OBVIOUS
<1> HIDE DEF T
<1>4. T = Seq(S)
  BY <1>1, <1>2, <1>3, SeqByAppend
<1> QED BY <1>4 DEF T

-----------------------------------------------------------------------------
(***************************************************************************)
(* Reading what a word is printed as.                                      *)
(***************************************************************************)

\* Between two words.
At(ws) == Reader("words", 0, << >>, << >>, ws)

LEMMA StartIsAt == Start = At(<< >>)
BY DEF Start, At, Reader

\* A separator keeps the word in the buffer.
LEMMA ReadSeparator ==
  ASSUME NEW sep \in Separator, NEW V, NEW b, NEW ws, Kept(b, ws) \in Seq(V)
  PROVE  ReadFrom(Reader("words", 0, << >>, b, ws), sep) = At(Kept(b, ws))
<1> DEFINE S == ToSet(sep)
           X == WordsOf(S) \cup V
           k == Kept(b, ws)
           front == sep[1]
           rest == SubSeq(sep, 2, Len(sep))
<1>1. sep \in Seq(S) /\ sep # << >> /\ front \in White \cup {"\\", "("} /\ ReadFrom(Start, sep) = Start
  BY SeparatorsSeparate DEF Separates
<1>2. Start \in Readers(S)
  BY DEF Start, Readers, Modes
<1>3. k \in Seq(X) /\ WordsOf(S) \subseteq X
  BY SeqMonotonic
<1> HIDE DEF S, X, k, front, rest
<1>4. ReadFrom(Onto(k, Start), sep) = Onto(k, Start)
  BY <1>1, <1>2, <1>3, OntoReadFrom
<1>5. Onto(k, Start) = At(k)
  <2>1. k \o << >> = k
    BY <1>3, ConcatEmptySeq
  <2> QED BY <2>1 DEF Onto, Start, At
<1>6. Kept(<< >>, k) = k
  BY DEF Kept
<1>7. Read(Reader("words", 0, << >>, b, ws), front) = Read(Reader("words", 0, << >>, << >>, k), front)
  <2>1. CASE front \in White
    BY <2>1, <1>6, WhiteInWords DEF k
  <2>2. CASE front = "\\"
    BY <2>2, <1>6, LineInWords DEF k, Backslash
  <2>3. CASE front = "("
    BY <2>3, <1>6, BlockInWords DEF k
  <2> QED BY <1>1, <2>1, <2>2, <2>3
<1>8. front \in S /\ rest \in Seq(S) /\ sep = <<front>> \o rest
  <2>1. Len(sep) \in Nat \ {0}
    BY <1>1, EmptySeq
  <2>2. SubSeq(sep, 1, Len(sep)) = sep
    BY <1>1, SubSeqFull
  <2>3. 1 \in 1 .. Len(sep) /\ Len(sep) \in 1 .. Len(sep)
    BY <2>1
  <2>4. SubSeq(sep, 1, Len(sep)) = <<sep[1]>> \o SubSeq(sep, 1 + 1, Len(sep))
    BY <1>1, <2>3, SubSeqRecursiveFirst
  <2>5. front \in S
    BY <1>1, <2>3, ElementOfSeq DEF front
  <2>6. rest \in Seq(S)
    <3>1. \A i \in 2 .. Len(sep) : sep[i] \in S
      BY <1>1, <2>1, ElementOfSeq
    <3> QED BY <2>1, <3>1, SubSeqProperties DEF rest
  <2> QED BY <2>2, <2>4, <2>5, <2>6 DEF front, rest
<1>9. <<front>> \in Seq(S)
  BY <1>8
<1>10. \A r : ReadFrom(r, sep) = ReadFrom(Read(r, front), rest)
  <2>1. ASSUME NEW r PROVE ReadFrom(r, <<front>> \o rest) = ReadFrom(ReadFrom(r, <<front>>), rest)
    BY <1>8, <1>9, ReadConcat
  <2>2. \A r : ReadFrom(r, <<front>>) = Read(r, front)
    BY ReadOne
  <2> QED BY <1>8, <2>1, <2>2
<1>11. ReadFrom(Reader("words", 0, << >>, b, ws), sep) = ReadFrom(At(k), sep)
  BY <1>7, <1>10 DEF At
<1> QED BY <1>4, <1>5, <1>11 DEF k

\* A word read on from where nothing is in the buffer.
LEMMA ReadOrdinary ==
  ASSUME NEW S, NEW t \in Seq(OrdinaryOf(S)), NEW ws
  PROVE  ReadFrom(At(ws), t) = Reader("words", 0, << >>, t, ws)
<1> DEFINE O == OrdinaryOf(S)
           T == {u \in Seq(O) : ReadFrom(At(ws), u) = Reader("words", 0, << >>, u, ws)}
<1>1. << >> \in T
  BY ReadEmpty, EmptySeq DEF At
<1>2. ASSUME NEW u \in T, NEW ch \in O PROVE Append(u, ch) \in T
  <2>1. u \in Seq(O) /\ ReadFrom(At(ws), u) = Reader("words", 0, << >>, u, ws)
    OBVIOUS
  <2>2. ReadFrom(At(ws), Append(u, ch)) = Read(ReadFrom(At(ws), u), ch)
    BY <2>1, ReadAppend
  <2>3. ch \notin White \cup Delimiter
    BY DEF OrdinaryOf
  <2>4. Read(Reader("words", 0, << >>, u, ws), ch) = Reader("words", 0, << >>, Append(u, ch), ws)
    BY <2>3, OtherInWords
  <2>5. Append(u, ch) \in Seq(O)
    BY <2>1, AppendProperties
  <2> QED BY <2>1, <2>2, <2>4, <2>5
<1>3. T \in SUBSET Seq(O)
  OBVIOUS
<1> HIDE DEF T
<1>4. T = Seq(O)
  BY <1>1, <1>2, <1>3, SeqByAppend
<1> QED BY <1>4 DEF T

\* A quoted text that needs no escape.
LEMMA ReadQuoted ==
  ASSUME NEW S, NEW t \in Seq(S), Quote \notin S, Backslash \notin S, NEW ws
  PROVE  ReadFrom(At(ws), Quoted(t)) = At(Append(ws, String(t)))
<1> DEFINE In(u) == Reader("string", 0, u, << >>, ws)
           T == {u \in Seq(S) : ReadFrom(In(<< >>), u) = In(u)}
<1>1. << >> \in T
  BY ReadEmpty, EmptySeq
<1>2. ASSUME NEW u \in T, NEW ch \in S PROVE Append(u, ch) \in T
  <2>1. u \in Seq(S) /\ ReadFrom(In(<< >>), u) = In(u)
    OBVIOUS
  <2>2. ReadFrom(In(<< >>), Append(u, ch)) = Read(ReadFrom(In(<< >>), u), ch)
    BY <2>1, ReadAppend
  <2>3. Read(In(u), ch) = In(Append(u, ch))
    BY OtherInString
  <2>4. Append(u, ch) \in Seq(S)
    BY <2>1, AppendProperties
  <2> QED BY <2>1, <2>2, <2>3, <2>4
<1>3. T \in SUBSET Seq(S)
  OBVIOUS
<1> HIDE DEF T
<1>4. T = Seq(S)
  BY <1>1, <1>2, <1>3, SeqByAppend
<1>5. ReadFrom(In(<< >>), t) = In(t)
  BY <1>4 DEF T
<1>6. ReadFrom(At(ws), <<Quote>>) = In(<< >>)
  <2>1. Read(At(ws), Quote) = Reader("string", 0, << >>, << >>, Kept(<< >>, ws))
    BY QuoteInWords DEF At
  <2>2. Kept(<< >>, ws) = ws
    BY DEF Kept
  <2> QED BY <2>1, <2>2, ReadOne
<1>7. ReadFrom(In(t), <<Quote>>) = At(Append(ws, String(t)))
  <2>1. Read(In(t), Quote) = Reader("words", 0, << >>, << >>, Append(ws, String(t)))
    BY QuoteInString
  <2> QED BY <2>1, ReadOne DEF At
<1> DEFINE X == S \cup {Quote}
<1>8. /\ <<Quote>> \in Seq(X) /\ t \in Seq(X)
      /\ <<Quote>> \o t \in Seq(X)
  <2>1. <<Quote>> \in Seq(X)
    OBVIOUS
  <2>2. t \in Seq(X)
    BY SeqMonotonic
  <2> QED BY <2>1, <2>2, ConcatProperties
<1> HIDE DEF X, In
<1>9. ReadFrom(At(ws), <<Quote>> \o t) = In(t)
  <2>1. ReadFrom(At(ws), <<Quote>> \o t) = ReadFrom(ReadFrom(At(ws), <<Quote>>), t)
    BY <1>8, ReadConcat
  <2> QED BY <2>1, <1>5, <1>6
<1>10. ReadFrom(At(ws), (<<Quote>> \o t) \o <<Quote>>) = At(Append(ws, String(t)))
  <2>1. ReadFrom(At(ws), (<<Quote>> \o t) \o <<Quote>>) =
          ReadFrom(ReadFrom(At(ws), <<Quote>> \o t), <<Quote>>)
    BY <1>8, ReadConcat
  <2> QED BY <2>1, <1>7, <1>9
<1> QED BY <1>10 DEF Quoted, Quote

-----------------------------------------------------------------------------
(***************************************************************************)
(* Reading what a list of words is printed as.                             *)
(***************************************************************************)

Words == WordsOf(Char)

\* The words Display prints as it should.
Printable == {w \in Words : w.word = "str" => ToSet(w.text) \cap {Quote, Backslash} = {}}

Letters(sep) == Char \cup {Quote, ":", ";"} \cup ToSet(sep)

LEMMA WordCases ==
  ASSUME NEW w \in Words
  PROVE  \/ \E t \in Spelling(Char) : w = Ident(t) /\ Numeral(t) = NoNumeral
         \/ \E t \in Spelling(Char) : w = Number(Numeral(t)) /\ Numeral(t) # NoNumeral
         \/ \E t \in Seq(Char) : w = String(t)
<1>1. CASE \E t \in Spelling(Char) : w = Spelt(t)
  <2>1. PICK t \in Spelling(Char) : w = Spelt(t)
    BY <1>1
  <2>2. CASE Numeral(t) = NoNumeral
    BY <2>1, <2>2 DEF Spelt
  <2>3. CASE Numeral(t) # NoNumeral
    BY <2>1, <2>3 DEF Spelt
  <2> QED BY <2>2, <2>3
<1>2. CASE \E t \in Seq(Char) : w = String(t)
  BY <1>2
<1> QED BY <1>1, <1>2 DEF Words, WordsOf

LEMMA SpeltInBuffer ==
  ASSUME NEW sep \in Separator, NEW ws \in Seq(Words),
         NEW t \in Spelling(Char), Spelt(t) \in Words
  PROVE  /\ t \o sep \in Seq(Letters(sep))
         /\ ReadFrom(At(ws), t \o sep) = At(Append(ws, Spelt(t)))
<1> DEFINE L == Letters(sep)
<1>1. t \in Seq(OrdinaryOf(Char)) /\ t # << >>
  BY DEF Spelling
<1>2. t \in Seq(L) /\ sep \in Seq(L)
  <2>1. OrdinaryOf(Char) \subseteq L /\ ToSet(sep) \subseteq L
    BY DEF Letters, OrdinaryOf
  <2>2. sep \in Seq(ToSet(sep))
    BY SeparatorsSeparate DEF Separates
  <2> HIDE DEF L
  <2> QED BY <1>1, <2>1, <2>2, SeqMonotonic
<1> HIDE DEF L
<1>3. ReadFrom(At(ws), t \o sep) = ReadFrom(ReadFrom(At(ws), t), sep)
  BY <1>2, ReadConcat
<1>4. ReadFrom(At(ws), t) = Reader("words", 0, << >>, t, ws)
  BY <1>1, ReadOrdinary
<1>5. Kept(t, ws) = Append(ws, Spelt(t)) /\ Kept(t, ws) \in Seq(Words)
  BY <1>1, AppendProperties DEF Kept
<1>6. ReadFrom(Reader("words", 0, << >>, t, ws), sep) = At(Kept(t, ws))
  BY <1>5, ReadSeparator
<1>7. t \o sep \in Seq(L)
  BY <1>2, ConcatProperties
<1> QED BY <1>3, <1>4, <1>5, <1>6, <1>7 DEF L

LEMMA ReadShown ==
  ASSUME NumbersSpellBack, NEW sep \in Separator, NEW ws \in Seq(Words), NEW w \in Printable
  PROVE  /\ Shown(w) \o sep \in Seq(Letters(sep))
         /\ ReadFrom(At(ws), Shown(w) \o sep) = At(Append(ws, w))
<1>1. w \in Words
  BY DEF Printable
<1>2. CASE \E t \in Spelling(Char) : w = Ident(t) /\ Numeral(t) = NoNumeral
  <2>1. PICK t \in Spelling(Char) : w = Ident(t) /\ Numeral(t) = NoNumeral
    BY <1>2
  <2>2. w = Spelt(t)
    BY <2>1 DEF Spelt
  <2>3. Shown(w) = t
    BY <2>1 DEF Shown, Ident
  <2> QED BY <1>1, <2>2, <2>3, SpeltInBuffer
<1>3. CASE \E t \in Spelling(Char) : w = Number(Numeral(t)) /\ Numeral(t) # NoNumeral
  <2>1. PICK t \in Spelling(Char) : w = Number(Numeral(t)) /\ Numeral(t) # NoNumeral
    BY <1>3
  <2> DEFINE u == Spelled(Numeral(t))
  <2>2. OrdinaryOf(Char) = Ordinary
    BY DEF OrdinaryOf, Ordinary
  <2>3. u \in Seq(Ordinary) /\ u # << >> /\ Numeral(u) = Numeral(t)
    <3>1. t \in Seq(Ordinary) /\ t # << >>
      BY <2>2 DEF Spelling
    <3>2. SpellsBack(t)
      BY <3>1 DEF NumbersSpellBack
    <3> QED BY <2>1, <3>1, <3>2 DEF SpellsBack
  <2>4. Shown(w) = u
    BY <2>1 DEF Shown, Number
  <2> HIDE DEF u
  <2>5. w = Spelt(u)
    BY <2>1, <2>3 DEF Spelt
  <2>6. u \in Spelling(Char)
    BY <2>2, <2>3 DEF Spelling
  <2> QED BY <1>1, <2>4, <2>5, <2>6, SpeltInBuffer
<1>4. CASE \E t \in Seq(Char) : w = String(t)
  <2>1. PICK t \in Seq(Char) : w = String(t)
    BY <1>4
  <2> DEFINE S == ToSet(t)
             L == Letters(sep)
  <2>2. t \in Seq(S) /\ Quote \notin S /\ Backslash \notin S
    <3>1. t \in Seq(S)
      <4>1. Len(t) \in Nat /\ t \in [1 .. Len(t) -> Char]
        BY LenProperties
      <4>2. t \in [1 .. Len(t) -> S]
        BY <4>1 DEF ToSet
      <4> QED BY <4>1, <4>2
    <3>2. w.word = "str" /\ w.text = t
      BY <2>1 DEF String
    <3>3. ToSet(w.text) \cap {Quote, Backslash} = {}
      BY <3>2 DEF Printable
    <3> QED BY <3>1, <3>2, <3>3
  <2>3. Shown(w) = Quoted(t)
    BY <2>1 DEF Shown, String
  <2> HIDE DEF S
  <2>4. ReadFrom(At(ws), Quoted(t)) = At(Append(ws, w))
    BY <2>1, <2>2, ReadQuoted
  <2>5. Quoted(t) \in Seq(L) /\ sep \in Seq(L)
    <3>1. Char \subseteq L /\ ToSet(sep) \subseteq L /\ Quote \in L
      BY DEF Letters
    <3>2. sep \in Seq(ToSet(sep))
      BY SeparatorsSeparate DEF Separates
    <3> HIDE DEF L
    <3>3. sep \in Seq(L) /\ t \in Seq(L)
      BY <3>1, <3>2, SeqMonotonic
    <3>4. <<Quote>> \in Seq(L)
      BY <3>1
    <3>5. <<Quote>> \o t \in Seq(L)
      BY <3>3, <3>4, ConcatProperties
    <3>6. (<<Quote>> \o t) \o <<Quote>> \in Seq(L)
      BY <3>4, <3>5, ConcatProperties
    <3>7. Quoted(t) = (<<Quote>> \o t) \o <<Quote>>
      BY DEF Quoted, Quote
    <3> QED BY <3>3, <3>6, <3>7
  <2> HIDE DEF L
  <2>6. ReadFrom(At(ws), Quoted(t) \o sep) = ReadFrom(ReadFrom(At(ws), Quoted(t)), sep)
    BY <2>5, ReadConcat
  <2>7. /\ Kept(<< >>, Append(ws, w)) = Append(ws, w)
        /\ Kept(<< >>, Append(ws, w)) \in Seq(Words)
    BY <1>1, AppendProperties DEF Kept
  <2>8. ReadFrom(Reader("words", 0, << >>, << >>, Append(ws, w)), sep) =
          At(Kept(<< >>, Append(ws, w)))
    BY <2>7, ReadSeparator
  <2>9. Quoted(t) \o sep \in Seq(L)
    BY <2>5, ConcatProperties
  <2> QED BY <2>3, <2>4, <2>6, <2>7, <2>8, <2>9 DEF At, L
<1> QED BY <1>1, <1>2, <1>3, <1>4, WordCases

\* How each word is printed, with the separator after it.
Table(sep) == [w \in Printable |-> Shown(w) \o sep]

LEMMA PlainIsSpread ==
  ASSUME NEW sep, NEW ws \in Seq(Printable)
  PROVE  Plain(ws, sep) = Spread(Table(sep), ws)
<1>1. DOMAIN ws = 1 .. Len(ws) /\ \A i \in 1 .. Len(ws) : ws[i] \in Printable
  BY LenProperties, ElementOfSeq
<1>2. \A i \in DOMAIN ws : Shown(ws[i]) \o sep = Table(sep)[ws[i]]
  BY <1>1 DEF Table
<1>3. [i \in DOMAIN ws |-> Shown(ws[i]) \o sep] = [i \in DOMAIN ws |-> Table(sep)[ws[i]]]
  BY <1>2
<1> QED BY <1>3 DEF Plain, Spread

LEMMA TableGivesTexts ==
  ASSUME NumbersSpellBack, NEW sep \in Separator
  PROVE  Texts(Table(sep), Printable, Letters(sep))
<1>1. << >> \in Seq(Words)
  OBVIOUS
<1>2. \A w \in Printable : Shown(w) \o sep \in Seq(Letters(sep))
  BY <1>1, ReadShown
<1> QED BY <1>2 DEF Texts, Table

LEMMA ReadPlain ==
  ASSUME NumbersSpellBack, NEW sep \in Separator, NEW ws \in Seq(Printable)
  PROVE  ReadFrom(Start, Plain(ws, sep)) = At(ws)
<1> DEFINE F == Table(sep)
           L == Letters(sep)
           T == {u \in Seq(Printable) : ReadFrom(Start, Spread(F, u)) = At(u)}
<1>1. Texts(F, Printable, L)
  BY TableGivesTexts
<1>2. \A w \in Printable : F[w] = Shown(w) \o sep
  BY DEF Table
<1> HIDE DEF F, L
<1>3. << >> \in T
  BY SpreadEmpty, ReadEmpty, StartIsAt, EmptySeq
<1>4. ASSUME NEW u \in T, NEW w \in Printable PROVE Append(u, w) \in T
  <2>1. u \in Seq(Printable) /\ ReadFrom(Start, Spread(F, u)) = At(u)
    OBVIOUS
  <2>2. Append(u, w) \in Seq(Printable)
    BY <2>1, AppendProperties
  <2>3. Spread(F, Append(u, w)) = Spread(F, u) \o F[w]
    BY <1>1, <2>1, SpreadOneMore
  <2>4. Spread(F, u) \in Seq(L)
    BY <1>1, <2>1, SpreadIsSeq
  <2>5. Printable \subseteq Words
    BY DEF Printable
  <2>6. u \in Seq(Words)
    BY <2>1, <2>5, SeqMonotonic
  <2>7. F[w] \in Seq(L) /\ ReadFrom(At(u), F[w]) = At(Append(u, w))
    BY <1>2, <2>6, ReadShown DEF L
  <2>8. ReadFrom(Start, Spread(F, u) \o F[w]) = ReadFrom(ReadFrom(Start, Spread(F, u)), F[w])
    BY <2>4, <2>7, ReadConcat
  <2> QED BY <2>1, <2>2, <2>3, <2>7, <2>8
<1>5. T \in SUBSET Seq(Printable)
  OBVIOUS
<1> HIDE DEF T
<1>6. T = Seq(Printable)
  BY <1>3, <1>4, <1>5, SeqByAppend
<1>7. ReadFrom(Start, Spread(F, ws)) = At(ws)
  BY <1>6 DEF T
<1> QED BY <1>7, PlainIsSpread DEF F

-----------------------------------------------------------------------------
(***************************************************************************)
(* A grouped program is printed as its words are.                          *)
(***************************************************************************)

\* The word or definition that starts at i, and where the next one does.
ItemAt(ws, i) == IF Defines(ws, i) THEN Definition(ws, i) ELSE ws[i]
NextAfter(ws, i) == IF Defines(ws, i) THEN Min(Closings(ws, i)) + 1 ELSE i + 1

LEMMA FirstClosing ==
  ASSUME NEW S, NEW ws \in Seq(S), NEW i \in 1 .. Len(ws), Defines(ws, i)
  PROVE  /\ Min(Closings(ws, i)) \in (i + 2) .. Len(ws)
         /\ ws[Min(Closings(ws, i))] = Ident(<<";">>)
<1> DEFINE C == Closings(ws, i)
<1>1. Len(ws) \in Nat
  BY LenProperties
<1>2. C \in SUBSET Nat /\ C # {}
  <2>1. C # {}
    BY DEF Defines
  <2>2. \A j \in C : j \in (i + 2) .. Len(ws)
    BY DEF Closings
  <2> HIDE DEF C
  <2>3. \A j \in C : j \in Nat
    BY <1>1, <2>2
  <2> QED BY <2>1, <2>3
<1>3. Min(C) \in C
  <2> HIDE DEF C
  <2>1. \E n \in C : \A m \in C : n <= m
    BY <1>2, LeastNat
  <2> QED BY <2>1 DEF Min
<1> QED BY <1>3 DEF Closings

LEMMA AfterIsLater ==
  ASSUME NEW S, NEW ws \in Seq(S), NEW i \in 1 .. Len(ws)
  PROVE  /\ NextAfter(ws, i) \in 2 .. Len(ws) + 1
         /\ i < NextAfter(ws, i)
<1>1. Len(ws) \in Nat
  BY LenProperties
<1>2. CASE Defines(ws, i)
  <2> DEFINE j == Min(Closings(ws, i))
  <2>1. j \in (i + 2) .. Len(ws)
    BY <1>2, FirstClosing
  <2>2. NextAfter(ws, i) = j + 1
    BY <1>2 DEF NextAfter
  <2> HIDE DEF j
  <2> QED BY <1>1, <2>1, <2>2
<1>3. CASE ~ Defines(ws, i)
  BY <1>1, <1>3 DEF NextAfter
<1> QED BY <1>2, <1>3

GroupStep(h, ws, i) ==
  IF i > Len(ws) THEN << >>
  ELSE IF Defines(ws, i) THEN <<Definition(ws, i)>> \o h[Min(Closings(ws, i)) + 1]
  ELSE <<ws[i]>> \o h[i + 1]
IsGroupTable(h, ws) == h = [i \in 1 .. (Len(ws) + 1) |-> GroupStep(h, ws, i)]

LEMMA GroupStepIs ==
  ASSUME NEW h, NEW ws, NEW i
  PROVE  GroupStep(h, ws, i) =
           IF i > Len(ws) THEN << >> ELSE <<ItemAt(ws, i)>> \o h[NextAfter(ws, i)]
BY DEF GroupStep, ItemAt, NextAfter

LEMMA GroupTableExists ==
  ASSUME NEW S, NEW ws \in Seq(S)
  PROVE  \E h : IsGroupTable(h, ws)
<1> DEFINE n == Len(ws) + 1
           Step(h, i) == IF i > Len(ws) THEN << >> ELSE <<ItemAt(ws, i)>> \o h[NextAfter(ws, i)]
           DownTo(h, m) == \A i \in 1 .. n : n - i <= m => h[i] = Step(h, i)
           Bad == {m \in Nat : ~ \E h : DownTo(h, m)}
<1>0. n \in Nat /\ n = Len(ws) + 1 /\ Len(ws) \in Nat
  BY LenProperties
<1>a. \A i \in 1 .. n : ~(i > Len(ws)) => NextAfter(ws, i) \in 1 .. n /\ n - NextAfter(ws, i) <= n - i - 1
  <2> SUFFICES ASSUME NEW i \in 1 .. n, ~(i > Len(ws))
               PROVE  NextAfter(ws, i) \in 1 .. n /\ n - NextAfter(ws, i) <= n - i - 1
    OBVIOUS
  <2>1. i \in 1 .. Len(ws)
    BY <1>0
  <2>2. NextAfter(ws, i) \in 2 .. Len(ws) + 1 /\ i < NextAfter(ws, i)
    BY <2>1, AfterIsLater
  <2> QED BY <1>0, <2>2
<1> HIDE DEF n
<1>1. Bad = {}
  <2> SUFFICES ASSUME Bad # {} PROVE FALSE
    OBVIOUS
  <2>1. PICK m \in Bad : \A k \in Bad : m <= k
    <3> HIDE DEF DownTo
    <3> QED BY LeastNat
  <2>2. CASE m = 0
    <3> DEFINE h == [i \in 1 .. n |-> << >>]
    <3>1. ASSUME NEW i \in 1 .. n, n - i <= m PROVE h[i] = Step(h, i)
      <4>1. i > Len(ws)
        BY <1>0, <2>2, <3>1
      <4> QED BY <4>1
    <3>2. DownTo(h, m)
      BY <3>1
    <3> HIDE DEF DownTo, h
    <3> QED BY <3>2
  <2>3. CASE m # 0
    <3>1. m \in Nat /\ m - 1 \in Nat /\ m - 1 \notin Bad
      <4> HIDE DEF DownTo
      <4>1. m \in Nat
        OBVIOUS
      <4>2. m - 1 \in Nat /\ ~(m <= m - 1)
        BY <2>3, <4>1
      <4> HIDE DEF Bad
      <4> QED BY <2>1, <4>1, <4>2
    <3>2. PICK h : DownTo(h, m - 1)
      <4> HIDE DEF DownTo
      <4> QED BY <3>1
    <3> DEFINE g == [i \in 1 .. n |-> IF n - i <= m - 1 THEN h[i] ELSE Step(h, i)]
    <3>3. ASSUME NEW i \in 1 .. n, n - i <= m
          PROVE  g[i] = Step(g, i)
      <4>1. g[i] = Step(h, i)
        <5> HIDE DEF Step
        <5> QED BY <3>2
      <4>2. ~(i > Len(ws)) => g[NextAfter(ws, i)] = h[NextAfter(ws, i)]
        <5> SUFFICES ASSUME ~(i > Len(ws)) PROVE g[NextAfter(ws, i)] = h[NextAfter(ws, i)]
          OBVIOUS
        <5>1. NextAfter(ws, i) \in 1 .. n /\ n - NextAfter(ws, i) <= n - i - 1
          BY <1>a
        <5>2. n - NextAfter(ws, i) <= m - 1
          BY <1>0, <3>1, <3>3, <5>1
        <5> HIDE DEF Step
        <5> QED BY <5>1, <5>2
      <4> HIDE DEF g
      <4> QED BY <4>1, <4>2
    <3>4. DownTo(g, m)
      BY <3>3
    <3> HIDE DEF DownTo, g
    <3> QED BY <3>4
  <2> QED BY <2>2, <2>3
<1>2. PICK h : DownTo(h, n)
  <2> HIDE DEF DownTo
  <2> QED BY <1>0, <1>1
<1> DEFINE g == [i \in 1 .. n |-> h[i]]
<1>3. ASSUME NEW i \in 1 .. n PROVE g[i] = GroupStep(g, ws, i)
  <2>1. g[i] = Step(h, i)
    <3>1. n - i <= n
      BY <1>0
    <3> HIDE DEF Step
    <3> QED BY <1>2, <3>1
  <2>2. ~(i > Len(ws)) => g[NextAfter(ws, i)] = h[NextAfter(ws, i)]
    BY <1>a
  <2> HIDE DEF g
  <2> QED BY <2>1, <2>2, GroupStepIs
<1>4. IsGroupTable(g, ws)
  BY <1>3 DEF IsGroupTable, n
<1> HIDE DEF g
<1> QED BY <1>4

LEMMA GroupLooksUp ==
  ASSUME NEW S, NEW ws \in Seq(S)
  PROVE  \E h : IsGroupTable(h, ws) /\ Grouped(ws) = h[1]
<1> DEFINE h == CHOOSE h : IsGroupTable(h, ws)
<1>1. Grouped(ws) = h[1]
  BY DEF Grouped, IsGroupTable, GroupStep
<1>2. IsGroupTable(h, ws)
  BY GroupTableExists
<1> HIDE DEF h
<1> QED BY <1>1, <1>2

\* Words and definitions.
Ast == Printable \cup {ColonDef(name, body) : name \in Seq(Char), body \in Seq(Printable)}

\* How each is printed.
WholeTable(sep) == [a \in Ast |-> ShownWhole(a, sep)]

\* One text after another, by name.
Cat(x, y) == x \o y

LEMMA CatIsSeq ==
  ASSUME NEW L
  PROVE  \A x, y \in Seq(L) : Cat(x, y) \in Seq(L)
BY ConcatProperties DEF Cat

LEMMA CatAssociates ==
  ASSUME NEW L
  PROVE  \A x, y, z \in Seq(L) : Cat(Cat(x, y), z) = Cat(x, Cat(y, z))
BY ConcatAssociative DEF Cat

Flat(a, b, p, z, sep) == Cat(Cat(Cat(Cat(Cat(Cat(a, sep), b), sep), p), z), sep)
Nested(a, b, p, z, sep) == Cat(Cat(a, sep), Cat(Cat(b, sep), Cat(p, Cat(z, sep))))

LEMMA Regroup ==
  ASSUME NEW L, NEW a \in Seq(L), NEW b \in Seq(L), NEW p \in Seq(L), NEW z \in Seq(L),
         NEW sep \in Seq(L)
  PROVE  /\ Nested(a, b, p, z, sep) \in Seq(L)
         /\ Flat(a, b, p, z, sep) = Nested(a, b, p, z, sep)
<1> DEFINE X == Seq(L)
           ab == Cat(Cat(a, sep), Cat(b, sep))
<1>1. /\ \A x, y \in X : Cat(x, y) \in X
      /\ \A x, y, w \in X : Cat(Cat(x, y), w) = Cat(x, Cat(y, w))
      /\ a \in X /\ b \in X /\ p \in X /\ z \in X /\ sep \in X
  <2>1. \A x, y \in X : Cat(x, y) \in X
    BY CatIsSeq
  <2>2. \A x, y, w \in X : Cat(Cat(x, y), w) = Cat(x, Cat(y, w))
    BY CatAssociates
  <2>3. a \in X /\ b \in X /\ p \in X /\ z \in X /\ sep \in X
    OBVIOUS
  <2> HIDE DEF X
  <2> QED BY <2>1, <2>2, <2>3
<1> HIDE DEF X
<1>2. Cat(a, sep) \in X /\ Cat(b, sep) \in X /\ Cat(z, sep) \in X
  BY <1>1
<1>3. ab \in X /\ Cat(p, Cat(z, sep)) \in X /\ Cat(Cat(b, sep), Cat(p, Cat(z, sep))) \in X
  BY <1>1, <1>2
<1>4. Cat(Cat(Cat(a, sep), b), sep) = ab
  BY <1>1, <1>2
<1>5. Cat(ab, p) \in X
  BY <1>1, <1>3
<1>6. Cat(Cat(Cat(ab, p), z), sep) = Cat(Cat(ab, p), Cat(z, sep))
  BY <1>1, <1>5
<1>7. Cat(Cat(ab, p), Cat(z, sep)) = Cat(ab, Cat(p, Cat(z, sep)))
  BY <1>1, <1>2, <1>3
<1>8. Cat(ab, Cat(p, Cat(z, sep))) = Cat(Cat(a, sep), Cat(Cat(b, sep), Cat(p, Cat(z, sep))))
  BY <1>1, <1>2, <1>3
<1>9. Cat(Cat(a, sep), Cat(Cat(b, sep), Cat(p, Cat(z, sep)))) \in X
  BY <1>1, <1>2, <1>3
<1> QED BY <1>4, <1>6, <1>7, <1>8, <1>9 DEF Flat, Nested, X

LEMMA ShownDefinition ==
  ASSUME NumbersSpellBack, NEW sep \in Separator, NEW name \in Seq(Char), NEW body \in Seq(Printable)
  PROVE  /\ ShownWhole(ColonDef(name, body), sep) \in Seq(Letters(sep))
         /\ ShownWhole(ColonDef(name, body), sep) =
              Nested(<<":">>, name, Spread(Table(sep), body), <<";">>, sep)
<1> DEFINE L == Letters(sep)
           p == Spread(Table(sep), body)
           colon == <<":">>
           semi == <<";">>
<1>1. colon \in Seq(L) /\ semi \in Seq(L) /\ name \in Seq(L) /\ sep \in Seq(L)
  <2>1. Char \subseteq L /\ ToSet(sep) \subseteq L /\ ":" \in L /\ ";" \in L
    BY DEF Letters
  <2>2. sep \in Seq(ToSet(sep))
    BY SeparatorsSeparate DEF Separates
  <2> HIDE DEF L
  <2>a. \A x \in L : <<x>> \in Seq(L)
    OBVIOUS
  <2>3. colon \in Seq(L) /\ semi \in Seq(L)
    BY <2>1, <2>a
  <2>4. name \in Seq(L) /\ sep \in Seq(L)
    BY <2>1, <2>2, SeqMonotonic
  <2> QED BY <2>3, <2>4
<1>2. p \in Seq(L)
  BY TableGivesTexts, SpreadIsSeq
<1>3. ShownWhole(ColonDef(name, body), sep) = Flat(colon, name, p, semi, sep)
  BY PlainIsSpread DEF ShownWhole, ColonDef, Flat, Cat
<1> HIDE DEF L, p, colon, semi
<1>4. /\ Nested(colon, name, p, semi, sep) \in Seq(L)
      /\ Flat(colon, name, p, semi, sep) = Nested(colon, name, p, semi, sep)
  BY <1>1, <1>2, Regroup
<1> QED BY <1>3, <1>4 DEF L, p, colon, semi

LEMMA ShownAlone ==
  ASSUME NEW sep, NEW w \in Printable
  PROVE  ShownWhole(w, sep) = Table(sep)[w]
<1>1. w.word # "def"
  <2>1. w \in Words
    BY DEF Printable
  <2> QED BY <2>1, WordCases DEF Ident, Number, String
<1> QED BY <1>1 DEF ShownWhole, Table

LEMMA WholeTableGivesTexts ==
  ASSUME NumbersSpellBack, NEW sep \in Separator
  PROVE  Texts(WholeTable(sep), Ast, Letters(sep))
<1>1. \A w \in Printable : Table(sep)[w] \in Seq(Letters(sep))
  BY TableGivesTexts DEF Texts
<1>2. \A w \in Printable : ShownWhole(w, sep) \in Seq(Letters(sep))
  BY <1>1, ShownAlone
<1>3. \A name \in Seq(Char), body \in Seq(Printable) :
        ShownWhole(ColonDef(name, body), sep) \in Seq(Letters(sep))
  BY ShownDefinition
<1>4. \A a \in Ast : ShownWhole(a, sep) \in Seq(Letters(sep))
  BY <1>2, <1>3 DEF Ast
<1> QED BY <1>4 DEF Texts, WholeTable

\* A stretch of words is printed as its first part and the rest.
LEMMA SpreadSplit ==
  ASSUME NEW L, NEW W, NEW F, Texts(F, W, L), NEW ws \in Seq(W),
         NEW i \in 1 .. Len(ws) + 1, NEW k \in (i - 1) .. Len(ws)
  PROVE  /\ SubSeq(ws, i, k) \in Seq(W)
         /\ Spread(F, SubSeq(ws, i, Len(ws))) =
              Spread(F, SubSeq(ws, i, k)) \o Spread(F, SubSeq(ws, k + 1, Len(ws)))
<1> DEFINE n == Len(ws)
<1>1. n \in Nat /\ \A j \in 1 .. n : ws[j] \in W
  BY LenProperties, ElementOfSeq
<1>2. n \in k .. n
  BY <1>1
<1>3. SubSeq(ws, i, k) \o SubSeq(ws, k + 1, n) = SubSeq(ws, i, n)
  BY <1>2, ConcatAdjacentSubSeq
<1>4. SubSeq(ws, i, k) \in Seq(W)
  <2>1. \A j \in i .. k : ws[j] \in W
    BY <1>1
  <2>2. i \in Int /\ k \in Int
    BY <1>1
  <2> HIDE DEF n
  <2> QED BY <2>1, <2>2, SubSeqProperties
<1>5. SubSeq(ws, k + 1, n) \in Seq(W)
  <2>1. \A j \in k + 1 .. n : ws[j] \in W
    BY <1>1
  <2>2. k + 1 \in Int /\ n \in Int
    BY <1>1
  <2> HIDE DEF n
  <2> QED BY <2>1, <2>2, SubSeqProperties
<1> HIDE DEF n
<1>6. Spread(F, SubSeq(ws, i, k) \o SubSeq(ws, k + 1, n)) =
        Spread(F, SubSeq(ws, i, k)) \o Spread(F, SubSeq(ws, k + 1, n))
  <2> DEFINE u == SubSeq(ws, i, k)
             v == SubSeq(ws, k + 1, n)
  <2>1. u \in Seq(W) /\ v \in Seq(W)
    BY <1>4, <1>5
  <2> HIDE DEF u, v
  <2>2. Spread(F, u \o v) = Spread(F, u) \o Spread(F, v)
    BY <2>1, SpreadConcat
  <2> QED BY <2>2 DEF u, v
<1> QED BY <1>3, <1>4, <1>6 DEF n

LEMMA SpreadFirst ==
  ASSUME NEW L, NEW W, NEW F, Texts(F, W, L), NEW ws \in Seq(W), NEW i \in 1 .. Len(ws)
  PROVE  /\ ws[i] \in W
         /\ Spread(F, SubSeq(ws, i, Len(ws))) =
              Cat(F[ws[i]], Spread(F, SubSeq(ws, i + 1, Len(ws))))
<1>1. Len(ws) \in Nat /\ ws[i] \in W
  BY LenProperties, ElementOfSeq
<1>2. i \in 1 .. Len(ws) + 1 /\ i \in (i - 1) .. Len(ws)
  BY <1>1
<1>3. Spread(F, SubSeq(ws, i, Len(ws))) =
        Spread(F, SubSeq(ws, i, i)) \o Spread(F, SubSeq(ws, i + 1, Len(ws)))
  BY <1>2, SpreadSplit
<1>4. SubSeq(ws, i, i) = <<ws[i]>>
  <2>1. i \in i .. Len(ws) /\ i \in i .. i
    BY <1>1
  <2>2. SubSeq(ws, i, i) = SubSeq(ws, i, i - 1) \o <<ws[i]>>
    <3>1. i \in 1 .. Len(ws)
      OBVIOUS
    <3> QED BY <2>1, <3>1, SubSeqRecursiveSecond
  <2>3. SubSeq(ws, i, i - 1) = << >>
    BY SubSeqEmpty
  <2>4. <<ws[i]>> \in Seq(W)
    BY <1>1
  <2> QED BY <2>2, <2>3, <2>4, ConcatEmptySeq
<1>5. Spread(F, <<ws[i]>>) = F[ws[i]]
  BY <1>1, SpreadOne
<1> QED BY <1>1, <1>3, <1>4, <1>5 DEF Cat

\* What is printed from word i on.
Tailed(sep, ws, i) == Spread(Table(sep), SubSeq(ws, i, Len(ws)))

LEMMA TailedFirst ==
  ASSUME NumbersSpellBack, NEW sep \in Separator, NEW ws \in Seq(Printable), NEW i \in 1 .. Len(ws)
  PROVE  /\ ws[i] \in Printable
         /\ Tailed(sep, ws, i) = Cat(Table(sep)[ws[i]], Tailed(sep, ws, i + 1))
<1>1. Texts(Table(sep), Printable, Letters(sep))
  BY TableGivesTexts
<1>2. /\ ws[i] \in Printable
      /\ Spread(Table(sep), SubSeq(ws, i, Len(ws))) =
           Cat(Table(sep)[ws[i]], Spread(Table(sep), SubSeq(ws, i + 1, Len(ws))))
  BY <1>1, SpreadFirst
<1> QED BY <1>2 DEF Tailed

LEMMA TailedSplit ==
  ASSUME NumbersSpellBack, NEW sep \in Separator, NEW ws \in Seq(Printable),
         NEW i \in 1 .. Len(ws) + 1, NEW k \in (i - 1) .. Len(ws)
  PROVE  /\ SubSeq(ws, i, k) \in Seq(Printable)
         /\ Spread(Table(sep), SubSeq(ws, i, k)) \in Seq(Letters(sep))
         /\ Tailed(sep, ws, i) = Cat(Spread(Table(sep), SubSeq(ws, i, k)), Tailed(sep, ws, k + 1))
<1>1. Texts(Table(sep), Printable, Letters(sep))
  BY TableGivesTexts
<1>2. /\ SubSeq(ws, i, k) \in Seq(Printable)
      /\ Spread(Table(sep), SubSeq(ws, i, Len(ws))) =
           Spread(Table(sep), SubSeq(ws, i, k)) \o Spread(Table(sep), SubSeq(ws, k + 1, Len(ws)))
  BY <1>1, SpreadSplit
<1>3. Spread(Table(sep), SubSeq(ws, i, k)) \in Seq(Letters(sep))
  BY <1>1, <1>2, SpreadIsSeq
<1> QED BY <1>2, <1>3 DEF Tailed, Cat

LEMMA TailedIsSeq ==
  ASSUME NumbersSpellBack, NEW sep \in Separator, NEW ws \in Seq(Printable),
         NEW i \in 1 .. Len(ws) + 1
  PROVE  Tailed(sep, ws, i) \in Seq(Letters(sep))
<1>1. Len(ws) \in Nat
  BY LenProperties
<1>2. Len(ws) \in (i - 1) .. Len(ws)
  BY <1>1
<1>3. Spread(Table(sep), SubSeq(ws, i, Len(ws))) \in Seq(Letters(sep))
  BY <1>2, TailedSplit
<1> QED BY <1>3 DEF Tailed

LEMMA Rejoin ==
  ASSUME NEW L, NEW a \in Seq(L), NEW b \in Seq(L), NEW p \in Seq(L), NEW z \in Seq(L),
         NEW rest \in Seq(L)
  PROVE  Cat(Cat(a, Cat(b, Cat(p, z))), rest) = Cat(a, Cat(b, Cat(p, Cat(z, rest))))
<1> DEFINE X == Seq(L)
<1>1. /\ \A x, y \in X : Cat(x, y) \in X
      /\ \A x, y, w \in X : Cat(Cat(x, y), w) = Cat(x, Cat(y, w))
      /\ a \in X /\ b \in X /\ p \in X /\ z \in X /\ rest \in X
  <2>1. \A x, y \in X : Cat(x, y) \in X
    BY CatIsSeq
  <2>2. \A x, y, w \in X : Cat(Cat(x, y), w) = Cat(x, Cat(y, w))
    BY CatAssociates
  <2>3. a \in X /\ b \in X /\ p \in X /\ z \in X /\ rest \in X
    OBVIOUS
  <2> HIDE DEF X
  <2> QED BY <2>1, <2>2, <2>3
<1> HIDE DEF X
<1>2. Cat(p, z) \in X /\ Cat(b, Cat(p, z)) \in X
  BY <1>1
<1>3. Cat(Cat(a, Cat(b, Cat(p, z))), rest) = Cat(a, Cat(Cat(b, Cat(p, z)), rest))
  BY <1>1, <1>2
<1>4. Cat(Cat(b, Cat(p, z)), rest) = Cat(b, Cat(Cat(p, z), rest))
  BY <1>1, <1>2
<1>5. Cat(Cat(p, z), rest) = Cat(p, Cat(z, rest))
  BY <1>1
<1> QED BY <1>3, <1>4, <1>5

\* The item at i is printed as the words it stands for.
LEMMA ItemShown ==
  ASSUME NumbersSpellBack, NEW sep \in Separator, NEW ws \in Seq(Printable), NEW i \in 1 .. Len(ws)
  PROVE  /\ ItemAt(ws, i) \in Ast
         /\ Tailed(sep, ws, i) =
              Cat(WholeTable(sep)[ItemAt(ws, i)], Tailed(sep, ws, NextAfter(ws, i)))
<1>1. Len(ws) \in Nat
  BY LenProperties
<1>2. CASE ~ Defines(ws, i)
  <2>1. /\ ws[i] \in Printable
        /\ Tailed(sep, ws, i) = Cat(Table(sep)[ws[i]], Tailed(sep, ws, i + 1))
    BY TailedFirst
  <2>2. ws[i] \in Ast /\ WholeTable(sep)[ws[i]] = Table(sep)[ws[i]]
    BY <2>1, ShownAlone DEF Ast, WholeTable
  <2>3. ItemAt(ws, i) = ws[i] /\ NextAfter(ws, i) = i + 1
    BY <1>2 DEF ItemAt, NextAfter
  <2> QED BY <2>1, <2>2, <2>3
<1>3. CASE Defines(ws, i)
  <2> DEFINE j == Min(Closings(ws, i))
             name == ws[i + 1].text
             body == SubSeq(ws, i + 2, j - 1)
             L == Letters(sep)
             F == Table(sep)
  <2>1. j \in (i + 2) .. Len(ws) /\ ws[j] = Ident(<<";">>)
    BY <1>3, FirstClosing
  <2>2. ws[i] = Ident(<<":">>) /\ ws[i + 1].word = "ident"
    BY <1>3 DEF Defines
  <2>3. /\ ItemAt(ws, i) = ColonDef(name, body) /\ NextAfter(ws, i) = j + 1
    BY <1>3 DEF ItemAt, NextAfter, Definition
  <2> HIDE DEF j
  <2>4. /\ i \in 1 .. Len(ws) /\ i + 1 \in 1 .. Len(ws) /\ j \in 1 .. Len(ws)
        /\ i + 2 \in 1 .. Len(ws) + 1 /\ j - 1 \in ((i + 2) - 1) .. Len(ws)
        /\ j + 1 \in 1 .. Len(ws) + 1 /\ (j - 1) + 1 = j /\ (i + 1) + 1 = i + 2
    <3> DEFINE n == Len(ws)
    <3>1. n \in Nat /\ i \in 1 .. n /\ j \in (i + 2) .. n
      BY <1>1, <2>1
    <3> HIDE DEF n
    <3>2. i \in 1 .. n /\ i + 1 \in 1 .. n /\ j \in 1 .. n
      BY <3>1
    <3>3. i + 2 \in 1 .. n + 1 /\ j - 1 \in ((i + 2) - 1) .. n
      BY <3>1
    <3>4. j + 1 \in 1 .. n + 1 /\ (j - 1) + 1 = j /\ (i + 1) + 1 = i + 2
      BY <3>1
    <3> QED BY <3>2, <3>3, <3>4 DEF n
  <2>5. /\ ws[i] \in Printable
        /\ Tailed(sep, ws, i) = Cat(F[ws[i]], Tailed(sep, ws, i + 1))
    BY TailedFirst
  <2>6. /\ ws[i + 1] \in Printable
        /\ Tailed(sep, ws, i + 1) = Cat(F[ws[i + 1]], Tailed(sep, ws, i + 2))
    <3> DEFINE k == i + 1
    <3>1. k \in 1 .. Len(ws) /\ k + 1 = i + 2
      BY <2>4
    <3> HIDE DEF k
    <3>2. ws[k] \in Printable /\ Tailed(sep, ws, k) = Cat(F[ws[k]], Tailed(sep, ws, k + 1))
      BY <3>1, TailedFirst
    <3> QED BY <3>1, <3>2 DEF k
  <2>7. /\ body \in Seq(Printable) /\ Spread(F, body) \in Seq(L)
        /\ Tailed(sep, ws, i + 2) = Cat(Spread(F, body), Tailed(sep, ws, j))
    <3> DEFINE k == i + 2
               m == j - 1
    <3>1. k \in 1 .. Len(ws) + 1 /\ m \in (k - 1) .. Len(ws) /\ m + 1 = j
      BY <2>4
    <3>2. body = SubSeq(ws, k, m)
      OBVIOUS
    <3> HIDE DEF k, m, body
    <3>3. /\ SubSeq(ws, k, m) \in Seq(Printable)
          /\ Spread(F, SubSeq(ws, k, m)) \in Seq(L)
          /\ Tailed(sep, ws, k) = Cat(Spread(F, SubSeq(ws, k, m)), Tailed(sep, ws, m + 1))
      BY <3>1, TailedSplit
    <3> QED BY <3>1, <3>2, <3>3 DEF k
  <2>8. /\ ws[j] \in Printable
        /\ Tailed(sep, ws, j) = Cat(F[ws[j]], Tailed(sep, ws, j + 1))
    BY <2>4, TailedFirst
  <2> HIDE DEF body
  <2>9. name \in Seq(Char) /\ ws[i + 1] = Ident(name)
    <3>1. ws[i + 1] \in Words
      BY <2>6 DEF Printable
    <3>2. \E t \in Spelling(Char) : ws[i + 1] = Ident(t)
      BY <2>2, <3>1, WordCases DEF Number, String
    <3>3. PICK t \in Spelling(Char) : ws[i + 1] = Ident(t)
      BY <3>2
    <3>4. name = t
      BY <3>3 DEF Ident
    <3>5. t \in Seq(OrdinaryOf(Char)) /\ OrdinaryOf(Char) \subseteq Char
      BY DEF Spelling, OrdinaryOf
    <3>6. t \in Seq(Char)
      BY <3>5, SeqMonotonic
    <3> QED BY <3>3, <3>4, <3>6
  <2> HIDE DEF name
  <2>10. /\ F[ws[i]] = Cat(<<":">>, sep)
         /\ F[ws[i + 1]] = Cat(name, sep)
         /\ F[ws[j]] = Cat(<<";">>, sep)
    <3>1. \A t : Ident(t) \in Printable => F[Ident(t)] = Cat(t, sep)
      BY DEF Table, Shown, Ident, Cat
    <3> HIDE DEF F
    <3> QED BY <2>1, <2>2, <2>5, <2>6, <2>8, <2>9, <3>1
  <2>11. /\ ItemAt(ws, i) \in Ast
         /\ WholeTable(sep)[ItemAt(ws, i)] = Nested(<<":">>, name, Spread(F, body), <<";">>, sep)
    <3>1. ColonDef(name, body) \in Ast
      BY <2>7, <2>9 DEF Ast
    <3>2. WholeTable(sep)[ColonDef(name, body)] = ShownWhole(ColonDef(name, body), sep)
      BY <3>1 DEF WholeTable
    <3>3. ShownWhole(ColonDef(name, body), sep) = Nested(<<":">>, name, Spread(F, body), <<";">>, sep)
      BY <2>7, <2>9, ShownDefinition
    <3> QED BY <2>3, <3>1, <3>2, <3>3
  <2>12. F[ws[i]] \in Seq(L) /\ F[ws[i + 1]] \in Seq(L) /\ F[ws[j]] \in Seq(L)
    <3>1. \A w \in Printable : F[w] \in Seq(L)
      BY TableGivesTexts DEF Texts
    <3> HIDE DEF F, L
    <3> QED BY <2>5, <2>6, <2>8, <3>1
  <2>13. Tailed(sep, ws, j + 1) \in Seq(L)
    <3> DEFINE k == j + 1
    <3>1. k \in 1 .. Len(ws) + 1
      BY <2>4
    <3> HIDE DEF k
    <3>2. Tailed(sep, ws, k) \in Seq(L)
      BY <3>1, TailedIsSeq
    <3> QED BY <3>2 DEF k
  <2> DEFINE a == F[ws[i]]
             b == F[ws[i + 1]]
             p == Spread(F, body)
             z == F[ws[j]]
             rest == Tailed(sep, ws, j + 1)
  <2>14. /\ a \in Seq(L) /\ b \in Seq(L) /\ p \in Seq(L) /\ z \in Seq(L) /\ rest \in Seq(L)
         /\ Tailed(sep, ws, i) = Cat(a, Cat(b, Cat(p, Cat(z, rest))))
         /\ WholeTable(sep)[ItemAt(ws, i)] = Cat(a, Cat(b, Cat(p, z)))
    BY <2>5, <2>6, <2>7, <2>8, <2>10, <2>11, <2>12, <2>13 DEF Nested
  <2> HIDE DEF a, b, p, z, L, F
  <2>15. Cat(Cat(a, Cat(b, Cat(p, z))), rest) = Cat(a, Cat(b, Cat(p, Cat(z, rest))))
    <3> HIDE DEF rest
    <3> QED BY <2>14, Rejoin
  <2> QED BY <2>3, <2>11, <2>14, <2>15
<1> QED BY <1>2, <1>3

LEMMA SpreadBefore ==
  ASSUME NEW S, NEW W, NEW F, Texts(F, W, S), NEW w \in W, NEW s \in Seq(W)
  PROVE  /\ <<w>> \o s \in Seq(W)
         /\ Spread(F, <<w>> \o s) = Cat(F[w], Spread(F, s))
<1>1. <<w>> \in Seq(W)
  OBVIOUS
<1>2. Spread(F, <<w>> \o s) = Spread(F, <<w>>) \o Spread(F, s)
  <2> DEFINE u == <<w>>
  <2>1. u \in Seq(W)
    BY <1>1
  <2> HIDE DEF u
  <2>2. Spread(F, u \o s) = Spread(F, u) \o Spread(F, s)
    BY <2>1, SpreadConcat
  <2> QED BY <2>2 DEF u
<1>3. Spread(F, <<w>>) = F[w]
  BY SpreadOne
<1>4. <<w>> \o s \in Seq(W)
  BY <1>1, ConcatProperties
<1> QED BY <1>2, <1>3, <1>4 DEF Cat

LEMMA GroupedFrom ==
  ASSUME NumbersSpellBack, NEW sep \in Separator, NEW ws \in Seq(Printable),
         NEW h, IsGroupTable(h, ws), NEW i \in 1 .. Len(ws) + 1
  PROVE  h[i] \in Seq(Ast) /\ Spread(WholeTable(sep), h[i]) = Tailed(sep, ws, i)
<1> DEFINE n == Len(ws) + 1
           G == WholeTable(sep)
           Good(k) == h[k] \in Seq(Ast) /\ Spread(G, h[k]) = Tailed(sep, ws, k)
           Bad == {k \in 1 .. n : ~ Good(k)}
           D == {n - k : k \in Bad}
<1>1. Len(ws) \in Nat /\ n \in Nat /\ n = Len(ws) + 1
  BY LenProperties
<1>2. \A k \in 1 .. n :
        h[k] = IF k > Len(ws) THEN << >> ELSE <<ItemAt(ws, k)>> \o h[NextAfter(ws, k)]
  BY GroupStepIs DEF IsGroupTable
<1>3. Texts(G, Ast, Letters(sep))
  BY WholeTableGivesTexts
<1> HIDE DEF n, G
<1>4. Bad = {}
  <2> SUFFICES ASSUME Bad # {} PROVE FALSE
    OBVIOUS
  <2>1. D \in SUBSET Nat /\ D # {}
    <3>1. \A k \in Bad : n - k \in Nat
      BY <1>1
    <3> HIDE DEF Bad
    <3> QED BY <3>1
  <2>2. PICK d \in D : \A e \in D : d <= e
    <3> HIDE DEF D
    <3> QED BY <2>1, LeastNat
  <2>3. PICK k \in Bad : d = n - k
    <3> HIDE DEF Bad
    <3> QED OBVIOUS
  <2>4. k \in 1 .. n /\ ~ Good(k)
    OBVIOUS
  <2>5. CASE k > Len(ws)
    <3>1. h[k] = << >>
      BY <1>2, <2>4, <2>5
    <3>2. SubSeq(ws, k, Len(ws)) = << >>
      <4>1. k \in Int /\ Len(ws) \in Int /\ Len(ws) < k
        BY <1>1, <2>4, <2>5
      <4> QED BY <4>1, SubSeqEmpty
    <3>3. Spread(G, << >>) = << >> /\ Tailed(sep, ws, k) = << >>
      BY <3>2, SpreadEmpty DEF Tailed
    <3>4. << >> \in Seq(Ast)
      OBVIOUS
    <3> QED BY <2>4, <3>1, <3>3, <3>4
  <2>6. CASE ~(k > Len(ws))
    <3> DEFINE m == NextAfter(ws, k)
    <3>1. k \in 1 .. Len(ws)
      BY <1>1, <2>4, <2>6
    <3>2. m \in 1 .. n /\ k < m
      <4>1. m \in 2 .. Len(ws) + 1 /\ k < m
        BY <3>1, AfterIsLater
      <4> HIDE DEF m
      <4> QED BY <1>1, <4>1
    <3> HIDE DEF m
    <3>3. Good(m)
      <4> SUFFICES ASSUME ~ Good(m) PROVE FALSE
        OBVIOUS
      <4>1. m \in Bad
        BY <3>2
      <4>2. n - m \in D
        <5> HIDE DEF Bad
        <5> QED BY <4>1
      <4>3. d <= n - m
        <5> HIDE DEF D
        <5> QED BY <2>2, <4>2
      <4> HIDE DEF Good, Bad, D
      <4> QED BY <1>1, <2>3, <2>4, <3>2, <4>3
    <3>4. h[k] = <<ItemAt(ws, k)>> \o h[m]
      BY <1>2, <2>4, <2>6 DEF m
    <3>5. /\ ItemAt(ws, k) \in Ast
          /\ Tailed(sep, ws, k) = Cat(G[ItemAt(ws, k)], Tailed(sep, ws, m))
      BY <3>1, ItemShown DEF m, G
    <3> DEFINE a == ItemAt(ws, k)
               rest == h[m]
    <3>6. a \in Ast /\ rest \in Seq(Ast)
      BY <3>3, <3>5
    <3>7. Spread(G, rest) = Tailed(sep, ws, m)
      BY <3>3
    <3> HIDE DEF a, rest
    <3>8. <<a>> \o rest \in Seq(Ast) /\ Spread(G, <<a>> \o rest) = Cat(G[a], Spread(G, rest))
      BY <1>3, <3>6, SpreadBefore
    <3>9. Good(k)
      BY <3>4, <3>5, <3>7, <3>8 DEF a, rest
    <3> QED BY <2>4, <3>9
  <2> QED BY <2>5, <2>6
<1>5. i \in 1 .. n
  BY <1>1
<1>6. Good(i)
  BY <1>4, <1>5
<1> QED BY <1>6 DEF G

LEMMA DisplayedGrouped ==
  ASSUME NumbersSpellBack, NEW sep \in Separator, NEW ws \in Seq(Printable)
  PROVE  Displayed(Grouped(ws), sep) = Plain(ws, sep)
<1>1. PICK h : IsGroupTable(h, ws) /\ Grouped(ws) = h[1]
  BY GroupLooksUp
<1>2. Len(ws) \in Nat /\ 1 \in 1 .. Len(ws) + 1
  BY LenProperties
<1>3. h[1] \in Seq(Ast) /\ Spread(WholeTable(sep), h[1]) = Tailed(sep, ws, 1)
  BY <1>1, <1>2, GroupedFrom
<1>4. \A ast \in Seq(Ast) : Displayed(ast, sep) = Spread(WholeTable(sep), ast)
  <2> SUFFICES ASSUME NEW ast \in Seq(Ast)
               PROVE  Displayed(ast, sep) = Spread(WholeTable(sep), ast)
    OBVIOUS
  <2>1. DOMAIN ast = 1 .. Len(ast) /\ \A i \in 1 .. Len(ast) : ast[i] \in Ast
    BY LenProperties, ElementOfSeq
  <2>2. \A i \in DOMAIN ast : ShownWhole(ast[i], sep) = WholeTable(sep)[ast[i]]
    BY <2>1 DEF WholeTable
  <2>3. [i \in DOMAIN ast |-> ShownWhole(ast[i], sep)] = [i \in DOMAIN ast |-> WholeTable(sep)[ast[i]]]
    BY <2>2
  <2> QED BY <2>3 DEF Displayed, Spread
<1>5. Tailed(sep, ws, 1) = Spread(Table(sep), ws)
  BY SubSeqFull DEF Tailed
<1> QED BY <1>1, <1>3, <1>4, <1>5, PlainIsSpread

-----------------------------------------------------------------------------
(***************************************************************************)
(* The theorems.                                                           *)
(***************************************************************************)

\* Whatever was read, the reader holds what a reader may.
THEOREM ReaderTypes == ReaderSpec => [](reader \in Readers(Char))
<1>1. ReaderInit => reader \in Readers(Char)
  BY DEF ReaderInit, Start, Readers, Modes
<1>2. reader \in Readers(Char) /\ [ReaderNext]_reader => (reader \in Readers(Char))'
  <2> SUFFICES ASSUME reader \in Readers(Char), [ReaderNext]_reader
               PROVE  reader' \in Readers(Char)
    OBVIOUS
  <2>1. ASSUME NEW ch \in Char, ReadNext(ch) PROVE reader' \in Readers(Char)
    BY <2>1, ReadIsReader DEF ReadNext
  <2>2. CASE StartOver
    BY <2>2 DEF StartOver, Start, Readers, Modes
  <2>3. CASE UNCHANGED reader
    BY <2>3
  <2> QED BY <2>1, <2>2, <2>3 DEF ReaderNext
<1> QED BY <1>1, <1>2, PTL DEF ReaderSpec

LEMMA EndKeepsWords ==
  ASSUME NEW r \in Readers(Char), AtEnd(r).mode \notin Errors
  PROVE  AtEnd(r).words \in Seq(Words)
<1>1. r = Reader(r.mode, r.depth, r.str, r.buf, r.words)
      /\ r.mode \in Modes /\ r.buf \in Seq(OrdinaryOf(Char)) /\ r.words \in Seq(WordsOf(Char))
  BY ReaderFields
<1>2. r.mode \in {"words", "line"} /\ AtEnd(r) = Flushed(r)
  <2>a. \A m : [r EXCEPT !.mode = m].mode = m
    <3>1. \A m : [Reader(r.mode, r.depth, r.str, r.buf, r.words) EXCEPT !.mode = m].mode = m
      BY DEF Reader
    <3> QED BY <1>1, <3>1
  <2>1. CASE r.mode = "block"
    <3>1. AtEnd(r) = [r EXCEPT !.mode = "unterminated comment"]
      BY <2>1 DEF AtEnd
    <3>2. AtEnd(r).mode = "unterminated comment"
      BY <2>a, <3>1
    <3> QED BY <3>2 DEF Errors
  <2>2. CASE r.mode \in {"string", "escape"}
    <3>1. AtEnd(r) = [r EXCEPT !.mode = "unterminated string"]
      BY <2>2 DEF AtEnd
    <3>2. AtEnd(r).mode = "unterminated string"
      BY <2>a, <3>1
    <3> QED BY <3>2 DEF Errors
  <2>3. CASE r.mode \in {"words", "line"}
    BY <2>3 DEF AtEnd
  <2> QED BY <1>1, <2>1, <2>2, <2>3 DEF Modes
<1>3. Flushed(Reader(r.mode, r.depth, r.str, r.buf, r.words)) =
        Reader(r.mode, r.depth, r.str, << >>, Kept(r.buf, r.words))
  BY FlushedFields
<1>4. AtEnd(r).words = Kept(r.buf, r.words)
  BY <1>1, <1>2, <1>3 DEF Reader
<1> QED BY <1>1, <1>4, SpeltIsWord DEF Words

LEMMA EndAt ==
  ASSUME NEW ws
  PROVE  AtEnd(At(ws)).mode \notin Errors /\ AtEnd(At(ws)).words = ws
<1>1. AtEnd(At(ws)) = Flushed(At(ws))
  BY DEF AtEnd, At, Reader
<1>2. Flushed(At(ws)) = At(ws)
  BY DEF Flushed, At, Reader
<1>3. At(ws).mode = "words" /\ At(ws).words = ws
  BY DEF At, Reader
<1> QED BY <1>1, <1>2, <1>3 DEF Errors

LEMMA UnescapedArePrintable ==
  ASSUME NEW ws \in Seq(Words), ~ Escaped(ws)
  PROVE  ws \in Seq(Printable)
<1>1. Len(ws) \in Nat /\ ws \in [1 .. Len(ws) -> Words] /\ DOMAIN ws = 1 .. Len(ws)
  BY LenProperties
<1>2. \A i \in 1 .. Len(ws) : ws[i] \in Printable
  BY <1>1 DEF Escaped, Printable, Quote, Backslash
<1>3. ws \in [1 .. Len(ws) -> Printable]
  BY <1>1, <1>2
<1> QED BY <1>1, <1>3

\* A program printed is read back as the same program, for every source, of
\* any length over any alphabet, and every separator that ends a word: Display
\* (ast.rs) undoes parse (parse.rs), as long as Display gives every number a
\* word that spells it and no string needs an escape.
THEOREM ProgramsPrintBack == ASSUME NumbersSpellBack PROVE ReaderSpec => []PrintsBack
<1>1. reader \in Readers(Char) => PrintsBack
  <2> SUFFICES ASSUME reader \in Readers(Char),
                      AtEnd(reader).mode \notin Errors,
                      ~ Escaped(AtEnd(reader).words),
                      NEW sep \in Separator
               PROVE  LET again == ParsedFrom(Displayed(Grouped(AtEnd(reader).words), sep))
                      IN  /\ again.mode \notin Errors
                          /\ Grouped(again.words) = Grouped(AtEnd(reader).words)
    BY DEF PrintsBack
  <2> DEFINE ws == AtEnd(reader).words
  <2>1. ws \in Seq(Words)
    BY EndKeepsWords
  <2>2. ws \in Seq(Printable)
    BY <2>1, UnescapedArePrintable
  <2> HIDE DEF ws
  <2>3. Displayed(Grouped(ws), sep) = Plain(ws, sep)
    BY <2>2, DisplayedGrouped
  <2>4. ReadFrom(Start, Plain(ws, sep)) = At(ws)
    BY <2>2, ReadPlain
  <2>5. ParsedFrom(Displayed(Grouped(ws), sep)) = AtEnd(At(ws))
    BY <2>3, <2>4 DEF ParsedFrom
  <2> QED BY <2>5, EndAt DEF ws
<1> QED BY <1>1, ReaderTypes, PTL

-----------------------------------------------------------------------------
(***************************************************************************)
(* Part two.  The compiler.                                                *)
(***************************************************************************)

\* The values a compilation holds, and any others in T.
Held(x, T) == {x.env[i] : i \in 1..x.counter} \cup T

-----------------------------------------------------------------------------
\* The elements of a sequence below the top k, and the top k.

LEMMA BelowTop ==
  ASSUME NEW S, NEW s \in Seq(S), NEW k \in 0..Len(s)
  PROVE  /\ SubSeq(s, 1, Len(s) - k) \in Seq(S)
         /\ Len(SubSeq(s, 1, Len(s) - k)) = Len(s) - k
         /\ \A i \in 1..(Len(s) - k) : SubSeq(s, 1, Len(s) - k)[i] = s[i]
<1> DEFINE m == Len(s) - k
<1>1. Len(s) \in Nat /\ m \in Nat /\ m <= Len(s) /\ 1 \in Int
  BY LenProperties
<1>2. \A i \in 1..m : s[i] \in S
  BY <1>1, ElementOfSeq
<1> HIDE DEF m
<1>3. /\ SubSeq(s, 1, m) \in Seq(S)
      /\ Len(SubSeq(s, 1, m)) = IF 1 <= m THEN m - 1 + 1 ELSE 0
      /\ \A i \in 1..(m - 1 + 1) : SubSeq(s, 1, m)[i] = s[1 + i - 1]
  <2>1. m \in Int  BY <1>1
  <2> QED  BY <1>1, <1>2, <2>1, SubSeqProperties
<1>4. m - 1 + 1 = m /\ (~ 1 <= m => m = 0)
  BY <1>1
<1>5. \A i \in 1..m : 1 + i - 1 = i
  BY <1>1
<1>6. Len(SubSeq(s, 1, m)) = m
  BY <1>3, <1>4
<1>7. \A i \in 1..m : SubSeq(s, 1, m)[i] = s[i]
  BY <1>3, <1>4, <1>5
<1> QED  BY <1>3, <1>6, <1>7 DEF m

-----------------------------------------------------------------------------
\* The stack of values behind a virtual stack.

LEMMA ValuesAreASequence ==
  ASSUME NEW x, WellFormed(x), NEW T
  PROVE  /\ Len(x.stack) \in Nat
         /\ x.stack \in [1..Len(x.stack) -> 1..x.counter]
         /\ Values(x) \in Seq(Held(x, T))
         /\ Len(Values(x)) = Len(x.stack)
         /\ \A i \in 1..Len(x.stack) : Values(x)[i] = x.env[x.stack[i]]
<1> DEFINE n == Len(x.stack)
           S == Held(x, T)
<1>1. n \in Nat /\ x.stack \in [1..n -> 1..x.counter]
  BY LenProperties DEF WellFormed
<1>2. \A i \in 1..n : x.env[x.stack[i]] \in S
  BY <1>1 DEF Held
<1>3. Values(x) \in [1..n -> S]
  BY <1>1, <1>2 DEF Values
<1>4. Values(x) \in Seq(S) /\ Len(Values(x)) = n
  BY <1>1, <1>3
<1> QED  BY <1>1, <1>4 DEF Values

\* Popping names pops the values they hold.
LEMMA PoppedValues ==
  ASSUME NEW x, WellFormed(x), NEW k \in 0..Len(x.stack)
  PROVE  /\ WellFormed(Popped(x, k))
         /\ Len(Popped(x, k).stack) = Len(x.stack) - k
         /\ Values(Popped(x, k)) = M!Below(Values(x), k)
         /\ Args(x, k) = M!Top(Values(x), k)
<1> DEFINE n == Len(x.stack)
           y == Popped(x, k)
           S == Held(x, {})
<1>1. n \in Nat /\ x.stack \in [1..n -> 1..x.counter] /\ x.stack \in Seq(1..x.counter)
  BY ValuesAreASequence DEF WellFormed
<1>2. k \in Nat /\ n - k \in Nat /\ k <= n
  BY <1>1
<1>3. DOMAIN x = {"stack", "counter", "env", "known", "world", "ok"}
  BY DEF WellFormed
<1>4. /\ DOMAIN y = DOMAIN x
      /\ y.stack = SubSeq(x.stack, 1, n - k) /\ y.ok = x.ok
      /\ y.counter = x.counter /\ y.env = x.env /\ y.known = x.known
  BY <1>3 DEF Popped
<1>5. /\ y.stack \in Seq(1..x.counter)
      /\ Len(y.stack) = n - k
      /\ \A i \in 1..(n-k) : y.stack[i] = x.stack[i]
  BY <1>1, <1>4, BelowTop
<1>6. WellFormed(y)
  <2>1. \A i, j \in 1..(n-k) : y.stack[i] = y.stack[j] => i = j
    <3>1. \A i, j \in 1..n : x.stack[i] = x.stack[j] => i = j
      BY DEF WellFormed
    <3>2. \A i \in 1..(n-k) : i \in 1..n
      BY <1>2
    <3> HIDE DEF y
    <3> QED  BY <3>1, <3>2, <1>5
  <2> QED  BY <2>1, <1>4, <1>5 DEF WellFormed
<1>7. /\ Values(x) \in Seq(S) /\ Len(Values(x)) = n
      /\ \A i \in 1..n : Values(x)[i] \in S /\ Values(x)[i] = x.env[x.stack[i]]
  BY ValuesAreASequence, ElementOfSeq
<1>8. Values(y) = M!Below(Values(x), k)
  <2> DEFINE b == M!Below(Values(x), k)
  <2>1. b = SubSeq(Values(x), 1, Len(Values(x)) - k)
    BY DEF M!Below
  <2>2. k \in 0..Len(Values(x))
    BY <1>7
  <2>3. /\ b \in Seq(S) /\ Len(b) = n - k
        /\ \A i \in 1..(n-k) : b[i] = Values(x)[i]
    BY <2>1, <2>2, <1>7, BelowTop
  <2> HIDE DEF b
  <2>4. \A i \in 1..(n-k) : i \in 1..n
    BY <1>2
  <2>5. \A i \in 1..(n-k) : b[i] = x.env[x.stack[i]]
    BY <2>3, <2>4, <1>7
  <2>6. b \in [1..(n-k) -> S]
    BY <2>3, LenProperties
  <2>7. Values(y) = [i \in 1..(n-k) |-> x.env[x.stack[i]]]
    <3> HIDE DEF y
    <3> QED  BY <1>4, <1>5 DEF Values
  <2> QED  BY <2>5, <2>6, <2>7 DEF b
<1>9. Args(x, k) = M!Top(Values(x), k)
  <2> DEFINE t == M!Top(Values(x), k)
             m == n - k + 1
  <2>1. t = SubSeq(Values(x), m, n)
    BY <1>7 DEF M!Top
  <2>2. m \in Int /\ n - m + 1 = k /\ \A i \in 1..k : m + i - 1 = n - k + i /\ n - k + i \in 1..n
    BY <1>2
  <2>3. \A i \in m..n : Values(x)[i] \in S
    BY <1>2, <1>7
  <2> HIDE DEF m
  <2>4. /\ t \in Seq(S)
        /\ Len(t) = IF m <= n THEN n - m + 1 ELSE 0
        /\ \A i \in 1..(n - m + 1) : t[i] = Values(x)[m + i - 1]
    BY <2>1, <2>2, <2>3, <1>2, SubSeqProperties
  <2> HIDE DEF t
  <2>5. Len(t) = k
    BY <2>2, <2>4, <1>2
  <2>6. \A i \in 1..k : t[i] = x.env[x.stack[n - k + i]]
    BY <2>2, <2>4, <1>7
  <2>7. t \in [1..k -> S]
    BY <2>4, <2>5, LenProperties
  <2>8. t = [i \in 1..k |-> x.env[x.stack[n - k + i]]]
    BY <2>6, <2>7
  <2> QED  BY <2>8 DEF Args, t
<1> QED  BY <1>5, <1>6, <1>8, <1>9

\* A new variable adds its value and leaves the others alone.
LEMMA NewVarValues ==
  ASSUME NEW x, WellFormed(x), NEW v, NEW n \in Nat \cup {Unknown}
  PROVE  /\ WellFormed(NewVar(x, v, n))
         /\ Values(NewVar(x, v, n)) = Append(Values(x), v)
         /\ NewVar(x, v, n).world = x.world
         /\ NewVar(x, v, n).ok = x.ok
<1> DEFINE y == NewVar(x, v, n)
           d == Len(x.stack)
           k == x.counter
           S == Held(x, {v})
<1>1. /\ DOMAIN x = {"stack", "counter", "env", "known", "world", "ok"}
      /\ k \in Nat /\ x.stack \in Seq(1..k)
  BY DEF WellFormed
<1>2. /\ DOMAIN y = DOMAIN x /\ y.world = x.world /\ y.ok = x.ok
      /\ y.stack = Append(x.stack, k + 1) /\ y.counter = k + 1
      /\ y.env = [j \in 1..(k+1) |-> IF j = k + 1 THEN v ELSE x.env[j]]
      /\ y.known = [j \in 1..(k+1) |-> IF j = k + 1 THEN n ELSE x.known[j]]
  BY <1>1 DEF NewVar
<1>3. /\ d \in Nat /\ x.stack \in [1..d -> 1..k]
      /\ Values(x) \in Seq(S) /\ Len(Values(x)) = d
      /\ \A i \in 1..d : Values(x)[i] = x.env[x.stack[i]]
  BY ValuesAreASequence
<1>4. /\ y.stack \in Seq(1..(k+1)) /\ Len(y.stack) = d + 1
      /\ \A i \in 1..d : y.stack[i] = x.stack[i]
      /\ y.stack[d+1] = k + 1
  <2>1. x.stack \in Seq(1..(k+1)) /\ k + 1 \in 1..(k+1)
    BY <1>1, SeqMonotonic
  <2> QED  BY <2>1, <1>2, AppendProperties
<1>5. WellFormed(y)
  <2>1. \A i \in 1..(k+1) : y.known[i] \in Nat \cup {Unknown}
    BY <1>1, <1>2 DEF WellFormed
  <2>2. \A i, j \in 1..(d+1) : y.stack[i] = y.stack[j] => i = j
    <3>1. \A i \in 1..d : x.stack[i] < k + 1
      BY <1>1, <1>3
    <3>2. \A i \in 1..(d+1) : i \in 1..d \/ i = d + 1
      BY <1>3
    <3>3. \A i, j \in 1..d : x.stack[i] = x.stack[j] => i = j
      BY DEF WellFormed
    <3>4. \A i \in 1..d : y.stack[i] < k + 1 /\ y.stack[i] = x.stack[i]
      BY <3>1, <1>4
    <3>5. \A i \in 1..(d+1) : y.stack[i] = k + 1 <=> i = d + 1
      BY <3>2, <3>4, <1>1, <1>3, <1>4
    <3> HIDE DEF y
    <3> QED  BY <3>2, <3>3, <3>4, <3>5
  <2>3. k + 1 \in Nat /\ DOMAIN y.env = 1..(k+1) /\ DOMAIN y.known = 1..(k+1)
    BY <1>1, <1>2
  <2> HIDE DEF y
  <2> QED  BY <2>1, <2>2, <2>3, <1>1, <1>2, <1>4 DEF WellFormed
<1>6. Values(y) = Append(Values(x), v)
  <2> DEFINE a == Append(Values(x), v)
  <2>1. v \in S
    BY DEF Held
  <2>2. /\ a \in Seq(S) /\ Len(a) = d + 1
        /\ \A i \in 1..d : a[i] = Values(x)[i]
        /\ a[d+1] = v
    BY <2>1, <1>3, AppendProperties
  <2> HIDE DEF a, y
  <2>3. a \in [1..(d+1) -> S]
    BY <2>2, <1>3, LenProperties
  <2>4. \A i \in 1..(d+1) : y.env[y.stack[i]] = a[i]
    <3>1. \A i \in 1..d : y.env[x.stack[i]] = x.env[x.stack[i]]
      BY <1>1, <1>2, <1>3
    <3>2. y.env[k+1] = v
      BY <1>1, <1>2
    <3>3. \A i \in 1..(d+1) : i \in 1..d \/ i = d + 1
      BY <1>3
    <3> QED  BY <3>1, <3>2, <3>3, <2>2, <1>3, <1>4
  <2>5. Values(y) = [i \in 1..(d+1) |-> y.env[y.stack[i]]]
    BY <1>4 DEF Values
  <2>6. a = [i \in 1..(d+1) |-> a[i]]
    BY <2>3
  <2> QED  BY <2>4, <2>5, <2>6 DEF a
<1> QED  BY <1>2, <1>5, <1>6

\* What NewVar and Popped leave alone.
LEMMA PoppedFields ==
  ASSUME NEW x, WellFormed(x), NEW k
  PROVE  /\ Popped(x, k).world = x.world /\ Popped(x, k).ok = x.ok
         /\ Popped(x, k).env = x.env /\ Popped(x, k).known = x.known
         /\ Popped(x, k).counter = x.counter
BY DEF WellFormed, Popped

\* The library's state is not looked at.
LEMMA WorldIsFree ==
  ASSUME NEW x, WellFormed(x), NEW w
  PROVE  /\ WellFormed([x EXCEPT !.world = w])
         /\ Values([x EXCEPT !.world = w]) = Values(x)
         /\ [x EXCEPT !.world = w].world = w
         /\ [x EXCEPT !.world = w].ok = x.ok
<1> DEFINE y == [x EXCEPT !.world = w]
<1>1. /\ DOMAIN y = DOMAIN x /\ y.stack = x.stack /\ y.counter = x.counter
      /\ y.env = x.env /\ y.known = x.known /\ y.world = w /\ y.ok = x.ok
  BY DEF WellFormed
<1> HIDE DEF y
<1>2. WellFormed(y)
  BY <1>1 DEF WellFormed
<1>3. Values(y) = Values(x)
  BY <1>1 DEF Values
<1> QED  BY <1>1, <1>2, <1>3 DEF y

LEMMA FailureIsFree ==
  ASSUME NEW x, WellFormed(x)
  PROVE  /\ WellFormed([x EXCEPT !.ok = FALSE])
         /\ Values([x EXCEPT !.ok = FALSE]) = Values(x)
         /\ [x EXCEPT !.ok = FALSE].world = x.world
         /\ [x EXCEPT !.ok = FALSE].ok = FALSE
<1> DEFINE y == [x EXCEPT !.ok = FALSE]
<1>1. /\ DOMAIN y = DOMAIN x /\ y.stack = x.stack /\ y.counter = x.counter
      /\ y.env = x.env /\ y.known = x.known /\ y.world = x.world /\ y.ok = FALSE
  BY DEF WellFormed
<1> HIDE DEF y
<1>2. WellFormed(y)
  BY <1>1 DEF WellFormed
<1>3. Values(y) = Values(x)
  BY <1>1 DEF Values
<1> QED  BY <1>1, <1>2, <1>3 DEF y

-----------------------------------------------------------------------------
\* One word: the compilation stays well formed, and the machine behind it
\* takes the documented step.

\* The machine a compilation stands for.
Behind(x) == [stack |-> Values(x), world |-> x.world, ok |-> x.ok]

LEMMA SetStack ==
  ASSUME NEW s, NEW w, NEW o, NEW t
  PROVE  [[stack |-> s, world |-> w, ok |-> o] EXCEPT !.stack = t]
           = [stack |-> t, world |-> w, ok |-> o]
OBVIOUS

LEMMA PushStep ==
  ASSUME NEW x, WellFormed(x), NEW v \in Literal
  PROVE  /\ WellFormed(Pushed(x, v))
         /\ Behind(Pushed(x, v)) = M!Pushed(Behind(x), v)
<1>1. CountOf(v) \in Nat \cup {Unknown}
  BY LiteralsCount
<1>2. /\ WellFormed(Pushed(x, v))
      /\ Values(Pushed(x, v)) = Append(Values(x), v)
      /\ Pushed(x, v).world = x.world /\ Pushed(x, v).ok = x.ok
  BY <1>1, NewVarValues DEF Pushed
<1>3. M!Pushed(Behind(x), v)
        = [stack |-> Append(Values(x), v), world |-> x.world, ok |-> x.ok]
  BY SetStack DEF M!Pushed, Behind
<1> QED  BY <1>2, <1>3 DEF Behind

\* A call whose arguments are there: fails, or leaves nothing, or one value.
LEMMA AnswerStep ==
  ASSUME NEW x, WellFormed(x), NEW k \in 0..Len(x.stack), NEW r, NEW silent \in BOOLEAN,
         NEW y, y = IF ~ r.ok THEN [x EXCEPT !.ok = FALSE]
                    ELSE IF silent THEN [Popped(x, k) EXCEPT !.world = r.world]
                    ELSE NewVar([Popped(x, k) EXCEPT !.world = r.world], r.value, Unknown)
  PROVE  /\ WellFormed(y)
         /\ Behind(y) = M!Answered(Behind(x), k, r, IF silent THEN << >> ELSE <<r.value>>)
<1> DEFINE p == Popped(x, k)
           q == [p EXCEPT !.world = r.world]
           below == M!Below(Values(x), k)
<1>1. CASE ~ r.ok
  <2>1. y = [x EXCEPT !.ok = FALSE]
    BY <1>1
  <2>2. WellFormed(y) /\ Values(y) = Values(x) /\ y.world = x.world /\ y.ok = FALSE
    BY <2>1, FailureIsFree
  <2>3. M!Answered(Behind(x), k, r, IF silent THEN << >> ELSE <<r.value>>)
          = [stack |-> Values(x), world |-> x.world, ok |-> FALSE]
    BY <1>1 DEF M!Answered, Behind
  <2> QED  BY <2>2, <2>3 DEF Behind
<1>2. CASE r.ok
  <2>1. WellFormed(p) /\ Values(p) = below /\ p.ok = x.ok
    BY PoppedValues, PoppedFields
  <2>2. /\ WellFormed(q) /\ Values(q) = below
        /\ q.world = r.world /\ q.ok = x.ok
    BY <2>1, WorldIsFree
  <2>3. below \in Seq(Held(p, {r.value})) /\ r.value \in Held(p, {r.value})
    <3> HIDE DEF p, below
    <3>1. Values(p) \in Seq(Held(p, {r.value}))
      BY <2>1, ValuesAreASequence
    <3>2. r.value \in Held(p, {r.value})
      BY DEF Held
    <3> QED  BY <2>1, <3>1, <3>2
  <2>4. below \o << >> = below /\ below \o <<r.value>> = Append(below, r.value)
    BY <2>3, ConcatEmptySeq, AppendIsConcat
  <2>5. \A left : M!Answered(Behind(x), k, r, left)
          = [stack |-> below \o left, world |-> r.world, ok |-> x.ok]
    BY <1>2 DEF M!Answered, Behind
  <2>6. CASE silent
    <3>1. y = q
      BY <1>2, <2>6
    <3> QED  BY <2>2, <2>4, <2>5, <2>6, <3>1 DEF Behind
  <2>7. CASE ~ silent
    <3>1. y = NewVar(q, r.value, Unknown)
      BY <1>2, <2>7
    <3>2. /\ WellFormed(y) /\ Values(y) = Append(below, r.value)
          /\ y.world = r.world /\ y.ok = x.ok
      <4> HIDE DEF q, below
      <4> DEFINE n == Unknown
                 v == r.value
      <4>1. n \in Nat \cup {Unknown}
        OBVIOUS
      <4>2. y = NewVar(q, v, n)
        BY <3>1
      <4> HIDE DEF n, v
      <4>3. WellFormed(q)
        BY <2>2
      <4>4. /\ WellFormed(NewVar(q, v, n))
            /\ Values(NewVar(q, v, n)) = Append(Values(q), v)
            /\ NewVar(q, v, n).world = q.world /\ NewVar(q, v, n).ok = q.ok
        BY ONLY <4>1, <4>3, NewVarValues
      <4> QED  BY <2>2, <4>2, <4>4 DEF v
    <3> QED  BY <2>4, <2>5, <2>7, <3>2 DEF Behind
  <2> QED  BY <2>6, <2>7
<1> QED  BY <1>1, <1>2

LEMMA CallStep ==
  ASSUME NEW x, WellFormed(x), NEW w \in Calls
  PROVE  /\ WellFormed(Called(x, w))
         /\ Behind(Called(x, w)) = M!Called(Behind(x), w)
<1> DEFINE k == Pops(w)
           r == Outcome(w, Args(x, k), x.world)
<1>1. k \in 0..2 /\ M!Takes(w) = k /\ (w \in M!Silent <=> w \in Statements)
  BY DEF Pops, M!Takes, M!Nullary, M!Unary, Nullary, Unary, M!Silent, Statements
<1>2. Len(x.stack) \in Nat /\ Len(Values(x)) = Len(x.stack)
  BY ValuesAreASequence
<1>3. Behind(x).stack = Values(x) /\ Behind(x).world = x.world
  BY DEF Behind
<1>4. CASE Len(x.stack) < k
  BY <1>1, <1>2, <1>3, <1>4 DEF Called, M!Called
<1>5. CASE ~ Len(x.stack) < k
  <2>1. k \in 0..Len(x.stack)
    BY <1>1, <1>2, <1>5
  <2>2. Args(x, k) = M!Top(Values(x), k)
    BY <2>1, PoppedValues
  <2>3. Called(x, w) = IF ~ r.ok THEN [x EXCEPT !.ok = FALSE]
                       ELSE IF w \in Statements THEN [Popped(x, k) EXCEPT !.world = r.world]
                       ELSE NewVar([Popped(x, k) EXCEPT !.world = r.world], r.value, Unknown)
    BY <1>5 DEF Called
  <2>4. M!Called(Behind(x), w)
          = M!Answered(Behind(x), k, r, IF w \in Statements THEN << >> ELSE <<r.value>>)
    BY <1>1, <1>2, <1>3, <1>5, <2>2 DEF M!Called
  <2> DEFINE silent == w \in Statements
             y == Called(x, w)
  <2>5. silent \in BOOLEAN
    OBVIOUS
  <2>6. y = IF ~ r.ok THEN [x EXCEPT !.ok = FALSE]
            ELSE IF silent THEN [Popped(x, k) EXCEPT !.world = r.world]
            ELSE NewVar([Popped(x, k) EXCEPT !.world = r.world], r.value, Unknown)
    BY <2>3
  <2>7. M!Called(Behind(x), w)
          = M!Answered(Behind(x), k, r, IF silent THEN << >> ELSE <<r.value>>)
    BY <2>4
  <2> HIDE DEF k, r, silent, y
  <2>8. /\ WellFormed(y)
        /\ Behind(y) = M!Answered(Behind(x), k, r, IF silent THEN << >> ELSE <<r.value>>)
    BY <2>1, <2>5, <2>6, AnswerStep
  <2> QED  BY <2>7, <2>8 DEF y
<1> QED  BY <1>4, <1>5

\* A named top value is a value on top.
LEMMA TopValue ==
  ASSUME NEW x, WellFormed(x), x.stack # << >>
  PROVE  /\ Len(x.stack) \in Nat \ {0} /\ 1 \in 0..Len(x.stack)
         /\ Values(x) # << >>
         /\ Last(Values(x)) = x.env[Last(x.stack)]
         /\ Last(x.stack) \in 1..x.counter
<1> DEFINE n == Len(x.stack)
<1>1. n \in Nat /\ Len(Values(x)) = n /\ x.stack \in [1..n -> 1..x.counter]
      /\ \A i \in 1..n : Values(x)[i] = x.env[x.stack[i]]
  BY ValuesAreASequence
<1>2. n # 0
  <2>1. x.stack \in Seq(1..x.counter)
    BY DEF WellFormed
  <2> QED  BY <2>1, EmptySeq
<1>3. n \in 1..n
  BY <1>1, <1>2
<1>4. Values(x) # << >>
  <2>1. Values(x) \in Seq(Held(x, {}))
    BY ValuesAreASequence
  <2> QED  BY <1>1, <1>2, <2>1, EmptySeq
<1> QED  BY <1>1, <1>2, <1>3, <1>4 DEF Last

\* Popping one name and then k pops k + 1.
LEMMA PoppedTwice ==
  ASSUME NEW x, WellFormed(x), x.stack # << >>, NEW k \in 0..(Len(x.stack) - 1)
  PROVE  Popped(Popped(x, 1), k) = Popped(x, k + 1)
<1> DEFINE n == Len(x.stack)
           s == x.stack
           p == SubSeq(s, 1, n - 1)
<1>1. n \in Nat \ {0} /\ s \in Seq(1..x.counter) /\ 1 \in 0..n
  BY TopValue DEF WellFormed
<1>2. p \in Seq(1..x.counter) /\ Len(p) = n - 1 /\ \A i \in 1..(n-1) : p[i] = s[i]
  BY <1>1, BelowTop
<1>3. SubSeq(p, 1, Len(p) - k) = SubSeq(s, 1, n - (k + 1))
  <2> DEFINE a == SubSeq(p, 1, Len(p) - k)
             b == SubSeq(s, 1, n - (k + 1))
             d == n - (k + 1)
  <2>1. k \in 0..Len(p) /\ k + 1 \in 0..n /\ Len(p) - k = d /\ d \in Nat /\ d <= n - 1
    BY <1>1, <1>2
  <2> HIDE DEF p, s, n
  <2>2. a \in Seq(1..x.counter) /\ Len(a) = d /\ \A i \in 1..d : a[i] = p[i]
    BY <1>2, <2>1, BelowTop
  <2>3. Len(s) = n /\ s \in Seq(1..x.counter)
    BY <1>1 DEF n, s
  <2>4. b \in Seq(1..x.counter) /\ Len(b) = d /\ \A i \in 1..d : b[i] = s[i]
    BY <2>1, <2>3, BelowTop
  <2>5. \A i \in 1..d : i \in 1..(n-1)
    BY <2>1, <1>1
  <2> HIDE DEF a, b, d
  <2>6. \A i \in 1..d : a[i] = b[i]
    BY <2>2, <2>4, <2>5, <1>2
  <2>7. a = b
    BY <2>2, <2>4, <2>6, SeqEqual
  <2> QED  BY <2>7 DEF a, b, p, s, n
<1>4. DOMAIN x = {"stack", "counter", "env", "known", "world", "ok"}
  BY DEF WellFormed
<1>5. Popped(x, 1) = [x EXCEPT !.stack = p] /\ Popped(x, 1).stack = p
  BY <1>4 DEF Popped
<1>6. Popped(Popped(x, 1), k) = [[x EXCEPT !.stack = p] EXCEPT !.stack = SubSeq(p, 1, Len(p) - k)]
  BY <1>5 DEF Popped
<1>7. Popped(x, k + 1) = [x EXCEPT !.stack = SubSeq(s, 1, n - (k + 1))]
  BY DEF Popped
<1> HIDE DEF p
<1> QED  BY <1>3, <1>4, <1>6, <1>7

\* The count compiled in is a number of tokens.
LEMMA CountUsedIsACount ==
  ASSUME NEW x, WellFormed(x), x.stack # << >>
  PROVE  CountUsed(x) \in Nat /\ CountUsed(x) # Unknown
<1>1. x.known[Last(x.stack)] \in Nat \cup {Unknown}
  BY TopValue DEF WellFormed
<1> QED  BY <1>1, UnknownIsNoCount DEF CountUsed

LEMMA InscribeStep ==
  ASSUME NEW x, WellFormed(x)
  PROVE  /\ WellFormed(Inscribed(x))
         /\ x.stack # << >> => Behind(Inscribed(x)) = M!InscribedOf(Behind(x), CountUsed(x))
         /\ (x.stack = << >> \/ CountUsed(x) = CountOf(x.env[Last(x.stack)]))
              => Behind(Inscribed(x)) = M!Inscribed(Behind(x))
<1>1. Behind(x).stack = Values(x) /\ Behind(x).world = x.world
  BY DEF Behind
<1>2. CASE x.stack = << >>
  <2>1. Inscribed(x) = x
    BY <1>2 DEF Inscribed
  <2>2. Len(x.stack) = 0
    BY <1>2
  <2>3. Values(x) \in Seq(Held(x, {})) /\ Len(Values(x)) = 0
    BY <2>2, ValuesAreASequence
  <2>4. Values(x) = << >>
    BY <2>3, EmptySeq
  <2>5. M!Inscribed(Behind(x)) = Behind(x)
    BY <1>1, <2>4 DEF M!Inscribed
  <2> QED  BY <1>2, <2>1, <2>5
<1>3. CASE x.stack # << >>
  <2> DEFINE n    == CountUsed(x)
             rest == Popped(x, 1)
             d    == Len(rest.stack)
             k    == IF n < d THEN n ELSE d
             r    == Outcome("INSCRIBE", Args(rest, k), x.world)
             y    == Inscribed(x)
  <2>1. n \in Nat /\ n # Unknown
    BY <1>3, CountUsedIsACount
  <2>2. /\ Len(x.stack) \in Nat \ {0} /\ 1 \in 0..Len(x.stack)
        /\ Values(x) # << >> /\ Last(Values(x)) = x.env[Last(x.stack)]
    BY <1>3, TopValue
  <2>3. WellFormed(rest) /\ d = Len(x.stack) - 1 /\ Values(rest) = M!Below(Values(x), 1)
    BY <2>2, PoppedValues
  <2>4. k \in 0..d /\ k \in 0..(Len(x.stack) - 1) /\ k + 1 \in 0..Len(x.stack) /\ k \in Nat
    BY <2>1, <2>2, <2>3
  <2>5. Args(rest, k) = M!Top(Values(rest), k) /\ Len(Values(rest)) = d
    BY <2>3, <2>4, PoppedValues, ValuesAreASequence
  <2>6. Popped(rest, k) = Popped(x, k + 1)
    BY <1>3, <2>4, PoppedTwice
  <2>7. y = IF ~ r.ok THEN [x EXCEPT !.ok = FALSE]
            ELSE NewVar([Popped(x, k + 1) EXCEPT !.world = r.world], r.value, Unknown)
    BY <1>3, <2>6 DEF Inscribed
  <2>8. M!InscribedOf(Behind(x), n) = M!Answered(Behind(x), k + 1, r, <<r.value>>)
    <3>2. M!Below(Behind(x).stack, 1) = Values(rest)
      BY <1>1, <2>3
    <3> DEFINE b == Behind(x)
               v == Values(rest)
    <3> HIDE DEF n, rest, b, v
    <3>3. M!InscribedOf(b, n)
            = M!Answered(b, k + 1, Outcome("INSCRIBE", M!Top(v, k), b.world),
                         <<Outcome("INSCRIBE", M!Top(v, k), b.world).value>>)
      BY <1>1, <2>1, <2>2, <2>5, <3>2 DEF M!InscribedOf, b, v
    <3> QED  BY <1>1, <2>5, <3>3 DEF b, v
  <2>12. n = CountOf(x.env[Last(x.stack)]) => M!Inscribed(Behind(x)) = M!InscribedOf(Behind(x), n)
    <3>1. M!Last(Behind(x).stack) = x.env[Last(x.stack)] /\ Behind(x).stack # << >>
      BY <1>1, <2>2 DEF M!Last, Last
    <3> HIDE DEF n
    <3> QED  BY <3>1 DEF M!Inscribed
  <2> DEFINE j == k + 1
             silent == FALSE
  <2>9. y = IF ~ r.ok THEN [x EXCEPT !.ok = FALSE]
            ELSE IF silent THEN [Popped(x, j) EXCEPT !.world = r.world]
            ELSE NewVar([Popped(x, j) EXCEPT !.world = r.world], r.value, Unknown)
    BY <2>7
  <2>10. /\ j \in 0..Len(x.stack) /\ silent \in BOOLEAN
         /\ M!Answered(Behind(x), j, r, IF silent THEN << >> ELSE <<r.value>>)
              = M!Answered(Behind(x), k + 1, r, <<r.value>>)
    BY <2>4
  <2> HIDE DEF n, d, rest, k, r, y, j, silent
  <2>11. /\ WellFormed(y)
         /\ Behind(y) = M!Answered(Behind(x), j, r, IF silent THEN << >> ELSE <<r.value>>)
    BY <2>9, <2>10, AnswerStep
  <2> QED  BY <1>3, <2>8, <2>10, <2>11, <2>12 DEF y, n
<1> QED  BY <1>2, <1>3

\* Of the top k elements, the i-th is the (n-k+i)-th of all n.
LEMMA TopElements ==
  ASSUME NEW S, NEW s \in Seq(S), NEW k \in 0..Len(s)
  PROVE  \A i \in 1..k : /\ Len(s) - k + i \in 1..Len(s)
                         /\ SubSeq(s, Len(s) - k + 1, Len(s))[i] = s[Len(s) - k + i]
<1> DEFINE n == Len(s)
           m == n - k + 1
<1>1. n \in Nat /\ \A i \in 1..n : s[i] \in S
  BY LenProperties, ElementOfSeq
<1>2. m \in Int /\ n - m + 1 = k /\ \A i \in 1..k : m + i - 1 = n - k + i /\ n - k + i \in 1..n
  BY <1>1
<1>3. \A i \in m..n : s[i] \in S
  BY <1>1
<1> HIDE DEF m
<1>4. \A i \in 1..(n - m + 1) : SubSeq(s, m, n)[i] = s[m + i - 1]
  BY <1>1, <1>2, <1>3, SubSeqProperties
<1>5. \A i \in 1..k : SubSeq(s, m, n)[i] = s[n - k + i]
  BY <1>2, <1>4
<1> QED  BY <1>2, <1>5 DEF m

LEMMA FunctionIsASeq ==
  ASSUME NEW S, NEW n \in Nat, NEW t \in [1..n -> S]
  PROVE  t \in Seq(S) /\ Len(t) = n
OBVIOUS

\* What is below the top k elements, followed by t.
LEMMA BelowThen ==
  ASSUME NEW S, NEW s \in Seq(S), NEW n \in Nat, Len(s) = n, NEW k \in 0..n,
         NEW t \in Seq(S), NEW e \in Nat, Len(t) = e,
         NEW u, u = SubSeq(s, 1, n - k) \o t
  PROVE  /\ u \in Seq(S) /\ Len(u) = n - k + e
         /\ \A i \in 1..(n - k) : u[i] = s[i]
         /\ \A i \in 1..e : u[n - k + i] = t[i]
<1> DEFINE b == SubSeq(s, 1, n - k)
           d == n - k
<1>1. d \in Nat /\ e \in Nat
  OBVIOUS
<1>2. b \in Seq(S) /\ Len(b) = d /\ \A i \in 1..d : b[i] = s[i]
  BY BelowTop
<1>8. u = b \o t
  OBVIOUS
<1> HIDE DEF b, d
<1>3. u \in Seq(S) /\ Len(u) = d + e
      /\ \A i \in 1..(d + e) : u[i] = IF i <= d THEN b[i] ELSE t[i - d]
  <2>1. /\ b \o t \in Seq(S) /\ Len(b \o t) = Len(b) + Len(t)
        /\ \A i \in 1..(Len(b) + Len(t)) : (b \o t)[i] = IF i <= Len(b) THEN b[i] ELSE t[i - Len(b)]
    BY <1>2, ConcatProperties
  <2>2. Len(b) = d /\ Len(t) = e
    BY <1>2
  <2> QED  BY <1>8, <2>1, <2>2
<1>4. \A i \in 1..d : i \in 1..(d + e) /\ i <= d
  BY <1>1
<1>5. \A i \in 1..e : d + i \in 1..(d + e) /\ ~ d + i <= d /\ d + i - d = i
  BY <1>1
<1>6. \A i \in 1..d : u[i] = s[i]
  BY <1>2, <1>3, <1>4
<1>7. \A i \in 1..e : u[d + i] = t[i]
  <2> TAKE i \in 1..e
  <2> DEFINE j == d + i
  <2>1. j \in 1..(d + e) /\ ~ j <= d /\ j - d = i
    BY <1>1
  <2> HIDE DEF j
  <2>2. u[j] = t[i]
    BY <1>3, <2>1
  <2> QED  BY <2>2 DEF j
<1> QED  BY <1>3, <1>6, <1>7 DEF d

\* DUP and OVER: a copy of the k-th value from the top.
LEMMA CopyStep ==
  ASSUME NEW x, WellFormed(x), NEW w \in {"DUP", "OVER"}
  PROVE  /\ WellFormed(Shuffled(x, w))
         /\ Behind(Shuffled(x, w)) = M!Shuffled(Behind(x), w)
<1> DEFINE k == Needs[w]
           n == Len(x.stack)
           V == Values(x)
           kept == M!Shuffle[w].leaves
<1>1. /\ k \in {1, 2} /\ M!Shuffle[w].takes = k /\ w \in DOMAIN Needs
      /\ (w = "DUP" => k = 1 /\ kept = <<1, 1>>) /\ (w = "OVER" => k = 2 /\ kept = <<1, 2, 1>>)
  BY DEF Needs, M!Shuffle
<1>2. n \in Nat /\ Len(V) = n /\ x.stack \in [1..n -> 1..x.counter]
      /\ \A i \in 1..n : V[i] = x.env[x.stack[i]]
  BY ValuesAreASequence
<1>3. Behind(x).stack = V
  BY DEF Behind
<1>4. CASE n < k
  BY <1>1, <1>2, <1>3, <1>4 DEF Shuffled, M!Shuffled
<1>5. CASE ~ n < k
  <2> DEFINE v == V[n - k + 1]
             S == Held(x, {v})
             u == Unknown
             y == NewVar(x, v, u)
             a == Append(V, v)
             t == [i \in 1..Len(kept) |-> M!Top(V, k)[kept[i]]]
  <2>1. k \in 0..n /\ n - k + 1 \in 1..n /\ n >= k /\ k >= 1 /\ k + 1 \in Nat
    BY <1>1, <1>2, <1>5
  <2>2. Shuffled(x, w) = y
    BY <1>2, <1>5, <2>1 DEF Shuffled
  <2>3. u \in Nat \cup {Unknown}
    OBVIOUS
  <2>4. WellFormed(y) /\ Values(y) = a /\ y.world = x.world /\ y.ok = x.ok
    <3> HIDE DEF u, v
    <3> QED  BY <2>3, NewVarValues
  <2>5. V \in Seq(S) /\ v \in S
    BY ValuesAreASequence DEF Held
  <2>6. a \in Seq(S) /\ Len(a) = n + 1 /\ (\A i \in 1..n : a[i] = V[i]) /\ a[n + 1] = v
    BY <1>2, <2>5, AppendProperties
  <2>7. \A i \in 1..k : n - k + i \in 1..n /\ M!Top(V, k)[i] = V[n - k + i]
    <3> HIDE DEF S, v, V, n, k
    <3>1. V \in Seq(S) /\ k \in 0..Len(V) /\ Len(V) = n
      BY <1>2, <2>1, <2>5
    <3>2. \A i \in 1..k : /\ Len(V) - k + i \in 1..Len(V)
                          /\ SubSeq(V, Len(V) - k + 1, Len(V))[i] = V[Len(V) - k + i]
      BY <3>1, TopElements
    <3> QED  BY <3>1, <3>2 DEF M!Top
  <2>8. t \in Seq(S) /\ Len(t) = k + 1 /\ (\A i \in 1..k : t[i] = V[n - k + i]) /\ t[k + 1] = v
    <3>1. \A i \in 1..n : V[i] \in S
      BY <1>2, <2>5, ElementOfSeq
    <3>2. \A i \in 1..k : V[n - k + i] \in S
      BY <2>7, <3>1
    <3> DEFINE top == M!Top(V, k)
    <3> HIDE DEF v, S
    <3>3. \A i \in 1..k : top[i] \in S /\ top[i] = V[n - k + i]
      BY <2>7, <3>2
    <3>4. top[1] = v
      BY <1>1, <3>3 DEF v
    <3>5. CASE k = 1
      <4>1. kept = <<1, 1>>
        BY <1>1, <3>5
      <4> HIDE DEF top
      <4>2. t = [i \in 1..2 |-> top[1]]
        BY <4>1 DEF top
      <4> HIDE DEF t
      <4>3. t \in Seq(S) /\ Len(t) = 2 /\ t[1] = v /\ t[2] = v
        BY <2>5, <3>4, <4>2
      <4> QED  BY <1>2, <3>5, <4>3, <3>3, <3>4
    <3>6. CASE k = 2
      <4>1. kept = <<1, 2, 1>>
        BY <1>1, <3>6
      <4> HIDE DEF top
      <4>2. t = [i \in 1..3 |-> top[<<1, 2, 1>>[i]]]
        BY <4>1 DEF top
      <4> HIDE DEF t
      <4>3. t[1] = top[1] /\ t[2] = top[2] /\ t[3] = top[1] /\ DOMAIN t = 1..3
        BY <4>2
      <4>4. t \in [1..3 -> S]
        <5>1. \A i \in 1..3 : t[i] \in S
          BY <4>3, <3>3, <3>6
        <5> QED  BY <5>1, <4>2
      <4>5. t \in Seq(S) /\ Len(t) = 3
        BY <4>4, FunctionIsASeq
      <4> QED  BY <1>2, <3>6, <4>3, <4>5, <3>3, <3>4
    <3> QED  BY <1>1, <3>5, <3>6
  <2> DEFINE b == M!Below(V, k) \o t
  <2>9. b \in Seq(S) /\ Len(b) = n + 1
        /\ (\A i \in 1..(n-k) : b[i] = V[i]) /\ \A i \in 1..(k+1) : b[n - k + i] = t[i]
    <3> HIDE DEF t, S, v, kept, V, n, k
    <3>1. V \in Seq(S) /\ k \in 0..Len(V) /\ Len(V) = n /\ t \in Seq(S) /\ Len(t) = k + 1
      BY <1>2, <2>1, <2>5, <2>8
    <3> DEFINE e == k + 1
    <3>2. b = SubSeq(V, 1, n - k) \o t
      BY <3>1 DEF M!Below
    <3>3. n \in Nat /\ k \in 0..n /\ e \in Nat /\ Len(t) = e
      BY <1>2, <2>1, <3>1
    <3> HIDE DEF b, e
    <3>4. b \in Seq(S)
      BY ONLY <3>1, <3>2, <3>3, BelowThen
    <3>8. Len(b) = n - k + e
      <4> DEFINE p == SubSeq(V, 1, n - k)
      <4>1. p \in Seq(S) /\ Len(p) = n - k
        BY <3>1, BelowTop
      <4> HIDE DEF p
      <4>2. Len(p \o t) = Len(p) + Len(t)
        BY <3>1, <4>1, ConcatProperties
      <4> QED  BY <3>2, <3>3, <4>1, <4>2 DEF p
    <3>6. \A i \in 1..(n - k) : b[i] = V[i]
      BY ONLY <3>1, <3>2, <3>3, BelowThen
    <3>7. \A i \in 1..e : b[n - k + i] = t[i]
      BY ONLY <3>1, <3>2, <3>3, BelowThen
    <3>5. n - k + e = n + 1
      BY <1>2, <2>1 DEF e
    <3> QED  BY <3>4, <3>5, <3>6, <3>7, <3>8 DEF e
  <2>10. a = b
    <3> HIDE DEF a, b, t, S, v, k, n, V
    <3>1. \A i \in 1..(n+1) : i \in 1..(n-k) \/ (i - (n-k) \in 1..k /\ i \in 1..n /\ i = n - k + (i - (n-k))) \/ i = n + 1
      BY <1>2, <2>1
    <3>2. k + 1 \in 1..(k+1) /\ n - k + (k + 1) = n + 1 /\ \A i \in 1..k : i \in 1..(k+1)
      BY <1>2, <2>1
    <3>3. b[n+1] = v
      BY <2>8, <2>9, <3>2
    <3>4. \A j \in 1..k : b[n - k + j] = V[n - k + j]
      BY <2>8, <2>9, <3>2
    <3>5. \A i \in 1..(n-k) : i \in 1..n
      BY <1>2, <2>1
    <3>6. \A i \in 1..(n+1) : a[i] = b[i]
      <4> TAKE i \in 1..(n+1)
      <4>1. CASE i \in 1..(n-k)
        BY <4>1, <3>5, <2>6, <2>9
      <4>2. CASE i - (n-k) \in 1..k /\ i \in 1..n /\ i = n - k + (i - (n-k))
        <5> DEFINE j == i - (n - k)
        <5>1. j \in 1..k /\ i \in 1..n /\ i = n - k + j
          BY <4>2
        <5> HIDE DEF j
        <5>2. b[i] = V[i]
          BY <5>1, <3>4
        <5> QED  BY <5>1, <5>2, <2>6
      <4>3. CASE i = n + 1
        BY <4>3, <3>3, <2>6
      <4> QED  BY <3>1, <4>1, <4>2, <4>3
    <3>7. Len(a) = n + 1
      BY <2>6
    <3> QED  BY <2>6, <2>9, <3>6, <3>7, SeqEqual
  <2>11. M!Shuffled(Behind(x), w) = [stack |-> b, world |-> x.world, ok |-> x.ok]
    <3>1. M!Shuffled(Behind(x), w) = [Behind(x) EXCEPT !.stack = b]
      BY <1>1, <1>2, <1>3, <1>5 DEF M!Shuffled
    <3> HIDE DEF b
    <3> QED  BY <3>1, SetStack DEF Behind
  <2> HIDE DEF y, a, b
  <2> QED  BY <2>2, <2>4, <2>10, <2>11 DEF Behind
<1> QED  BY <1>4, <1>5

\* SWAP, DROP and ROT only move names, so no value is copied.
LEMMA MoveStep ==
  ASSUME NEW x, WellFormed(x), NEW w \in {"SWAP", "DROP", "ROT"}
  PROVE  /\ WellFormed(Shuffled(x, w))
         /\ Behind(Shuffled(x, w)) = M!Shuffled(Behind(x), w)
<1> DEFINE k == Needs[w]
           n == Len(x.stack)
           V == Values(x)
           mv == Moves[w]
           e == Len(mv)
           X == 1..x.counter
           S == Held(x, {})
<1>1. /\ k \in {1, 2, 3} /\ M!Shuffle[w].takes = k /\ M!Shuffle[w].leaves = mv
      /\ w \in DOMAIN Needs /\ w \notin {"DUP", "OVER"}
  BY DEF Needs, Moves, M!Shuffle
<1>2. /\ e \in Nat
      /\ \A i \in 1..e : mv[i] \in 1..k
      /\ \A i, j \in 1..e : mv[i] = mv[j] => i = j
  <2>1. CASE w = "SWAP"
    <3>1. mv = <<2, 1>> /\ k = 2
      BY <2>1 DEF Needs, Moves
    <3> HIDE DEF mv, k
    <3> QED  BY <3>1
  <2>2. CASE w = "DROP"
    <3>1. mv = << >> /\ k = 1
      BY <2>2 DEF Needs, Moves
    <3> HIDE DEF mv, k
    <3> QED  BY <3>1
  <2>3. CASE w = "ROT"
    <3>1. mv = <<2, 3, 1>> /\ k = 3
      BY <2>3 DEF Needs, Moves
    <3> HIDE DEF mv, k
    <3> QED  BY <3>1
  <2> QED  BY <2>1, <2>2, <2>3
<1>3. /\ n \in Nat /\ Len(V) = n /\ x.stack \in [1..n -> X] /\ x.stack \in Seq(X)
      /\ V \in Seq(S) /\ \A i \in 1..n : V[i] = x.env[x.stack[i]] /\ V[i] \in S
  BY ValuesAreASequence, ElementOfSeq DEF WellFormed
<1>4. Behind(x).stack = V
  BY DEF Behind
<1> HIDE DEF mv, k, e
<1>5. CASE n < k
  BY <1>1, <1>3, <1>4, <1>5 DEF Shuffled, M!Shuffled, k
<1>6. CASE ~ n < k
  <2> DEFINE d == n - k
             y == Shuffled(x, w)
             top == SubSeq(x.stack, n - k + 1, n)
             t == [i \in 1..e |-> top[mv[i]]]
             q == [i \in 1..e |-> M!Top(V, k)[mv[i]]]
             b == M!Below(V, k) \o q
  <2>1. /\ k \in 0..n /\ d \in Nat /\ n \in Nat /\ d <= n /\ \A i \in 1..k : d + i \in 1..n
        /\ \A i \in 1..d : i \in 1..n
    <3>1. k \in Nat /\ n \in Nat /\ k <= n
      BY <1>1, <1>3, <1>6
    <3> HIDE DEF n
    <3> QED  BY <3>1
  <2>2. \A i \in 1..k : top[i] = x.stack[d + i] /\ M!Top(V, k)[i] = V[d + i]
    <3> HIDE DEF V, S, X, n
    <3>1. \A i \in 1..k : SubSeq(x.stack, Len(x.stack) - k + 1, Len(x.stack))[i] = x.stack[Len(x.stack) - k + i]
      BY <1>3, <2>1, TopElements DEF n
    <3>2. \A i \in 1..k : SubSeq(V, Len(V) - k + 1, Len(V))[i] = V[Len(V) - k + i]
      BY <1>3, <2>1, TopElements
    <3> QED  BY <1>3, <3>1, <3>2 DEF M!Top, n
  <2>3. \A i \in 1..e : /\ mv[i] \in 1..k /\ d + mv[i] \in 1..n
                        /\ top[mv[i]] = x.stack[d + mv[i]]
                        /\ M!Top(V, k)[mv[i]] = V[d + mv[i]]
    BY <1>2, <2>1, <2>2
  <2> HIDE DEF d, top
  <2>4. /\ t \in Seq(X) /\ Len(t) = e /\ \A i \in 1..e : t[i] = x.stack[d + mv[i]]
    <3> HIDE DEF X
    <3>1. t \in [1..e -> X]
      BY <1>3, <2>3
    <3>2. \A i \in 1..e : t[i] = x.stack[d + mv[i]]
      BY <2>3
    <3> HIDE DEF t
    <3> QED  BY <1>2, <3>1, <3>2, FunctionIsASeq
  <2>5. /\ q \in Seq(S) /\ Len(q) = e /\ \A i \in 1..e : q[i] = V[d + mv[i]]
    <3> HIDE DEF S, V
    <3>1. q \in [1..e -> S]
      BY <1>3, <2>3
    <3>2. \A i \in 1..e : q[i] = V[d + mv[i]]
      BY <2>3
    <3> HIDE DEF q
    <3> QED  BY <1>2, <3>1, <3>2, FunctionIsASeq
  <2> DEFINE z == SubSeq(x.stack, 1, n - k) \o t
  <2>6. y = [x EXCEPT !.stack = z]
    <3>1. DOMAIN x = {"stack", "counter", "env", "known", "world", "ok"}
      BY DEF WellFormed
    <3>2. y = Moved(x, w)
      BY <1>1, <1>6 DEF Shuffled, k
    <3>3. Popped(x, k).stack = SubSeq(x.stack, 1, n - k)
      BY <3>1 DEF Popped
    <3> QED  BY <3>2, <3>3 DEF Moved, k, mv, e, top
  <2> HIDE DEF t, q, n, V, S, X
  <2>7. /\ z \in Seq(X) /\ Len(z) = d + e
        /\ \A i \in 1..d : z[i] = x.stack[i]
        /\ \A i \in 1..e : z[d + i] = x.stack[d + mv[i]]
    <3> HIDE DEF z
    <3>1. z = SubSeq(x.stack, 1, n - k) \o t /\ Len(x.stack) = n
      BY DEF z, n
    <3>2. /\ z \in Seq(X) /\ Len(z) = n - k + e
          /\ \A i \in 1..(n - k) : z[i] = x.stack[i]
          /\ \A i \in 1..e : z[n - k + i] = t[i]
      <4>1. x.stack \in Seq(X) /\ n \in Nat /\ k \in 0..n /\ e \in Nat
            /\ t \in Seq(X) /\ Len(t) = e
        BY <1>2, <1>3, <2>1, <2>4
      <4>2. z \in Seq(X)
        BY ONLY <3>1, <4>1, BelowThen
      <4>3. /\ \A i \in 1..(n - k) : z[i] = x.stack[i]
            /\ \A i \in 1..e : z[n - k + i] = t[i]
        BY ONLY <3>1, <4>1, BelowThen
      <4> DEFINE p == SubSeq(x.stack, 1, n - k)
      <4>4. p \in Seq(X) /\ Len(p) = n - k
        BY <3>1, <4>1, BelowTop
      <4> HIDE DEF p
      <4>5. Len(p \o t) = Len(p) + Len(t)
        BY <4>1, <4>4, ConcatProperties
      <4>6. Len(z) = n - k + e
        BY <3>1, <4>1, <4>4, <4>5 DEF p
      <4> QED  BY <4>2, <4>3, <4>6
    <3> QED  BY <2>4, <3>2 DEF d
  <2>8. /\ b \in Seq(S) /\ Len(b) = d + e
        /\ \A i \in 1..d : b[i] = V[i]
        /\ \A i \in 1..e : b[d + i] = V[d + mv[i]]
    <3>1. b = SubSeq(V, 1, n - k) \o q
      BY <1>3 DEF M!Below
    <3> HIDE DEF b, q
    <3>2. /\ b \in Seq(S) /\ Len(b) = n - k + e
          /\ \A i \in 1..(n - k) : b[i] = V[i]
          /\ \A i \in 1..e : b[n - k + i] = q[i]
      <4>1. V \in Seq(S) /\ Len(V) = n /\ n \in Nat /\ k \in 0..n /\ e \in Nat
            /\ q \in Seq(S) /\ Len(q) = e
        BY <1>2, <1>3, <2>1, <2>5
      <4> HIDE DEF V, S, n
      <4>2. b \in Seq(S)
        BY ONLY <3>1, <4>1, BelowThen
      <4>3. \A i \in 1..(n - k) : b[i] = V[i]
        BY ONLY <3>1, <4>1, BelowThen
      <4>7. \A i \in 1..e : b[n - k + i] = q[i]
        BY ONLY <3>1, <4>1, BelowThen
      <4> DEFINE p == SubSeq(V, 1, n - k)
      <4>4. p \in Seq(S) /\ Len(p) = n - k
        BY <3>1, <4>1, BelowTop
      <4> HIDE DEF p
      <4>5. Len(p \o q) = Len(p) + Len(q)
        BY <4>1, <4>4, ConcatProperties
      <4>6. Len(b) = n - k + e
        BY <3>1, <4>1, <4>4, <4>5 DEF p
      <4> QED  BY <4>2, <4>3, <4>6, <4>7
    <3> QED  BY <2>5, <3>2 DEF d, q
  <2> HIDE DEF z, b, y
  <2>9. /\ DOMAIN y = DOMAIN x /\ y.stack = z /\ y.counter = x.counter
        /\ y.env = x.env /\ y.known = x.known /\ y.world = x.world /\ y.ok = x.ok
    BY <2>6 DEF WellFormed
  <2>10. \A i \in 1..(d + e) : i \in 1..d \/ (i - d \in 1..e /\ i = d + (i - d))
    BY <1>2, <2>1
  \* Where a place of the new stack comes from.
  <2> DEFINE from == [i \in 1..(d + e) |-> IF i \in 1..d THEN i ELSE d + mv[i - d]]
  <2>11. \A i \in 1..(d + e) : from[i] \in 1..n /\ z[i] = x.stack[from[i]] /\ b[i] = V[from[i]]
    <3> TAKE i \in 1..(d + e)
    <3>1. CASE i \in 1..d
      BY <3>1, <2>1, <2>7, <2>8
    <3>2. CASE i \notin 1..d
      <4> DEFINE j == i - d
      <4>1. j \in 1..e /\ i = d + j
        BY <3>2, <2>10
      <4>2. from[i] = d + mv[j]
        BY <3>2
      <4> HIDE DEF j, from
      <4> QED  BY <4>1, <4>2, <2>3, <2>7, <2>8
    <3> QED  BY <3>1, <3>2
  <2>12. \A i, j \in 1..(d + e) : from[i] = from[j] => i = j
    <3> SUFFICES ASSUME NEW i \in 1..(d + e), NEW j \in 1..(d + e), from[i] = from[j]
                 PROVE  i = j
      OBVIOUS
    <3>1. \A a \in 1..(d + e) : a \notin 1..d => /\ a - d \in 1..e /\ mv[a - d] \in 1..k
                                                /\ from[a] = d + mv[a - d]
      BY <1>2, <2>10
    <3>2. \A a \in 1..(d + e) : a \in 1..d => from[a] = a
      OBVIOUS
    <3> HIDE DEF from
    <3>3. CASE i \in 1..d /\ j \in 1..d
      BY <3>2, <3>3
    <3>4. CASE i \in 1..d /\ j \notin 1..d
      BY <1>1, <2>1, <3>1, <3>2, <3>4
    <3>5. CASE i \notin 1..d /\ j \in 1..d
      BY <1>1, <2>1, <3>1, <3>2, <3>5
    <3>6. CASE i \notin 1..d /\ j \notin 1..d
      <4> DEFINE f == i - d
                 g == j - d
      <4>1. f \in 1..e /\ g \in 1..e /\ mv[f] \in 1..k /\ mv[g] \in 1..k
            /\ d + mv[f] = d + mv[g]
        BY <3>1, <3>6
      <4>2. i = d + f /\ j = d + g
        BY <2>1
      <4> HIDE DEF f, g
      <4>3. mv[f] = mv[g]
        BY <4>1, <2>1, <1>1
      <4>4. f = g
        BY <4>1, <4>3, <1>2
      <4> QED  BY <4>2, <4>4
    <3> QED  BY <3>3, <3>4, <3>5, <3>6
  <2> HIDE DEF from
  <2>13. WellFormed(y)
    <3>1. \A i, j \in 1..(d + e) : z[i] = z[j] => i = j
      <4>1. \A i, j \in 1..n : x.stack[i] = x.stack[j] => i = j
        BY DEF WellFormed, n
      <4> QED  BY <4>1, <2>11, <2>12
    <3> QED  BY <3>1, <2>7, <2>9 DEF WellFormed, X
  <2>14. Values(y) = b
    <3>1. Values(y) = [i \in 1..(d + e) |-> x.env[z[i]]]
      BY <2>7, <2>9 DEF Values
    <3>2. \A i \in 1..(d + e) : x.env[z[i]] = b[i]
      BY <1>3, <2>11
    <3>3. b = [i \in 1..(d + e) |-> b[i]]
      <4>1. b \in [1..(d + e) -> S]
        BY <2>8, LenProperties
      <4> QED  BY <4>1
    <3> QED  BY <3>1, <3>2, <3>3
  <2>15. M!Shuffled(Behind(x), w) = [stack |-> b, world |-> x.world, ok |-> x.ok]
    <3>1. M!Shuffled(Behind(x), w) = [Behind(x) EXCEPT !.stack = b]
      BY <1>1, <1>3, <1>4, <1>6 DEF M!Shuffled, b, q, e
    <3> QED  BY <3>1, SetStack DEF Behind
  <2> QED  BY <2>9, <2>13, <2>14, <2>15 DEF Behind, y
<1> QED  BY <1>5, <1>6

\* A definition overwrites values, never the shape of the compilation.
LEMMA FunctionIsWellFormed ==
  ASSUME NEW x, WellFormed(x), NEW name
  PROVE  LET z == FunctionNamed(x, name)
         IN  /\ WellFormed(z)
             /\ z.stack = x.stack /\ z.ok = x.ok /\ z.world = Assigned(name, x.world)
             /\ \A i \in 1..x.counter : i # VariableNamed(name) => z.env[i] = x.env[i]
             /\ z.counter = x.counter
<1> DEFINE env == [i \in 1..x.counter |-> IF i = VariableNamed(name) THEN Function ELSE x.env[i]]
           z == FunctionNamed(x, name)
<1>1. /\ DOMAIN z = DOMAIN x /\ z.stack = x.stack /\ z.counter = x.counter
      /\ z.known = x.known /\ z.env = env /\ z.ok = x.ok /\ z.world = Assigned(name, x.world)
  BY DEF FunctionNamed, WellFormed
<1>2. DOMAIN env = 1..x.counter
  OBVIOUS
<1>3. \A i \in 1..x.counter : i # VariableNamed(name) => env[i] = x.env[i]
  OBVIOUS
<1> HIDE DEF z, env
<1>4. WellFormed(z)
  BY <1>1, <1>2 DEF WellFormed
<1> QED  BY <1>1, <1>3, <1>4 DEF z

LEMMA CallIsWellFormed ==
  ASSUME NEW x, WellFormed(x), NEW body
  PROVE  WellFormed(CallBody(x, body))
<1> DEFINE b == RunBody(x, body)
           env == [i \in 1..x.counter |-> IF i <= b.counter THEN b.env[i] ELSE x.env[i]]
           y == [x EXCEPT !.world = b.world, !.env = env]
           v == Returned(b)
           u == Unknown
<1>1. CallBody(x, body) = IF b.ok THEN NewVar(y, v, u) ELSE [x EXCEPT !.ok = FALSE]
  BY DEF CallBody
<1> HIDE DEF b
<1>2. /\ DOMAIN y = DOMAIN x /\ y.stack = x.stack /\ y.counter = x.counter
      /\ y.known = x.known /\ y.env = env /\ y.ok = x.ok /\ y.world = b.world
  BY DEF WellFormed
<1>3. WellFormed(y)
  <2>1. DOMAIN env = 1..x.counter
    OBVIOUS
  <2> HIDE DEF y, env
  <2> QED  BY <1>2, <2>1 DEF WellFormed
<1>4. u \in Nat \cup {Unknown}
  OBVIOUS
<1> HIDE DEF y, v, u
<1>5. WellFormed(NewVar(y, v, u))
  BY <1>3, <1>4, NewVarValues
<1> QED  BY <1>1, <1>5, FailureIsFree

LEMMA ShuffleStep ==
  ASSUME NEW x, WellFormed(x), NEW w \in DOMAIN Needs
  PROVE  /\ WellFormed(Shuffled(x, w))
         /\ Behind(Shuffled(x, w)) = M!Shuffled(Behind(x), w)
<1>1. w \in {"DUP", "OVER"} \/ w \in {"SWAP", "DROP", "ROT"}
  BY DEF Needs
<1>2. CASE w \in {"DUP", "OVER"}
  BY <1>2, CopyStep
<1>3. CASE w \in {"SWAP", "DROP", "ROT"}
  BY <1>3, MoveStep
<1> QED  BY <1>1, <1>2, <1>3

-----------------------------------------------------------------------------
\* The virtual stack names distinct, assigned variables in every program:
\* lower_lua.rs reads no variable before it is written and shares none
\* between two places of the stack.

LEMMA FreshIsWellFormed ==
  ASSUME NEW w
  PROVE  /\ WellFormed(Fresh(w))
         /\ Behind(Fresh(w)) = [stack |-> << >>, world |-> w, ok |-> TRUE]
<1> DEFINE x == Fresh(w)
<1>1. /\ DOMAIN x = {"stack", "counter", "env", "known", "world", "ok"}
      /\ x.stack = << >> /\ x.counter = 0 /\ x.env = << >> /\ x.known = << >>
      /\ x.world = w /\ x.ok = TRUE
  BY DEF Fresh
<1> HIDE DEF x
<1>2. 1..0 = {} /\ DOMAIN << >> = {} /\ << >> \in Seq({}) /\ Len(<< >>) = 0
  OBVIOUS
<1>3. WellFormed(x)
  <2>1. x.ok \in BOOLEAN
    BY <1>1
  <2>2. x.counter \in Nat /\ x.stack \in Seq(1..x.counter) /\ DOMAIN x.env = 1..x.counter
        /\ DOMAIN x.known = 1..x.counter
    BY <1>1, <1>2
  <2>3. 1..x.counter = {} /\ 1..Len(x.stack) = {}
    BY <1>1, <1>2
  <2> QED  BY <1>1, <2>1, <2>2, <2>3 DEF WellFormed
<1>4. Values(x) = << >>
  <2>1. Values(x) \in Seq(Held(x, {})) /\ Len(Values(x)) = 0
    BY <1>1, <1>2, <1>3, ValuesAreASequence
  <2> QED  BY <2>1, EmptySeq
<1> QED  BY <1>1, <1>3, <1>4 DEF x, Behind

LEMMA InitWellFormed == Init => LoweringInv
BY FreshIsWellFormed DEF Init, LoweringInv

LEMMA StepWellFormed == LoweringInv /\ [Next]_c => LoweringInv'
<1> SUFFICES ASSUME WellFormed(c), [Next]_c PROVE WellFormed(c')
  BY DEF LoweringInv, WellFormed
<1>1. ASSUME NEW v \in Literal, Push(v) PROVE WellFormed(c')
  BY <1>1, PushStep DEF Push
<1>2. ASSUME NEW w \in DOMAIN Needs, ShuffleStack(w) PROVE WellFormed(c')
  BY <1>2, ShuffleStep DEF ShuffleStack
<1>3. ASSUME NEW w \in Calls, Call(w) PROVE WellFormed(c')
  BY <1>3, CallStep DEF Call
<1>4. CASE Inscribe
  BY <1>4, InscribeStep DEF Inscribe
<1>5. ASSUME NEW d \in Definable, Define(d) PROVE WellFormed(c')
  <2>1. WellFormed(FunctionNamed(c, d.name))
    BY FunctionIsWellFormed
  <2> QED  BY <1>5, <2>1, CallIsWellFormed DEF Define, Defined
<1>6. CASE c' = c
  BY <1>6
<1>7. CASE Finish
  BY <1>7 DEF Finish
<1> QED  BY <1>1, <1>2, <1>3, <1>4, <1>5, <1>6, <1>7 DEF Next

THEOREM LoweringTypes == Spec => []LoweringInv
<1>1. Init => LoweringInv
  BY InitWellFormed
<1>2. LoweringInv /\ [Next]_c => LoweringInv'
  BY StepWellFormed
<1> QED  BY <1>1, <1>2, PTL DEF Spec

-----------------------------------------------------------------------------
\* Every word of a program, however long, does to the values what the table
\* in hllset-forth/src/lib.rs says, except a definition (see below); an
\* INSCRIBE whose count was copied or computed does so with another count.

LEMMA WordStep ==
  ASSUME LoweringInv
  PROVE  /\ \A v \in Literal : Push(v) => M!Push(v)
         /\ \A w \in DOMAIN Needs : ShuffleStack(w) => M!ShuffleStack(w)
         /\ \A w \in Calls : Call(w) => M!Call(w)
         /\ Inscribe => M!Inscribe \/ (MisreadsCount /\ M!InscribeOf(CountUsed(c)))
<1>1. WellFormed(c)
  BY DEF LoweringInv
<1>2. Machine = Behind(c) /\ Machine' = Behind(c')
  BY DEF Machine, Behind, Values
<1>3. \A v \in Literal : Push(v) => M!Push(v)
  BY <1>1, <1>2, PushStep DEF Push, M!Push
<1>4. \A w \in DOMAIN Needs : ShuffleStack(w) => M!ShuffleStack(w)
  BY <1>1, <1>2, ShuffleStep DEF ShuffleStack, M!ShuffleStack
<1>5. \A w \in Calls : Call(w) => M!Call(w)
  BY <1>1, <1>2, CallStep DEF Call, M!Call
<1>6. Inscribe => M!Inscribe \/ (MisreadsCount /\ M!InscribeOf(CountUsed(c)))
  BY <1>1, <1>2, InscribeStep
     DEF Inscribe, M!Inscribe, M!InscribeOf, MisreadsCount, Misreads
<1> QED  BY <1>3, <1>4, <1>5, <1>6

THEOREM CompiledWordsAreForth == Spec => WordsAreForth
<1> DEFINE W == /\ \A v \in Literal : Push(v) => M!Push(v)
                /\ \A w \in DOMAIN Needs : ShuffleStack(w) => M!ShuffleStack(w)
                /\ \A w \in Calls : Call(w) => M!Call(w)
                /\ Inscribe => M!Inscribe \/ (MisreadsCount /\ M!InscribeOf(CountUsed(c)))
<1>1. ASSUME LoweringInv PROVE W
  BY <1>1, WordStep
<1>2. Spec => []LoweringInv
  BY LoweringTypes
<1>3. WordsAreForth <=> [][c' # c => W]_c
  BY DEF WordsAreForth
<1> HIDE DEF W
<1> QED  BY <1>1, <1>2, <1>3, PTL

-----------------------------------------------------------------------------
(***************************************************************************)
(* Definitions.  The compiler and the table both fold a body word by word; *)
(* one of the two is chosen by lua.                                        *)
(***************************************************************************)

Did(lua, x, t) == IF lua THEN Compiled(x, t) ELSE M!Ran(x, t)
DidAll(lua, x, body) ==
  IF lua THEN FoldLeft(Compiled, x, body) ELSE M!FoldLeft(M!Ran, x, body)

\* What the table h says of the places I of a body: the last is done last.
DidStep(h, lua, x, body, I) ==
  IF I = {} THEN x ELSE Did(lua, h[I \ {Max(I)}], body[Max(I)])
IsDidTable(h, lua, x, body) ==
  h = [I \in SUBSET DOMAIN body |-> DidStep(h, lua, x, body, I)]

LEMMA DidTableExists ==
  ASSUME NEW lua, NEW x, NEW body, IsFiniteSet(DOMAIN body), DOMAIN body \subseteq Nat
  PROVE  \E h : IsDidTable(h, lua, x, body)
<1> DEFINE D == DOMAIN body
           UpTo(h, n) == \A I \in SUBSET D : Cardinality(I) <= n => h[I] = DidStep(h, lua, x, body, I)
           Bad == {n \in Nat : ~ \E h : UpTo(h, n)}
<1>0. \A I \in SUBSET D : IsFiniteSet(I) /\ Cardinality(I) \in Nat /\ (I # {} => Max(I) \in I)
  <2> TAKE I \in SUBSET D
  <2>1. IsFiniteSet(I) /\ Cardinality(I) \in Nat /\ I \in SUBSET Nat
    BY FS_Subset, FS_CardinalityType
  <2> QED BY <2>1, MaxOf
<1> HIDE DEF D
<1>1. Bad = {}
  <2> SUFFICES ASSUME Bad # {} PROVE FALSE
    OBVIOUS
  <2>1. PICK n \in Bad : \A m \in Bad : n <= m
    <3> HIDE DEF UpTo
    <3> QED BY LeastNat
  <2>2. CASE n = 0
    <3> DEFINE h == [I \in SUBSET D |-> x]
    <3>1. ASSUME NEW I \in SUBSET D, Cardinality(I) <= 0
          PROVE  h[I] = DidStep(h, lua, x, body, I)
      <4>1. I = {}
        BY <1>0, <3>1, FS_EmptySet
      <4> QED BY <4>1 DEF DidStep
    <3>2. UpTo(h, n)
      BY <2>2, <3>1
    <3> HIDE DEF UpTo, h
    <3> QED BY <3>2
  <2>3. CASE n # 0
    <3>1. n - 1 \in Nat /\ n - 1 \notin Bad
      <4> HIDE DEF UpTo
      <4>1. n \in Nat
        OBVIOUS
      <4>2. n - 1 \in Nat /\ ~(n <= n - 1)
        BY <2>3, <4>1
      <4> HIDE DEF Bad
      <4> QED BY <2>1, <4>2
    <3>2. PICK h : UpTo(h, n - 1)
      <4> HIDE DEF UpTo
      <4> QED BY <3>1
    <3> DEFINE g == [I \in SUBSET D |-> IF Cardinality(I) <= n - 1 THEN h[I]
                                        ELSE DidStep(h, lua, x, body, I)]
    <3>3. ASSUME NEW I \in SUBSET D, Cardinality(I) <= n
          PROVE  g[I] = DidStep(g, lua, x, body, I)
      <4>1. CASE I = {}
        BY <3>2, <4>1 DEF DidStep
      <4>2. CASE I # {}
        <5> DEFINE J == I \ {Max(I)}
        <5>1. Max(I) \in I
          BY <1>0, <4>2
        <5>2. J \in SUBSET D /\ Cardinality(J) = Cardinality(I) - 1
          BY <1>0, <5>1, FS_RemoveElement
        <5> HIDE DEF J
        <5>3. Cardinality(J) <= n - 1
          BY <1>0, <3>3, <5>2
        <5>4. g[J] = h[J]
          BY <5>2, <5>3
        <5>5. DidStep(g, lua, x, body, I) = DidStep(h, lua, x, body, I)
          BY <5>4 DEF DidStep, J
        <5>6. g[I] = DidStep(h, lua, x, body, I)
          BY <3>2
        <5> QED BY <5>5, <5>6
      <4> QED BY <4>1, <4>2
    <3>4. UpTo(g, n)
      BY <3>3
    <3> HIDE DEF UpTo, g
    <3> QED BY <3>4
  <2> QED BY <2>2, <2>3
<1>2. PICK h : UpTo(h, Cardinality(D))
  <2> HIDE DEF UpTo
  <2> QED BY <1>0, <1>1
<1> DEFINE g == [I \in SUBSET D |-> h[I]]
<1>3. ASSUME NEW I \in SUBSET D PROVE g[I] = DidStep(g, lua, x, body, I)
  <2>1. Cardinality(I) <= Cardinality(D)
    BY FS_Subset DEF D
  <2>2. g[I] = DidStep(h, lua, x, body, I)
    BY <1>2, <2>1
  <2>3. I # {} => I \ {Max(I)} \in SUBSET D
    OBVIOUS
  <2> QED BY <2>2, <2>3 DEF DidStep
<1>4. IsDidTable(g, lua, x, body)
  BY <1>3 DEF IsDidTable, D
<1> HIDE DEF g
<1> QED BY <1>4

\* Folding looks its result up in such a table.
LEMMA DidLooksUp ==
  ASSUME NEW lua \in BOOLEAN, NEW x, NEW body, IsFiniteSet(DOMAIN body), DOMAIN body \subseteq Nat
  PROVE  \E h : IsDidTable(h, lua, x, body) /\ DidAll(lua, x, body) = h[DOMAIN body]
<1> DEFINE h == CHOOSE h : IsDidTable(h, lua, x, body)
<1>1. DidAll(lua, x, body) = h[DOMAIN body]
  <2>1. CASE lua = TRUE
    BY <2>1 DEF DidAll, FoldLeft, MapThenFoldSet, IsDidTable, DidStep, Did
  <2>2. CASE lua = FALSE
    BY <2>2 DEF DidAll, M!FoldLeft, M!MapThenFoldSet, IsDidTable, DidStep, Did, M!Max, Max
  <2> QED BY <2>1, <2>2
<1>2. IsDidTable(h, lua, x, body)
  BY DidTableExists
<1> HIDE DEF h
<1> QED BY <1>1, <1>2

\* Tables of two bodies agree on the places where the bodies do.
AgreeOn(p, q, A) == \A i \in A : p[i] = q[i]

LEMMA DidTablesAgree ==
  ASSUME NEW lua, NEW x, NEW p, NEW q, IsFiniteSet(DOMAIN p), DOMAIN p \subseteq Nat,
         NEW g, NEW h, IsDidTable(g, lua, x, p), IsDidTable(h, lua, x, q),
         NEW A, A \subseteq DOMAIN p, A \subseteq DOMAIN q, AgreeOn(p, q, A)
  PROVE  g[A] = h[A]
<1> DEFINE F == {B \in SUBSET A : g[B] # h[B]}
<1>0. IsFiniteSet(A) /\ A \subseteq Nat
      /\ \A B \in SUBSET A : IsFiniteSet(B) /\ Cardinality(B) \in Nat
  BY FS_Subset, FS_CardinalityType
<1> SUFFICES ASSUME F # {} PROVE FALSE
  OBVIOUS
<1>1. PICK B \in F : \A C \in F : Cardinality(B) <= Cardinality(C)
  <2>1. F \in SUBSET SUBSET A
    OBVIOUS
  <2> HIDE DEF F
  <2> QED BY <1>0, <2>1, LeastSet
<1>2. g[B] = DidStep(g, lua, x, p, B) /\ h[B] = DidStep(h, lua, x, q, B)
  BY DEF IsDidTable
<1>3. B # {}
  BY <1>2 DEF DidStep
<1> DEFINE C == B \ {Max(B)}
<1>4. Max(B) \in B /\ C \in SUBSET A
  <2>1. B \in SUBSET Nat /\ IsFiniteSet(B)
    BY <1>0
  <2> QED BY <1>3, <2>1, MaxOf
<1>5. Cardinality(C) < Cardinality(B)
  BY <1>0, <1>4, FS_RemoveElement
<1>6. g[C] = h[C]
  BY <1>0, <1>1, <1>4, <1>5
<1>7. p[Max(B)] = q[Max(B)]
  BY <1>4 DEF AgreeOn
<1> QED BY <1>2, <1>3, <1>6, <1>7 DEF DidStep

\* The first k words of a body.
LEMMA FirstWords ==
  ASSUME NEW S, NEW body \in Seq(S), NEW k \in 0..Len(body)
  PROVE  /\ SubSeq(body, 1, k) \in Seq(S)
         /\ DOMAIN SubSeq(body, 1, k) = 1..k
         /\ \A i \in 1..k : i \in DOMAIN body /\ SubSeq(body, 1, k)[i] = body[i]
<1> DEFINE n == Len(body)
           d == n - k
<1>1. n \in Nat /\ DOMAIN body = 1..n
  BY LenProperties
<1>2. d \in 0..n /\ n - d = k /\ \A i \in 1..k : i \in 1..n
  BY <1>1
<1> HIDE DEF d
<1>3. /\ SubSeq(body, 1, n - d) \in Seq(S)
      /\ Len(SubSeq(body, 1, n - d)) = n - d
      /\ \A i \in 1..(n - d) : SubSeq(body, 1, n - d)[i] = body[i]
  BY <1>2, BelowTop
<1> QED BY <1>1, <1>2, <1>3, LenProperties

LEMMA WordsAreNumbered ==
  ASSUME NEW S, NEW body \in Seq(S)
  PROVE  IsFiniteSet(DOMAIN body) /\ DOMAIN body \subseteq Nat
<1>1. Len(body) \in Nat /\ DOMAIN body = 1..Len(body)
  BY LenProperties
<1> QED BY <1>1, FS_Interval

\* One table holds what folding makes of every prefix of the body.
LEMMA DidPrefix ==
  ASSUME NEW lua \in BOOLEAN, NEW x, NEW S, NEW body \in Seq(S),
         NEW h, IsDidTable(h, lua, x, body), NEW k \in 0..Len(body)
  PROVE  DidAll(lua, x, SubSeq(body, 1, k)) = h[1..k]
<1> DEFINE p == SubSeq(body, 1, k)
<1>1. p \in Seq(S) /\ DOMAIN p = 1..k
      /\ \A i \in 1..k : i \in DOMAIN body /\ p[i] = body[i]
  BY FirstWords
<1> HIDE DEF p
<1>2. IsFiniteSet(DOMAIN p) /\ DOMAIN p \subseteq Nat
  BY <1>1, WordsAreNumbered
<1>3. PICK g : IsDidTable(g, lua, x, p) /\ DidAll(lua, x, p) = g[DOMAIN p]
  BY <1>2, DidLooksUp
<1> DEFINE A == 1..k
<1>4. A \subseteq DOMAIN p /\ A \subseteq DOMAIN body /\ AgreeOn(p, body, A)
  BY <1>1 DEF AgreeOn
<1>5. DOMAIN p = A
  BY <1>1
<1> HIDE DEF A
<1>6. g[A] = h[A]
  BY <1>2, <1>3, <1>4, DidTablesAgree
<1> QED BY <1>3, <1>5, <1>6 DEF p, A

\* Running a body is running its words in turn.
InTurn(lua, x, body) ==
  \A k \in 1..Len(body) :
    DidAll(lua, x, SubSeq(body, 1, k)) = Did(lua, DidAll(lua, x, SubSeq(body, 1, k - 1)), body[k])

LEMMA DidInTurn ==
  ASSUME NEW lua \in BOOLEAN, NEW x, NEW S, NEW body \in Seq(S)
  PROVE  DidAll(lua, x, SubSeq(body, 1, 0)) = x /\ InTurn(lua, x, body)
<1>0. Len(body) \in Nat /\ DOMAIN body = 1..Len(body)
      /\ IsFiniteSet(DOMAIN body) /\ DOMAIN body \subseteq Nat
  BY WordsAreNumbered, LenProperties
<1>1. PICK h : IsDidTable(h, lua, x, body)
  BY <1>0, DidTableExists
<1>2. \A I \in SUBSET DOMAIN body : h[I] = DidStep(h, lua, x, body, I)
  BY <1>1 DEF IsDidTable
<1>3. \A k \in 0..Len(body) : DidAll(lua, x, SubSeq(body, 1, k)) = h[1..k]
  BY <1>1, DidPrefix
<1>4. DidAll(lua, x, SubSeq(body, 1, 0)) = x
  <2>1. h[{}] = x
    BY <1>2 DEF DidStep
  <2>2. 1..0 = {} /\ 0 \in 0..Len(body)
    BY <1>0
  <2> QED BY <1>3, <2>1, <2>2
<1>5. ASSUME NEW k \in 1..Len(body)
      PROVE  DidAll(lua, x, SubSeq(body, 1, k))
               = Did(lua, DidAll(lua, x, SubSeq(body, 1, k - 1)), body[k])
  <2> DEFINE A == 1..k
             B == 1..(k - 1)
  <2>1. A \in SUBSET DOMAIN body /\ k \in A /\ (\A i \in A : i <= k) /\ A \ {k} = B
    BY <1>0
  <2>2. k \in 0..Len(body) /\ k - 1 \in 0..Len(body)
    BY <1>0
  <2>3. DidAll(lua, x, SubSeq(body, 1, k)) = h[A]
        /\ DidAll(lua, x, SubSeq(body, 1, k - 1)) = h[B]
    BY <1>3, <2>2
  <2> HIDE DEF A, B
  <2>4. Max(A) = k
    <3>1. IsFiniteSet(A) /\ A \in SUBSET Nat /\ A # {}
      BY <1>0, <2>1, FS_Subset
    <3>2. Max(A) \in A /\ \A i \in A : i <= Max(A)
      BY <3>1, MaxOf
    <3>3. k <= Max(A) /\ Max(A) <= k /\ k \in Nat /\ Max(A) \in Nat
      BY <2>1, <3>1, <3>2
    <3> QED BY <3>3
  <2>5. h[A] = Did(lua, h[B], body[k])
    BY <1>2, <2>1, <2>4 DEF DidStep
  <2> QED BY <2>3, <2>5
<1> QED BY <1>4, <1>5 DEF InTurn

-----------------------------------------------------------------------------
\* A word of a body does to the values what the machine does, unless it is an
\* INSCRIBE that misreads its count.
LEMMA BodyWordStep ==
  ASSUME NEW x, WellFormed(x), NEW t, IsWord(t),
         ~ (x.ok /\ t.op = "INSCRIBE" /\ Misreads(x))
  PROVE  /\ WellFormed(Compiled(x, t))
         /\ Behind(Compiled(x, t)) = M!Ran(Behind(x), t)
<1>0. /\ DOMAIN Needs = {"DUP", "SWAP", "DROP", "OVER", "ROT"}
      /\ DOMAIN M!Shuffle = DOMAIN Needs
      /\ M!Calls = Calls
  BY DEF Needs, M!Shuffle, M!Calls, Calls, M!Nullary, M!Unary, M!Binary, Nullary, Unary, Binary
<1>1. "PUSH" \notin Calls /\ "INSCRIBE" \notin Calls /\ DOMAIN Needs \cap Calls = {}
  BY <1>0 DEF Calls, Nullary, Unary, Binary
<1>2. Behind(x).ok = x.ok
  BY DEF Behind
<1>3. CASE ~ x.ok
  BY <1>2, <1>3 DEF Compiled, M!Ran
<1>4. CASE x.ok
  <2>1. CASE t.op = "PUSH"
    <3>1. t.lit \in Literal
      BY <1>0, <1>1, <2>1 DEF IsWord
    <3>2. Compiled(x, t) = Pushed(x, t.lit) /\ M!Ran(Behind(x), t) = M!Pushed(Behind(x), t.lit)
      BY <1>0, <1>1, <1>2, <1>4, <2>1 DEF Compiled, M!Ran
    <3> QED BY <3>1, <3>2, PushStep
  <2>2. CASE t.op = "INSCRIBE"
    <3>1. Compiled(x, t) = Inscribed(x) /\ M!Ran(Behind(x), t) = M!Inscribed(Behind(x))
      BY <1>0, <1>1, <1>2, <1>4, <2>2 DEF Compiled, M!Ran
    <3>2. x.stack = << >> \/ CountUsed(x) = CountOf(x.env[Last(x.stack)])
      BY <1>4, <2>2 DEF Misreads
    <3> QED BY <3>1, <3>2, InscribeStep
  <2>3. CASE t.op \in DOMAIN Needs
    <3>1. Compiled(x, t) = Shuffled(x, t.op) /\ M!Ran(Behind(x), t) = M!Shuffled(Behind(x), t.op)
      BY <1>0, <1>1, <1>2, <1>4, <2>3 DEF Compiled, M!Ran
    <3> QED BY <2>3, <3>1, ShuffleStep
  <2>4. CASE t.op \in Calls
    <3>1. Compiled(x, t) = Called(x, t.op) /\ M!Ran(Behind(x), t) = M!Called(Behind(x), t.op)
      BY <1>0, <1>1, <1>2, <1>4, <2>4 DEF Compiled, M!Ran
    <3> QED BY <2>4, <3>1, CallStep
  <2> QED BY <2>1, <2>2, <2>3, <2>4 DEF IsWord
<1> QED BY <1>3, <1>4

\* Running a body does to the values what the machine does, as long as no
\* INSCRIBE in it misreads its count.
LEMMA BodyRuns ==
  ASSUME NEW x, NEW S, NEW body \in Seq(S), \A i \in 1..Len(body) : IsWord(body[i]),
         ~ MisreadsWithin(x, body)
  PROVE  /\ WellFormed(RunBody(x, body))
         /\ Behind(RunBody(x, body))
              = M!FoldLeft(M!Ran, [stack |-> << >>, world |-> x.world, ok |-> TRUE], body)
<1> DEFINE n == Len(body)
           start == [stack |-> << >>, world |-> x.world, ok |-> TRUE]
           L(k) == DidAll(TRUE, Fresh(x.world), SubSeq(body, 1, k))
           F(k) == DidAll(FALSE, start, SubSeq(body, 1, k))
           Good(k) == WellFormed(L(k)) /\ Behind(L(k)) = F(k)
           Bad == {k \in Nat : k <= n /\ ~ Good(k)}
<1>1. n \in Nat
  BY LenProperties
<1>2. L(0) = Fresh(x.world) /\ F(0) = start
  BY DidInTurn
<1>3. \A k \in 1..n : L(k) = Compiled(L(k - 1), body[k]) /\ F(k) = M!Ran(F(k - 1), body[k])
  <2>0. InTurn(TRUE, Fresh(x.world), body) /\ InTurn(FALSE, start, body)
    <3> HIDE DEF start
    <3> QED BY DidInTurn
  <2> TAKE k \in 1..n
  <2>1. DidAll(TRUE, Fresh(x.world), SubSeq(body, 1, k))
          = Did(TRUE, DidAll(TRUE, Fresh(x.world), SubSeq(body, 1, k - 1)), body[k])
    BY <2>0 DEF InTurn
  <2>2. DidAll(FALSE, start, SubSeq(body, 1, k))
          = Did(FALSE, DidAll(FALSE, start, SubSeq(body, 1, k - 1)), body[k])
    BY <2>0 DEF InTurn
  <2>3. \A a, t : Did(TRUE, a, t) = Compiled(a, t) /\ Did(FALSE, a, t) = M!Ran(a, t)
    BY DEF Did
  <2> QED BY <2>1, <2>2, <2>3
<1>4. \A k \in Nat : L(k) = RunBody(x, SubSeq(body, 1, k))
  BY DEF DidAll, RunBody
<1>5. SubSeq(body, 1, n) = body
  <2> DEFINE p == SubSeq(body, 1, n)
  <2>1. n \in 0..n
    BY <1>1
  <2>2. p \in Seq(S) /\ DOMAIN p = 1..n /\ \A i \in 1..n : p[i] = body[i]
    BY <2>1, FirstWords
  <2> HIDE DEF p
  <2>3. Len(p) = n
    BY <1>1, <2>2, LenProperties
  <2>4. p = body
    BY <2>2, <2>3, SeqEqual
  <2> QED BY <2>4 DEF p
<1> HIDE DEF L, F
<1>6. Good(0)
  BY <1>2, FreshIsWellFormed
<1>7. ASSUME NEW k \in 1..n, Good(k - 1) PROVE Good(k)
  <2> DEFINE b == L(k - 1)
  <2>1. ~ (b.ok /\ body[k].op = "INSCRIBE" /\ Misreads(b))
    <3>1. k - 1 \in Nat
      BY <1>1
    <3>2. b = RunBody(x, SubSeq(body, 1, k - 1))
      BY <1>4, <3>1
    <3> HIDE DEF b
    <3> QED BY <3>2 DEF MisreadsWithin
  <2> HIDE DEF b
  <2>2. IsWord(body[k]) /\ WellFormed(b)
    BY <1>7 DEF b
  <2>3. WellFormed(Compiled(b, body[k])) /\ Behind(Compiled(b, body[k])) = M!Ran(Behind(b), body[k])
    BY <2>1, <2>2, BodyWordStep
  <2> QED BY <1>3, <1>7, <2>3 DEF b
<1>8. Bad = {}
  <2> SUFFICES ASSUME Bad # {} PROVE FALSE
    OBVIOUS
  <2>1. PICK k \in Bad : \A j \in Bad : k <= j
    <3> HIDE DEF Good
    <3> QED BY LeastNat
  <2> HIDE DEF Good
  <2>2. k # 0 /\ k \in 1..n
    BY <1>1, <1>6
  <2>3. k - 1 \in Nat /\ k - 1 <= n /\ ~ (k <= k - 1)
    BY <1>1, <2>2
  <2>4. Good(k - 1)
    BY <2>1, <2>3
  <2> QED BY <1>7, <2>2, <2>4
<1>9. Good(n)
  <2> HIDE DEF Good
  <2> QED BY <1>1, <1>8
<1>10. F(n) = M!FoldLeft(M!Ran, start, body)
  BY <1>5 DEF F, DidAll
<1> QED BY <1>1, <1>4, <1>5, <1>9, <1>10

LEMMA SetMachine ==
  ASSUME NEW x, NEW s, NEW w, NEW o, x = [stack |-> s, world |-> w, ok |-> o], NEW t
  PROVE  /\ [x EXCEPT !.stack = t] = [stack |-> t, world |-> w, ok |-> o]
         /\ [x EXCEPT !.ok = t] = [stack |-> s, world |-> w, ok |-> t]
OBVIOUS

LEMMA SetWorld ==
  ASSUME NEW x, NEW s, NEW w, NEW o, x = [stack |-> s, world |-> w, ok |-> o], NEW t
  PROVE  [x EXCEPT !.world = t] = [stack |-> s, world |-> t, ok |-> o]
OBVIOUS

\* What the call of a body does, beside the machine on any stack V as long as
\* the program's: what is pushed, the library and the outcome are the same, and
\* so is every value that was the same before in a variable out of its reach.
LEMMA CallsPush ==
  ASSUME NEW x, WellFormed(x), x.ok, NEW S, NEW body \in Seq(S),
         \A i \in 1..Len(body) : IsWord(body[i]), ~ MisreadsWithin(x, body),
         NEW T, NEW V \in Seq(T), Len(V) = Len(x.stack)
  PROVE  LET a == Behind(CallBody(x, body))
             m == M!Defined([stack |-> V, world |-> x.world, ok |-> TRUE], body)
         IN  /\ a.world = m.world /\ a.ok = m.ok /\ Len(a.stack) = Len(m.stack)
             /\ \A i \in 1..Len(a.stack) :
                  (i \in 1..Len(V) => ~ x.stack[i] <= RunBody(x, body).counter
                                        /\ x.env[x.stack[i]] = V[i])
                    => a.stack[i] = m.stack[i]
<1> DEFINE b == RunBody(x, body)
           env == [i \in 1..x.counter |-> IF i <= b.counter THEN b.env[i] ELSE x.env[i]]
           y == [x EXCEPT !.world = b.world, !.env = env]
           v == Returned(b)
           u == Unknown
           m0 == [stack |-> V, world |-> x.world, ok |-> TRUE]
           start == [stack |-> << >>, world |-> x.world, ok |-> TRUE]
           mb == M!FoldLeft(M!Ran, start, body)
           mv == IF Len(mb.stack) = 1 THEN mb.stack[1]
                 ELSE Outcome("TABLE", mb.stack, mb.world).value
           a == Behind(CallBody(x, body))
           m == M!Defined(m0, body)
           d == Len(x.stack)
<1>1. WellFormed(b) /\ Behind(b) = mb
  BY BodyRuns
<1>2. CallBody(x, body) = IF b.ok THEN NewVar(y, v, u) ELSE [x EXCEPT !.ok = FALSE]
  BY DEF CallBody
<1>3. m = IF mb.ok THEN [mb EXCEPT !.stack = Append(V, mv)] ELSE [m0 EXCEPT !.ok = FALSE]
  <2>1. [m0 EXCEPT !.stack = << >>] = start /\ m0.stack = V
    <3> DEFINE e == << >>
               yes == TRUE
    <3>1. m0 = [stack |-> V, world |-> x.world, ok |-> yes]
      OBVIOUS
    <3>2. start = [stack |-> e, world |-> x.world, ok |-> yes]
      OBVIOUS
    <3>3. m0.stack = V
      OBVIOUS
    <3> HIDE DEF m0, start, e, yes
    <3>4. [m0 EXCEPT !.stack = e] = [stack |-> e, world |-> x.world, ok |-> yes]
      BY <3>1, SetMachine
    <3> QED BY <3>2, <3>3, <3>4 DEF e
  <2> HIDE DEF m0, start
  <2> QED BY <2>1 DEF M!Defined
<1> HIDE DEF b, mb
<1>4. /\ mb.stack = Values(b) /\ mb.world = b.world /\ mb.ok = b.ok
      /\ mb = [stack |-> mb.stack, world |-> mb.world, ok |-> mb.ok]
      /\ b.ok \in BOOLEAN /\ x.ok = TRUE /\ d \in Nat /\ Len(V) = d
  BY <1>1, ValuesAreASequence DEF Behind, WellFormed
<1>5. mv = v
  <2>1. Len(Values(b)) = Len(b.stack)
        /\ \A i \in 1..Len(b.stack) : Values(b)[i] = b.env[b.stack[i]]
    BY <1>1, ValuesAreASequence
  <2>2. CASE Len(b.stack) = 1
    <3>1. 1 \in 1..Len(b.stack)
      BY <2>2
    <3> QED BY <1>4, <2>1, <2>2, <3>1 DEF Returned
  <2>3. CASE Len(b.stack) # 1
    BY <1>4, <2>1, <2>3 DEF Returned
  <2> QED BY <2>2, <2>3
<1>6. CASE ~ b.ok
  <2>1. a.stack = Values(x) /\ a.world = x.world /\ a.ok = FALSE
    BY <1>2, <1>6, FailureIsFree DEF Behind
  <2>2. m.stack = V /\ m.world = x.world /\ m.ok = FALSE
    BY <1>3, <1>4, <1>6
  <2> HIDE DEF a, m
  <2>3. Len(Values(x)) = d /\ \A i \in 1..d : Values(x)[i] = x.env[x.stack[i]]
    BY ValuesAreASequence
  <2> QED BY <1>4, <2>1, <2>2, <2>3 DEF a, m
<1>7. CASE b.ok
  <2>1. /\ DOMAIN y = DOMAIN x /\ y.stack = x.stack /\ y.counter = x.counter
        /\ y.known = x.known /\ y.env = env /\ y.ok = x.ok /\ y.world = b.world
    BY DEF WellFormed
  <2>2. WellFormed(y)
    <3>1. DOMAIN env = 1..x.counter
      OBVIOUS
    <3> HIDE DEF y, env
    <3> QED  BY <2>1, <3>1 DEF WellFormed
  <2>3. /\ Values(y) \in Seq(Held(y, {v})) /\ Len(Values(y)) = d
        /\ \A i \in 1..d : Values(y)[i] = y.env[x.stack[i]]
    <3> HIDE DEF y, v
    <3>1. /\ Values(y) \in Seq(Held(y, {v})) /\ Len(Values(y)) = Len(y.stack)
          /\ \A i \in 1..Len(y.stack) : Values(y)[i] = y.env[y.stack[i]]
      BY <2>2, ValuesAreASequence
    <3> QED BY <2>1, <3>1
  <2>4. \A i \in 1..d : ~ x.stack[i] <= b.counter => y.env[x.stack[i]] = x.env[x.stack[i]]
    <3>1. \A i \in 1..d : x.stack[i] \in 1..x.counter
      BY ValuesAreASequence
    <3>2. \A i \in 1..d : ~ x.stack[i] <= b.counter => env[x.stack[i]] = x.env[x.stack[i]]
      BY <3>1
    <3> HIDE DEF y, env
    <3> QED BY <2>1, <3>2
  <2>5. u \in Nat \cup {Unknown}
    OBVIOUS
  <2> HIDE DEF y, env, v, u, mv
  <2>6. a.stack = Append(Values(y), v) /\ a.world = b.world /\ a.ok = TRUE
    <3> DEFINE nv == NewVar(y, v, u)
    <3>1. CallBody(x, body) = nv
      BY <1>2, <1>7
    <3>2. Values(nv) = Append(Values(y), v) /\ nv.world = y.world /\ nv.ok = y.ok
      BY <2>2, <2>5, NewVarValues
    <3> HIDE DEF nv
    <3>3. a.stack = Values(nv) /\ a.world = nv.world /\ a.ok = nv.ok
      BY <3>1 DEF Behind
    <3> HIDE DEF a
    <3> QED BY <1>4, <2>1, <3>2, <3>3
  <2>7. m.stack = Append(V, v) /\ m.world = b.world /\ m.ok = TRUE
    <3> DEFINE A == Append(V, mv)
    <3> HIDE DEF A
    <3>1. [mb EXCEPT !.stack = A] = [stack |-> A, world |-> mb.world, ok |-> mb.ok]
      BY <1>4, SetMachine
    <3>2. m = [mb EXCEPT !.stack = A]
      BY <1>3, <1>4, <1>7 DEF A
    <3> HIDE DEF m
    <3> QED BY <1>4, <1>5, <1>7, <3>1, <3>2 DEF A
  <2> HIDE DEF a, m
  <2>8. /\ Len(a.stack) = d + 1 /\ a.stack[d + 1] = v
        /\ \A i \in 1..d : a.stack[i] = y.env[x.stack[i]]
    <3>1. v \in Held(y, {v})
      BY DEF Held
    <3> QED BY <1>4, <2>3, <2>6, <3>1, AppendProperties
  <2>9. Len(m.stack) = d + 1 /\ m.stack[d + 1] = v /\ \A i \in 1..d : m.stack[i] = V[i]
    <3>1. V \in Seq(T \cup {v}) /\ v \in T \cup {v}
      BY SeqMonotonic
    <3> QED BY <1>4, <2>7, <3>1, AppendProperties
  <2>10. \A i \in 1..(d + 1) : i \in 1..d \/ i = d + 1
    BY <1>4
  <2> QED BY <1>4, <2>4, <2>6, <2>7, <2>8, <2>9, <2>10 DEF a, m, b
<1> QED BY <1>6, <1>7

\* The same of a definition, which first assigns the global of its name.
LEMMA DefineStep ==
  ASSUME LoweringInv
  PROVE  \A d \in Definable :
           Define(d) /\ ~ MisreadsWithin(FunctionNamed(c, d.name), d.body) =>
             SameBut(Machine',
                     M!Defined([Machine EXCEPT !.world = Assigned(d.name, c.world)], d.body),
                     Overwritten(c, d.name, d.body))
<1> SUFFICES ASSUME NEW d \in Definable, Define(d),
                    ~ MisreadsWithin(FunctionNamed(c, d.name), d.body)
             PROVE  SameBut(Machine',
                            M!Defined([Machine EXCEPT !.world = Assigned(d.name, c.world)], d.body),
                            Overwritten(c, d.name, d.body))
  OBVIOUS
<1> DEFINE name == d.name
           body == d.body
           z == FunctionNamed(c, name)
           V == Values(c)
           m0 == [stack |-> V, world |-> z.world, ok |-> TRUE]
           a == Behind(CallBody(z, body))
           m == M!Defined(m0, body)
<1>1. WellFormed(c) /\ c.ok = TRUE
  BY DEF LoweringInv, Define, Running, WellFormed
<1>2. body \in Seq(ToSet(body)) /\ \A t \in ToSet(body) : IsWord(t)
  BY BodiesAreWords
<1>3. \A i \in 1..Len(body) : IsWord(body[i])
  <2> HIDE DEF body
  <2> QED BY <1>2, ElementOfSeq
<1>4. /\ WellFormed(z) /\ z.stack = c.stack /\ z.ok = TRUE /\ z.world = Assigned(name, c.world)
      /\ \A i \in 1..c.counter : i # VariableNamed(name) => z.env[i] = c.env[i]
  BY <1>1, FunctionIsWellFormed
<1>5. /\ Values(c) \in Seq(Held(c, {})) /\ Len(Values(c)) = Len(c.stack)
      /\ \A i \in 1..Len(c.stack) : Values(c)[i] = c.env[c.stack[i]] /\ c.stack[i] \in 1..c.counter
  BY <1>1, ValuesAreASequence
<1>6. Machine' = a
  BY DEF Machine, Behind, Values, Define, Defined
<1>7. [Machine EXCEPT !.world = Assigned(name, c.world)] = m0
  <2> DEFINE w == Assigned(name, c.world)
  <2>1. Machine = [stack |-> V, world |-> c.world, ok |-> c.ok]
    BY DEF Machine
  <2>2. z.world = w
    BY <1>4
  <2> HIDE DEF w, z, V
  <2>3. [Machine EXCEPT !.world = w] = [stack |-> V, world |-> w, ok |-> c.ok]
    BY <2>1, SetWorld
  <2>4. [stack |-> V, world |-> w, ok |-> c.ok] = m0
    BY <1>1, <2>2
  <2> QED BY <2>3, <2>4 DEF w
<1>8. ~ MisreadsWithin(z, body)
  OBVIOUS
<1>9. Overwritten(c, name, body)
        = {i \in 1..Len(c.stack) : c.stack[i] = VariableNamed(name)
                                     \/ c.stack[i] <= RunBody(z, body).counter}
  BY DEF Overwritten
<1> HIDE DEF z, name, body, V
<1>10. /\ a.world = m.world /\ a.ok = m.ok /\ Len(a.stack) = Len(m.stack)
       /\ \A i \in 1..Len(a.stack) :
            (i \in 1..Len(V) => ~ z.stack[i] <= RunBody(z, body).counter
                                  /\ z.env[z.stack[i]] = V[i])
              => a.stack[i] = m.stack[i]
  <2>1. V \in Seq(Held(c, {})) /\ Len(V) = Len(z.stack)
    BY <1>4, <1>5 DEF V
  <2>2. body \in Seq(ToSet(body)) /\ WellFormed(z) /\ z.ok
    BY <1>2, <1>4
  <2> HIDE DEF m0
  <2>3. m0 = [stack |-> V, world |-> z.world, ok |-> TRUE]
    BY DEF m0
  <2> HIDE DEF a, m
  <2>4. a = Behind(CallBody(z, body)) /\ m = M!Defined(m0, body)
    BY DEF a, m
  <2> QED BY <1>3, <1>8, <2>1, <2>2, <2>3, <2>4, CallsPush
<1> HIDE DEF a, m
<1>11. \A i \in 1..Len(a.stack) : i \notin Overwritten(c, name, body) => a.stack[i] = m.stack[i]
  BY <1>4, <1>5, <1>9, <1>10 DEF V
<1>12. SameBut(a, m, Overwritten(c, name, body))
  BY <1>10, <1>11 DEF SameBut
<1> QED BY <1>6, <1>7, <1>12 DEF m, name, body

\* A definition runs its body once, on a stack of its own, and pushes what it
\* leaves (lower_lua.rs, `: name ... ;`), in every program, for bodies of any
\* length and any name; of the values the program holds it changes only those
\* in variables the body counts up to, or in the one of its name.
THEOREM CompiledDefinitionsPush == Spec => DefinitionsPush
<1> DEFINE W == \A d \in Definable :
                  Define(d) /\ ~ MisreadsWithin(FunctionNamed(c, d.name), d.body) =>
                    SameBut(Machine',
                            M!Defined([Machine EXCEPT !.world = Assigned(d.name, c.world)], d.body),
                            Overwritten(c, d.name, d.body))
<1>1. ASSUME LoweringInv PROVE W
  BY <1>1, DefineStep
<1>2. Spec => []LoweringInv
  BY LoweringTypes
<1>3. DefinitionsPush <=> [][c' # c => W]_c
  BY DEF DefinitionsPush
<1> HIDE DEF W
<1> QED  BY <1>1, <1>2, <1>3, PTL

=============================================================================
