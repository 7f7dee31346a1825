-------------------------- MODULE PipelineProofs --------------------------
(***************************************************************************)
(* What the metadata file says of the commits, for every set of processes, *)
(* files and texts; and, where no two processes run at once, that it is    *)
(* whole at every moment and never forgets.                                *)
(*                                                                         *)
(* A key travels from the working tree into a process's copy, into the     *)
(* temporary file, into the metadata file, into the next process's copy.   *)
(* The invariant says the same of each stop: every record is fresh.        *)
(***************************************************************************)
EXTENDS Pipeline, TLAPS

Dated(l, t) == \A i \in DOMAIN l : \A f \in File : l[i].at[f] <= Len(t[f])

\* AsNew, of a given history l and given texts t.
Fresh(l, t, h, ks) ==
  /\ h \in DOMAIN l
  /\ \A f \in DOMAIN ks :
       \E n \in 1 .. Len(t[f]) : n >= l[h].at[f] /\ KeyOf[t[f][n]] = ks[f]

Good(l, t) ==
  {m \in Metadata : \A i \in DOMAIN m.commits :
                       Fresh(l, t, m.commits[i].hash, m.commits[i].file_keys)}

GoodFile(l, t) == [body : Good(l, t) \cup {Partial}, writers : SUBSET Process]

RepoInv ==
  /\ texts \in [File -> Seq(Content)]
  /\ present \subseteq {f \in File : texts[f] # <<>>}
  /\ log \in Seq(LogEntry)
  /\ Dated(log, texts)

RunInv ==
  /\ runs \in 0 .. MaxRuns
  /\ pc \in [Process -> {"idle", "ingest", "write", "replace"}]
  /\ job \in [Process -> 0 .. Len(log)]
  /\ todo \in [Process -> SUBSET File]
  /\ meta \in [Process -> Good(log, texts)]
  /\ keys \in [Process -> Keyed(Key)]
  /\ \A p \in Process : job[p] # 0 => Fresh(log, texts, job[p], keys[p])

DiskInv ==
  /\ json \in GoodFile(log, texts) \cup {Absent}
  /\ tmp \in GoodFile(log, texts) \cup {Absent}

PipelineInv == RepoInv /\ RunInv /\ DiskInv

-----------------------------------------------------------------------------
\* One more entry in a map from files.
LEMMA Overlay ==
  ASSUME NEW S, NEW g \in Keyed(S), NEW f \in File, NEW k \in S
  PROVE  /\ With(g, f, k) \in Keyed(S)
         /\ DOMAIN With(g, f, k) = DOMAIN g \cup {f}
         /\ With(g, f, k)[f] = k
         /\ \A x \in DOMAIN g : x # f => With(g, f, k)[x] = g[x]
<1> DEFINE h == With(g, f, k)
<1>1. h = [x \in DOMAIN g \cup {f} |-> IF x = f THEN k ELSE g[x]]
  BY DEF With
<1>2. PICK D \in SUBSET File : g \in [D -> S]
  BY DEF Keyed
<1>3. h \in [D \cup {f} -> S]
  BY <1>1, <1>2
<1>4. h \in Keyed(S)
  BY <1>3 DEF Keyed
<1> QED BY <1>1, <1>4

\* A map without entries.
LEMMA EmptyKeyed == ASSUME NEW S PROVE <<>> \in Keyed(S)
<1>1. <<>> \in [{} -> S]
  OBVIOUS
<1> QED BY <1>1 DEF Keyed

LEMMA NewMetadataGood == ASSUME NEW l, NEW t PROVE NewMetadata \in Good(l, t)
  BY EmptyKeyed DEF NewMetadata, Good, Metadata

-----------------------------------------------------------------------------
\* The histories only grow, and what is fresh stays so.
Grown(l, t, l2, t2) ==
  /\ DOMAIN l \subseteq DOMAIN l2
  /\ \A i \in DOMAIN l : l2[i] = l[i]
  /\ \A f \in File : /\ Len(t[f]) \in Nat /\ Len(t2[f]) \in Nat /\ Len(t[f]) <= Len(t2[f])
                     /\ \A n \in 1 .. Len(t[f]) : t2[f][n] = t[f][n]

LEMMA FreshGrows ==
  ASSUME NEW l, NEW t, NEW l2, NEW t2, Grown(l, t, l2, t2),
         NEW h, NEW ks \in Keyed(Key), Fresh(l, t, h, ks)
  PROVE  Fresh(l2, t2, h, ks)
<1>1. h \in DOMAIN l2 /\ l2[h] = l[h]
  BY DEF Fresh, Grown
<1>2. ASSUME NEW f \in DOMAIN ks
      PROVE  \E n \in 1 .. Len(t2[f]) : n >= l2[h].at[f] /\ KeyOf[t2[f][n]] = ks[f]
  <2>1. f \in File
    BY DEF Keyed
  <2>2. PICK n \in 1 .. Len(t[f]) : n >= l[h].at[f] /\ KeyOf[t[f][n]] = ks[f]
    BY DEF Fresh
  <2>3. n \in 1 .. Len(t2[f]) /\ t2[f][n] = t[f][n]
    BY <2>1, <2>2 DEF Grown
  <2> QED BY <1>1, <2>2, <2>3
<1> QED BY <1>1, <1>2 DEF Fresh

LEMMA GoodGrows ==
  ASSUME NEW l, NEW t, NEW l2, NEW t2, Grown(l, t, l2, t2)
  PROVE  /\ Good(l, t) \subseteq Good(l2, t2)
         /\ GoodFile(l, t) \subseteq GoodFile(l2, t2)
<1>1. ASSUME NEW m \in Good(l, t) PROVE m \in Good(l2, t2)
  <2>1. m \in Metadata
    BY DEF Good
  <2>2. ASSUME NEW i \in DOMAIN m.commits
        PROVE  Fresh(l2, t2, m.commits[i].hash, m.commits[i].file_keys)
    <3>1. Fresh(l, t, m.commits[i].hash, m.commits[i].file_keys)
      BY DEF Good
    <3>2. m.commits \in Seq(CommitRecord)
      BY <2>1 DEF Metadata
    <3>3. m.commits[i] \in CommitRecord
      BY <3>2
    <3>4. m.commits[i].file_keys \in Keyed(Key)
      BY <3>3 DEF CommitRecord
    <3> QED BY <3>1, <3>4, FreshGrows
  <2> QED BY <2>1, <2>2 DEF Good
<1> QED BY <1>1 DEF GoodFile

\* Whatever happens in the repository, the processes and the disk are unmoved.
LEMMA RepoStepKeeps ==
  ASSUME PipelineInv, RepoInv', Grown(log, texts, log', texts'),
         UNCHANGED <<runs, procVars, diskVars>>
  PROVE  PipelineInv'
<1>1. /\ runs' = runs /\ pc' = pc /\ job' = job /\ todo' = todo /\ meta' = meta
      /\ keys' = keys /\ json' = json /\ tmp' = tmp
  BY DEF procVars, diskVars
<1>2. /\ Good(log, texts) \subseteq Good(log, texts)'
      /\ GoodFile(log, texts) \subseteq GoodFile(log, texts)'
  BY GoodGrows
<1>3. Len(log) \in Nat /\ Len(log') \in Nat /\ Len(log) <= Len(log')
  <2>1. DOMAIN log = 1 .. Len(log) /\ DOMAIN log' = 1 .. Len(log')
    BY DEF PipelineInv, RepoInv
  <2>2. Len(log) \in Nat /\ Len(log') \in Nat
    BY DEF PipelineInv, RepoInv
  <2>3. 1 .. Len(log) \subseteq 1 .. Len(log')
    BY <2>1 DEF Grown
  <2> QED BY <2>2, <2>3
<1>4. \A p \in Process : job'[p] # 0 => Fresh(log', texts', job'[p], keys'[p])
  BY <1>1, FreshGrows DEF PipelineInv, RunInv
<1>5. job' \in [Process -> 0 .. Len(log')]
  <2>1. 0 .. Len(log) \subseteq 0 .. Len(log')
    BY <1>3
  <2> QED BY <1>1, <2>1 DEF PipelineInv, RunInv
<1>6. meta' \in [Process -> Good(log, texts)']
  BY <1>1, <1>2 DEF PipelineInv, RunInv
<1>7. RunInv'
  BY <1>1, <1>4, <1>5, <1>6 DEF PipelineInv, RunInv
<1>8. DiskInv'
  BY <1>1, <1>2 DEF PipelineInv, DiskInv
<1> QED BY <1>7, <1>8 DEF PipelineInv

\* A file gets one more text.
LEMMA NewTextKeeps ==
  ASSUME PipelineInv, NEW f \in File, NEW c \in Content,
         texts' = [texts EXCEPT ![f] = Append(@, c)],
         present' \subseteq present \cup {f}, log' = log,
         UNCHANGED <<runs, procVars, diskVars>>
  PROVE  PipelineInv'
<1>1. RepoInv
  BY DEF PipelineInv
<1>2. texts' \in [File -> Seq(Content)]
  BY <1>1 DEF RepoInv
<1>3. \A g \in File : /\ Len(texts[g]) \in Nat /\ Len(texts'[g]) \in Nat
                      /\ Len(texts[g]) <= Len(texts'[g])
                      /\ \A n \in 1 .. Len(texts[g]) : texts'[g][n] = texts[g][n]
                      /\ texts[g] # <<>> \/ g = f => texts'[g] # <<>>
  <2> TAKE g \in File
  <2> DEFINE q == texts[g]
  <2>0. q \in Seq(Content)
    BY <1>1 DEF RepoInv
  <2>1. CASE g = f
    <3>1. texts'[g] = Append(q, c)
      BY <1>1, <2>1 DEF RepoInv
    <3> HIDE DEF q
    <3>2. /\ Len(q) \in Nat /\ Len(Append(q, c)) = Len(q) + 1
          /\ \A n \in 1 .. Len(q) : Append(q, c)[n] = q[n]
          /\ Append(q, c) # <<>>
      BY <2>0
    <3> QED BY <3>1, <3>2 DEF q
  <2>2. CASE g # f
    BY <1>1, <2>2 DEF RepoInv
  <2> QED BY <2>1, <2>2
<1>4. present' \subseteq {g \in File : texts'[g] # <<>>}
  BY <1>1, <1>3 DEF RepoInv
<1>5. Grown(log, texts, log', texts')
  BY <1>3 DEF Grown
<1>6. Dated(log', texts')
  <2> SUFFICES ASSUME NEW i \in DOMAIN log, NEW g \in File
               PROVE  log[i].at[g] <= Len(texts'[g])
    BY DEF Dated
  <2>1. log[i].at[g] \in Nat
    <3>1. log[i] \in LogEntry
      BY <1>1 DEF RepoInv
    <3> QED BY <3>1 DEF LogEntry
  <2>2. log[i].at[g] <= Len(texts[g])
    BY <1>1 DEF RepoInv, Dated
  <2> QED BY <1>3, <2>1, <2>2
<1>7. RepoInv'
  BY <1>1, <1>2, <1>4, <1>6 DEF RepoInv
<1> QED BY <1>5, <1>7, RepoStepKeeps

\* The text of a file in the working tree.
LEMMA TextOfPresent ==
  ASSUME RepoInv, NEW f \in present
  PROVE  /\ f \in File
         /\ Text(f) \in Content
         /\ Len(texts[f]) \in 1 .. Len(texts[f])
  BY DEF RepoInv, Text

LEMMA DeleteKeeps ==
  ASSUME PipelineInv, NEW f \in File, Delete(f)
  PROVE  PipelineInv'
<1>1. texts' = texts /\ log' = log /\ present' \subseteq present
  BY DEF Delete
<1>2. RepoInv'
  BY <1>1 DEF PipelineInv, RepoInv
<1>3. Grown(log, texts, log', texts')
  BY <1>1 DEF PipelineInv, RepoInv, Grown
<1> QED BY <1>2, <1>3, RepoStepKeeps DEF Delete

\* A commit dates every file no later than its latest text.
LEMMA CommitKeeps ==
  ASSUME PipelineInv, NEW S \in SUBSET File, Commit(S)
  PROVE  PipelineInv'
<1> DEFINE tree == [f \in (S \cap present) \cup (DOMAIN HeadTree \ S) |->
                      IF f \in S THEN Text(f) ELSE HeadTree[f]]
           was(f) == IF log = <<>> THEN 0 ELSE log[Len(log)].at[f]
           at == [f \in File |-> IF f \in S THEN Len(texts[f]) ELSE was(f)]
           e == [tree |-> tree, at |-> at]
<1>1. log' = Append(log, e) /\ texts' = texts /\ present' = present
  BY DEF Commit
<1>2. RepoInv
  BY DEF PipelineInv
<1>3. log \in Seq(LogEntry) /\ \A f \in File : texts[f] \in Seq(Content)
  BY <1>2 DEF RepoInv
<1>4. log # <<>> => Len(log) \in DOMAIN log /\ log[Len(log)] \in LogEntry
  BY <1>3
<1>5. HeadTree \in Keyed(Content)
  BY <1>4, EmptyKeyed DEF HeadTree, LogEntry
<1>6. tree \in Keyed(Content)
  <2>1. PICK D \in SUBSET File : HeadTree \in [D -> Content]
    BY <1>5 DEF Keyed
  <2>2. \A f \in S \cap present : Text(f) \in Content
    BY <1>2, TextOfPresent
  <2>3. tree \in [(S \cap present) \cup (D \ S) -> Content]
    BY <2>1, <2>2
  <2> QED BY <2>3 DEF Keyed
<1>7. \A f \in File : at[f] \in Nat /\ at[f] <= Len(texts[f])
  <2> TAKE f \in File
  <2>1. Len(texts[f]) \in Nat
    BY <1>3
  <2>2. was(f) \in Nat /\ was(f) <= Len(texts[f])
    BY <1>2, <1>4, <2>1 DEF RepoInv, Dated, LogEntry
  <2> QED BY <2>1, <2>2
<1>8. e \in LogEntry /\ e.at = at
  BY <1>6, <1>7 DEF LogEntry
<1> HIDE DEF e, at, tree, was
<1>9. /\ log' \in Seq(LogEntry)
      /\ Len(log) \in Nat
      /\ DOMAIN log = 1 .. Len(log)
      /\ DOMAIN log' = 1 .. Len(log) + 1
      /\ \A i \in 1 .. Len(log) : log'[i] = log[i]
      /\ log'[Len(log) + 1] = e
  BY <1>1, <1>3, <1>8
<1>10. Grown(log, texts, log', texts')
  BY <1>1, <1>3, <1>9 DEF Grown
<1>11. Dated(log', texts')
  <2> SUFFICES ASSUME NEW i \in 1 .. Len(log) + 1, NEW f \in File
               PROVE  log'[i].at[f] <= Len(texts[f])
    BY <1>1, <1>9 DEF Dated
  <2>1. CASE i \in 1 .. Len(log)
    BY <1>2, <1>9, <2>1 DEF RepoInv, Dated
  <2>2. CASE i = Len(log) + 1
    BY <1>7, <1>8, <1>9, <2>2
  <2> QED BY <1>9, <2>1, <2>2
<1>12. RepoInv'
  BY <1>1, <1>2, <1>9, <1>11 DEF RepoInv
<1> QED BY <1>10, <1>12, RepoStepKeeps DEF Commit

-----------------------------------------------------------------------------
\* The processes leave the histories alone: the files and the copies stay good.
LEMMA ProcessStepKeeps ==
  ASSUME PipelineInv, UNCHANGED repoVars,
         runs' \in 0 .. MaxRuns,
         pc' \in [Process -> {"idle", "ingest", "write", "replace"}],
         job' \in [Process -> 0 .. Len(log)],
         todo' \in [Process -> SUBSET File],
         meta' \in [Process -> Good(log, texts)],
         keys' \in [Process -> Keyed(Key)],
         \A p \in Process : job'[p] # 0 => Fresh(log, texts, job'[p], keys'[p]),
         json' \in GoodFile(log, texts) \cup {Absent},
         tmp' \in GoodFile(log, texts) \cup {Absent}
  PROVE  PipelineInv'
<1>1. texts' = texts /\ present' = present /\ log' = log
  BY DEF repoVars
<1> QED BY <1>1 DEF PipelineInv, RepoInv, RunInv, DiskInv

LEMMA LoadedGood ==
  ASSUME DiskInv, json = Absent \/ Readable(json)
  PROVE  Loaded \in Good(log, texts)
<1>1. CASE json = Absent
  BY <1>1, NewMetadataGood DEF Loaded
<1>2. CASE json # Absent
  <2>1. json \in GoodFile(log, texts) /\ json.body # Partial
    BY <1>2 DEF DiskInv, Readable
  <2> QED BY <1>2, <2>1 DEF Loaded, GoodFile
<1> QED BY <1>1, <1>2

LEMMA StartKeeps ==
  ASSUME PipelineInv, NEW p \in Process, NEW c \in 0 .. Len(log), NEW S \in SUBSET File,
         Start(p, c, S)
  PROVE  PipelineInv'
<1>1. /\ runs < MaxRuns
      /\ runs' = runs + 1
      /\ pc' = [pc EXCEPT ![p] = "ingest"]
      /\ job' = [job EXCEPT ![p] = c]
      /\ todo' = [todo EXCEPT ![p] = S]
      /\ meta' = [meta EXCEPT ![p] = Loaded]
      /\ keys' = [keys EXCEPT ![p] = <<>>]
      /\ json' = json /\ tmp' = tmp /\ UNCHANGED repoVars
  BY DEF Start, diskVars
<1>2. Loaded \in Good(log, texts)
  BY LoadedGood DEF Start, PipelineInv
<1>3. <<>> \in Keyed(Key)
  BY EmptyKeyed
<1>4. c # 0 => Fresh(log, texts, c, <<>>)
  <2>1. DOMAIN log = 1 .. Len(log) /\ Len(log) \in Nat
    BY DEF PipelineInv, RepoInv
  <2> QED BY <2>1 DEF Fresh
<1>5. runs' \in 0 .. MaxRuns
  BY <1>1, BoundsAreNats DEF PipelineInv, RunInv
<1>6. \A q \in Process : job'[q] # 0 => Fresh(log, texts, job'[q], keys'[q])
  BY <1>1, <1>4 DEF PipelineInv, RunInv
<1>7. meta' \in [Process -> Good(log, texts)] /\ keys' \in [Process -> Keyed(Key)]
  BY <1>1, <1>2, <1>3 DEF PipelineInv, RunInv
<1>8. /\ pc' \in [Process -> {"idle", "ingest", "write", "replace"}]
      /\ job' \in [Process -> 0 .. Len(log)]
      /\ todo' \in [Process -> SUBSET File]
  BY <1>1 DEF PipelineInv, RunInv
<1> QED BY <1>1, <1>5, <1>6, <1>7, <1>8, ProcessStepKeeps DEF PipelineInv, DiskInv

\* A file is dealt with, and what its record becomes is fresh.
LEMMA DoneWithKeeps ==
  ASSUME PipelineInv, NEW p \in Process, NEW f \in File,
         NEW files \in Keyed(Key \cup {NoKey}), NEW ks \in Keyed(Key),
         job[p] # 0 => Fresh(log, texts, job[p], ks),
         DoneWith(p, f, files, ks)
  PROVE  PipelineInv'
<1> DEFINE m == [meta[p] EXCEPT !.files = files]
<1>1. /\ todo' = [todo EXCEPT ![p] = @ \ {f}]
      /\ meta' = [meta EXCEPT ![p] = m]
      /\ keys' = [keys EXCEPT ![p] = IF job[p] = 0 THEN @ ELSE ks]
      /\ runs' = runs /\ pc' = pc /\ job' = job
      /\ json' = json /\ tmp' = tmp /\ UNCHANGED repoVars
  BY DEF DoneWith, diskVars
<1>2. RunInv
  BY DEF PipelineInv
<1>3. m \in Good(log, texts)
  <2>1. meta[p] \in Good(log, texts)
    BY <1>2 DEF RunInv
  <2>2. meta[p] \in Metadata
    BY <2>1 DEF Good
  <2>3. m \in Metadata /\ m.commits = meta[p].commits
    BY <2>2 DEF Metadata
  <2> QED BY <2>1, <2>3 DEF Good
<1> HIDE DEF m
<1>4. meta' \in [Process -> Good(log, texts)]
  BY <1>1, <1>2, <1>3 DEF RunInv
<1>5. keys' \in [Process -> Keyed(Key)]
  BY <1>1, <1>2 DEF RunInv
<1>6. \A q \in Process : job'[q] # 0 => Fresh(log, texts, job'[q], keys'[q])
  BY <1>1, <1>2 DEF RunInv
<1>7. todo' \in [Process -> SUBSET File]
  BY <1>1, <1>2 DEF RunInv
<1> QED BY <1>1, <1>2, <1>4, <1>5, <1>6, <1>7, ProcessStepKeeps DEF PipelineInv, RunInv, DiskInv

\* The four ends the handler of one file can come to.
LEMMA IngestFileKeeps ==
  ASSUME PipelineInv, NEW p \in Process, IngestFile(p)
  PROVE  PipelineInv'
<1>1. /\ RepoInv /\ RunInv
      /\ \A f \in present : f \in File
  BY DEF PipelineInv, RepoInv
<1>2. PICK f \in todo[p] : PassOver(p, f) \/ IngestBlank(p, f) \/ IngestText(p, f) \/ Fail(p, f)
  BY DEF IngestFile
<1>3. f \in File
  BY <1>1, <1>2 DEF RunInv
<1>4. meta[p].files \in Keyed(Key \cup {NoKey})
  <2>1. meta[p] \in Metadata
    BY <1>1 DEF RunInv, Good
  <2> QED BY <2>1 DEF Metadata
<1>5. keys[p] \in Keyed(Key) /\ (job[p] # 0 => Fresh(log, texts, job[p], keys[p]))
  BY <1>1 DEF RunInv
<1>6. CASE PassOver(p, f)
  BY <1>3, <1>4, <1>5, <1>6, DoneWithKeeps DEF PassOver
<1>7. CASE IngestBlank(p, f)
  <2>1. With(meta[p].files, f, NoKey) \in Keyed(Key \cup {NoKey})
    BY <1>3, <1>4, Overlay
  <2> QED BY <1>3, <1>5, <1>7, <2>1, DoneWithKeeps DEF IngestBlank, Blank
<1>8. CASE IngestText(p, f)
  <2> DEFINE k == KeyOf[Text(f)]
             n == Len(texts[f])
             ks == With(keys[p], f, k)
  <2>1. /\ k \in Key /\ f \in present
        /\ DoneWith(p, f, With(meta[p].files, f, k), ks)
    BY <1>8 DEF IngestText, FileKey
  <2>2. n \in 1 .. Len(texts[f]) /\ KeyOf[texts[f][n]] = k
    BY <1>1, <2>1, TextOfPresent DEF Text
  <2>3. With(meta[p].files, f, k) \in Keyed(Key \cup {NoKey})
    BY <1>3, <1>4, <2>1, Overlay
  <2>4. /\ ks \in Keyed(Key)
        /\ DOMAIN ks = DOMAIN keys[p] \cup {f}
        /\ ks[f] = k
        /\ \A x \in DOMAIN keys[p] : x # f => ks[x] = keys[p][x]
    <3>1. keys[p] \in Keyed(Key) /\ k \in Key
      BY <1>5, <2>1
    <3> HIDE DEF k
    <3>2. ks \in Keyed(Key)
      BY <1>3, <3>1, Overlay
    <3>3. DOMAIN ks = DOMAIN keys[p] \cup {f} /\ ks[f] = k
      BY DEF With
    <3>4. \A x \in DOMAIN keys[p] : x # f => ks[x] = keys[p][x]
      BY DEF With
    <3> QED BY <3>2, <3>3, <3>4
  <2>5. ASSUME job[p] # 0 PROVE Fresh(log, texts, job[p], ks)
    <3>1. Fresh(log, texts, job[p], keys[p])
      BY <1>5, <2>5
    <3>2. job[p] \in DOMAIN log
      BY <3>1 DEF Fresh
    <3>3. log[job[p]].at[f] \in Nat /\ n >= log[job[p]].at[f]
      <4>1. log[job[p]] \in LogEntry
        BY <1>1, <3>2 DEF RepoInv
      <4>2. log[job[p]].at[f] \in Nat
        BY <1>3, <4>1 DEF LogEntry
      <4>3. log[job[p]].at[f] <= n
        BY <1>1, <1>3, <3>2 DEF RepoInv, Dated
      <4> QED BY <2>2, <4>2, <4>3
    <3> HIDE DEF ks, k, n
    <3> QED BY <2>2, <2>4, <3>1, <3>2, <3>3 DEF Fresh
  <2> HIDE DEF ks, k, n
  <2> QED BY <1>3, <2>1, <2>3, <2>4, <2>5, DoneWithKeeps
<1>9. CASE Fail(p, f)
  BY <1>3, <1>4, <1>5, <1>9, DoneWithKeeps DEF Fail
<1> QED BY <1>2, <1>6, <1>7, <1>8, <1>9

-----------------------------------------------------------------------------
\* Files: opening, writing, closing and renaming.
LEMMA RecordedGood ==
  ASSUME RepoInv, RunInv, NEW p \in Process
  PROVE  Recorded(p) \in Good(log, texts)
<1> DEFINE r == [hash |-> job[p], file_keys |-> keys[p]]
           m == [meta[p] EXCEPT !.commits = Append(@, r)]
<1>1. meta[p] \in Good(log, texts) /\ meta[p] \in Metadata
  BY DEF RunInv, Good
<1>2. CASE job[p] = 0
  BY <1>1, <1>2 DEF Recorded
<1>3. CASE job[p] # 0
  <2>1. Fresh(log, texts, job[p], keys[p]) /\ job[p] \in Nat /\ keys[p] \in Keyed(Key)
    BY <1>3 DEF RunInv, RepoInv
  <2>2. r \in CommitRecord /\ Fresh(log, texts, r.hash, r.file_keys)
    BY <2>1 DEF CommitRecord
  <2>3. meta[p].commits \in Seq(CommitRecord)
    BY <1>1 DEF Metadata
  <2> HIDE DEF r
  <2>4. m \in Metadata /\ m.commits = Append(meta[p].commits, r)
    <3>1. Append(meta[p].commits, r) \in Seq(CommitRecord)
      BY <2>2, <2>3
    <3>2. m = [files |-> meta[p].files, commits |-> Append(meta[p].commits, r)]
      BY <1>1 DEF Metadata
    <3> QED BY <1>1, <3>1, <3>2 DEF Metadata
  <2>5. ASSUME NEW i \in DOMAIN m.commits
        PROVE  Fresh(log, texts, m.commits[i].hash, m.commits[i].file_keys)
    <3>1. \/ i \in DOMAIN meta[p].commits /\ m.commits[i] = meta[p].commits[i]
          \/ m.commits[i] = r
      BY <2>2, <2>3, <2>4
    <3> QED BY <1>1, <2>2, <3>1 DEF Good
  <2>6. Recorded(p) = m
    BY <1>3 DEF Recorded, r
  <2> QED BY <2>4, <2>5, <2>6 DEF Good
<1> QED BY <1>2, <1>3

LEMMA SaveKeeps ==
  ASSUME PipelineInv, NEW p \in Process, Save(p)
  PROVE  PipelineInv'
<1>1. /\ meta' = [meta EXCEPT ![p] = Recorded(p)]
      /\ tmp' = Opened(tmp, p)
      /\ pc' = [pc EXCEPT ![p] = "write"]
      /\ runs' = runs /\ job' = job /\ todo' = todo /\ keys' = keys
      /\ json' = json /\ UNCHANGED repoVars
  BY DEF Save
<1>2. Recorded(p) \in Good(log, texts)
  BY RecordedGood DEF PipelineInv
<1>3. tmp' \in GoodFile(log, texts)
  BY <1>1 DEF PipelineInv, DiskInv, Opened, GoodFile
<1>4. /\ meta' \in [Process -> Good(log, texts)]
      /\ pc' \in [Process -> {"idle", "ingest", "write", "replace"}]
  BY <1>1, <1>2 DEF PipelineInv, RunInv
<1> QED BY <1>1, <1>3, <1>4, ProcessStepKeeps DEF PipelineInv, RunInv, DiskInv

LEMMA WriteKeeps ==
  ASSUME PipelineInv, NEW p \in Process, Write(p)
  PROVE  PipelineInv'
<1>1. /\ pc' = [pc EXCEPT ![p] = "replace"]
      /\ runs' = runs /\ job' = job /\ todo' = todo /\ meta' = meta /\ keys' = keys
      /\ UNCHANGED repoVars
  BY DEF Write
<1>2. meta[p] \in Good(log, texts)
  BY DEF PipelineInv, RunInv
<1>3. ASSUME NEW x \in GoodFile(log, texts) \cup {Absent}, NEW y, x # Absent, p \in x.writers,
             \E b \in Outcomes(x, p) : y = [body |-> b, writers |-> x.writers \ {p}]
      PROVE  y \in GoodFile(log, texts)
  BY <1>2, <1>3 DEF Outcomes, GoodFile
<1>4. json' \in GoodFile(log, texts) \cup {Absent}
  BY <1>3 DEF Write, PipelineInv, DiskInv
<1>5. tmp' \in GoodFile(log, texts) \cup {Absent}
  BY <1>3 DEF Write, PipelineInv, DiskInv
<1>6. pc' \in [Process -> {"idle", "ingest", "write", "replace"}]
  BY <1>1 DEF PipelineInv, RunInv
<1> QED BY <1>1, <1>4, <1>5, <1>6, ProcessStepKeeps DEF PipelineInv, RunInv

\* A process that is gone has nothing to answer for.
LEMMA ExitKeeps ==
  ASSUME PipelineInv, NEW p \in Process, Exit(p), UNCHANGED <<repoVars, runs>>,
         json' \in GoodFile(log, texts) \cup {Absent},
         tmp' \in GoodFile(log, texts) \cup {Absent}
  PROVE  PipelineInv'
<1>1. /\ pc' = [pc EXCEPT ![p] = "idle"]
      /\ job' = [job EXCEPT ![p] = 0]
      /\ todo' = [todo EXCEPT ![p] = {}]
      /\ meta' = [meta EXCEPT ![p] = NewMetadata]
      /\ keys' = [keys EXCEPT ![p] = <<>>]
  BY DEF Exit
<1>2. NewMetadata \in Good(log, texts) /\ <<>> \in Keyed(Key) /\ Len(log) \in Nat
  BY NewMetadataGood, EmptyKeyed DEF PipelineInv, RepoInv
<1>3. /\ meta' \in [Process -> Good(log, texts)]
      /\ keys' \in [Process -> Keyed(Key)]
      /\ job' \in [Process -> 0 .. Len(log)]
      /\ todo' \in [Process -> SUBSET File]
      /\ pc' \in [Process -> {"idle", "ingest", "write", "replace"}]
  BY <1>1, <1>2 DEF PipelineInv, RunInv
<1>4. \A q \in Process : job'[q] # 0 => Fresh(log, texts, job'[q], keys'[q])
  BY <1>1 DEF PipelineInv, RunInv
<1> QED BY <1>3, <1>4, ProcessStepKeeps DEF PipelineInv, RunInv

LEMMA ReplaceKeeps ==
  ASSUME PipelineInv, NEW p \in Process, Replace(p)
  PROVE  PipelineInv'
<1>1. /\ json' \in GoodFile(log, texts) \cup {Absent}
      /\ tmp' \in GoodFile(log, texts) \cup {Absent}
  BY DEF Replace, diskVars, PipelineInv, DiskInv
<1> QED BY <1>1, ExitKeeps DEF Replace

LEMMA CrashKeeps ==
  ASSUME PipelineInv, NEW p \in Process, Crash(p)
  PROVE  PipelineInv'
<1>1. ASSUME NEW x \in GoodFile(log, texts) \cup {Absent}
      PROVE  Closed(x, p) \in GoodFile(log, texts) \cup {Absent}
  BY DEF Closed, GoodFile
<1>2. /\ json' \in GoodFile(log, texts) \cup {Absent}
      /\ tmp' \in GoodFile(log, texts) \cup {Absent}
  BY <1>1 DEF Crash, PipelineInv, DiskInv
<1> QED BY <1>2, ExitKeeps DEF Crash

-----------------------------------------------------------------------------
LEMMA InitPipelineInv == Init => PipelineInv
<1> SUFFICES ASSUME Init PROVE PipelineInv
  OBVIOUS
<1>1. RepoInv
  BY DEF Init, RepoInv, Dated
<1>2. NewMetadata \in Good(log, texts) /\ <<>> \in Keyed(Key)
  BY NewMetadataGood, EmptyKeyed
<1>3. RunInv
  BY <1>2, BoundsAreNats DEF Init, RunInv
<1>4. DiskInv
  BY DEF Init, DiskInv
<1> QED BY <1>1, <1>3, <1>4 DEF PipelineInv

\* The four ways a process is started.
LEMMA BeginKeeps ==
  ASSUME PipelineInv, NEW p \in Process, Begin(p)
  PROVE  PipelineInv'
<1>1. /\ present \subseteq File
      /\ log \in Seq(LogEntry) /\ Len(log) \in Nat /\ DOMAIN log = 1 .. Len(log)
  BY DEF PipelineInv, RepoInv
<1>2. CASE IngestCommit(p)
  <2>1. PICK c \in DOMAIN log : Start(p, c, Changed(c))
    BY <1>2 DEF IngestCommit
  <2>2. \A i \in DOMAIN log : DOMAIN log[i].tree \subseteq File
    <3> TAKE i \in DOMAIN log
    <3>1. log[i] \in LogEntry
      BY <1>1
    <3>2. log[i].tree \in Keyed(Content)
      BY <3>1 DEF LogEntry
    <3> QED BY <3>2 DEF Keyed
  <2>3. Changed(c) \subseteq File
    <3>1. Len(log) \in DOMAIN log
      BY <1>1
    <3>2. log # <<>>
      BY <1>1
    <3>3. DOMAIN HeadTree \subseteq File
      BY <2>2, <3>1, <3>2 DEF HeadTree
    <3>4. DOMAIN New(c) \subseteq File
      BY <2>2 DEF New
    <3> QED BY <3>3, <3>4 DEF Changed, Added, Modified
  <2> QED BY <1>1, <2>1, <2>3, StartKeeps
<1>3. CASE IngestOne(p)
  BY <1>1, <1>3, StartKeeps DEF IngestOne
<1>4. CASE IngestBatch(p)
  BY <1>1, <1>4, StartKeeps DEF IngestBatch
<1>5. CASE IngestInit(p)
  <2>1. present \ DOMAIN Loaded.files \subseteq File
    BY <1>1
  <2> QED BY <1>1, <1>5, <2>1, StartKeeps DEF IngestInit
<1> QED BY <1>2, <1>3, <1>4, <1>5 DEF Begin

LEMMA StepPipelineInv == PipelineInv /\ [Next]_vars => PipelineInv'
<1> SUFFICES ASSUME PipelineInv, [Next]_vars PROVE PipelineInv'
  OBVIOUS
<1>1. ASSUME NEW f \in File, NEW c \in Content, Edit(f, c) PROVE PipelineInv'
  BY <1>1, NewTextKeeps DEF Edit
<1>2. ASSUME NEW f \in File, Delete(f) PROVE PipelineInv'
  BY <1>2, DeleteKeeps
<1>3. ASSUME NEW f \in File, NEW g \in File, Move(f, g) PROVE PipelineInv'
  <2>1. Text(f) \in Content
    BY <1>3, TextOfPresent DEF Move, PipelineInv
  <2>2. present' \subseteq present \cup {g}
    BY <1>3 DEF Move
  <2> QED BY <1>3, <2>1, <2>2, NewTextKeeps DEF Move
<1>4. ASSUME NEW S \in SUBSET File, Commit(S) PROVE PipelineInv'
  BY <1>4, CommitKeeps
<1>5. ASSUME NEW p \in Process, Begin(p) PROVE PipelineInv'
  BY <1>5, BeginKeeps
<1>6. ASSUME NEW p \in Process, Step(p) PROVE PipelineInv'
  BY <1>6, IngestFileKeeps, SaveKeeps, WriteKeeps, ReplaceKeeps DEF Step
<1>7. ASSUME NEW p \in Process, Crash(p) PROVE PipelineInv'
  BY <1>7, CrashKeeps
<1>8. CASE UNCHANGED vars
  BY <1>8 DEF vars, repoVars, procVars, diskVars, PipelineInv, RepoInv, RunInv, DiskInv
<1> QED BY <1>1, <1>2, <1>3, <1>4, <1>5, <1>6, <1>7, <1>8 DEF Next

LEMMA PipelineInvHolds == Spec => []PipelineInv
  BY InitPipelineInv, StepPipelineInv, PTL DEF Spec

\* Every variable keeps its type, whatever processes share the files.
THEOREM PipelineTypes == Spec => []TypeOK
<1>1. PipelineInv => TypeOK
  BY DEF PipelineInv, RepoInv, RunInv, DiskInv, TypeOK, Good, GoodFile, OnDisk
<1> QED BY <1>1, PipelineInvHolds, PTL

\* However many processes run, die and overwrite each other, and whatever is
\* edited meanwhile, a commit record has no key of a text older than the commit
\* (ingest_commit reads the working tree, not the commit).
THEOREM KeysAreAsNewAsTheCommit == Spec => []AtLeastAsNew
<1>1. ASSUME PipelineInv PROVE AtLeastAsNew
  <2>1. SUFFICES ASSUME Readable(json), NEW i \in DOMAIN json.body.commits
                 PROVE  AsNew(json.body.commits[i].hash, json.body.commits[i].file_keys)
    BY DEF AtLeastAsNew
  <2>2. json.body \in Good(log, texts)
    BY <1>1, <2>1 DEF PipelineInv, DiskInv, Readable, GoodFile
  <2>3. Fresh(log, texts, json.body.commits[i].hash, json.body.commits[i].file_keys)
    BY <2>2 DEF Good
  <2> QED BY <2>3 DEF Fresh, AsNew
<1> QED BY <1>1, PipelineInvHolds, PTL

-----------------------------------------------------------------------------
(***************************************************************************)
(* One process at a time.  The text a process writes is what it publishes, *)
(* and what it publishes extends what it read, since nobody else saves in  *)
(* between.  The pipeline_shared run shows that both fail with two.        *)
(***************************************************************************)
SoleProcess == \A p, q \in Process : p = q

SoleInv ==
  /\ json # Absent => json.body # Partial /\ json.writers = {}
  /\ \A p \in Process :
    /\ tmp # Absent /\ pc[p] # "write" => tmp.writers = {}
    /\ pc[p] = "write" => tmp # Absent /\ tmp.writers = {p} /\ tmp.body = Partial
    /\ pc[p] = "replace" => tmp # Absent /\ tmp.body = meta[p]
    /\ pc[p] # "idle" /\ json # Absent => Extends(json.body, meta[p])

LEMMA ExtendsReflexive ==
  ASSUME NEW m \in Metadata
  PROVE  Extends(m, m)
<1>1. m.commits \in Seq(CommitRecord)
  BY DEF Metadata
<1> QED BY <1>1 DEF Extends

LEMMA ExtendsTransitive ==
  ASSUME NEW l \in Metadata, NEW m \in Metadata, NEW n \in Metadata, Extends(l, m), Extends(m, n)
  PROVE  Extends(l, n)
<1>1. l.commits \in Seq(CommitRecord) /\ m.commits \in Seq(CommitRecord) /\ n.commits \in Seq(CommitRecord)
  BY DEF Metadata
<1>2. /\ Len(l.commits) \in Nat /\ Len(m.commits) \in Nat /\ Len(n.commits) \in Nat
      /\ DOMAIN l.commits = 1 .. Len(l.commits)
      /\ DOMAIN m.commits = 1 .. Len(m.commits)
  BY <1>1
<1>3. \A i \in DOMAIN l.commits : i \in DOMAIN m.commits
  BY <1>2 DEF Extends
<1> QED BY <1>2, <1>3 DEF Extends

\* What a file or a copy holds is metadata, so nothing partial.
LEMMA GoodIsMetadata ==
  ASSUME PipelineInv
  PROVE  /\ \A p \in Process : meta[p] \in Metadata /\ meta[p] # Partial
         /\ json # Absent /\ json.body # Partial => json.body \in Metadata
<1>1. ASSUME NEW p \in Process PROVE meta[p] \in Metadata
  BY DEF PipelineInv, RunInv, Good
<1>2. json # Absent /\ json.body # Partial => json.body \in Metadata
  BY DEF PipelineInv, DiskInv, Good, GoodFile
<1> QED BY <1>1, <1>2, PartialIsNoMetadata

\* Dealing with a file extends the copy.
LEMMA IngestFileExtends ==
  ASSUME PipelineInv, NEW p \in Process, IngestFile(p)
  PROVE  /\ Extends(meta[p], meta'[p])
         /\ pc' = pc /\ json' = json /\ tmp' = tmp
<1>1. meta[p] \in Metadata
  BY GoodIsMetadata
<1>2. meta[p].commits \in Seq(CommitRecord)
  BY <1>1 DEF Metadata
<1>3. ASSUME NEW f, NEW files, NEW ks, DOMAIN meta[p].files \subseteq DOMAIN files,
             DoneWith(p, f, files, ks)
      PROVE  /\ Extends(meta[p], meta'[p])
             /\ pc' = pc /\ json' = json /\ tmp' = tmp
  <2>1. meta' = [meta EXCEPT ![p].files = files] /\ meta \in [Process -> Good(log, texts)]
    BY <1>3 DEF DoneWith, PipelineInv, RunInv
  <2>2. meta'[p] = [meta[p] EXCEPT !.files = files]
    BY <2>1
  <2>3. meta'[p].files = files /\ meta'[p].commits = meta[p].commits
    BY <1>1, <2>2 DEF Metadata
  <2> QED BY <1>2, <1>3, <2>3 DEF Extends, DoneWith, diskVars
<1>4. \A f, k : DOMAIN meta[p].files \subseteq DOMAIN With(meta[p].files, f, k)
  BY DEF With
<1> QED
  BY <1>3, <1>4 DEF IngestFile, PassOver, IngestBlank, IngestText, Fail

LEMMA RecordedExtends ==
  ASSUME PipelineInv, NEW p \in Process
  PROVE  Extends(meta[p], Recorded(p)) /\ Recorded(p) \in Metadata
<1> DEFINE r == [hash |-> job[p], file_keys |-> keys[p]]
<1>1. meta[p] \in Metadata
  BY GoodIsMetadata
<1>2. Recorded(p) \in Metadata
  BY RecordedGood DEF PipelineInv, Good
<1>3. CASE job[p] = 0
  BY <1>1, <1>2, <1>3, ExtendsReflexive DEF Recorded
<1>4. CASE job[p] # 0
  <2>1. Recorded(p) = [meta[p] EXCEPT !.commits = Append(meta[p].commits, r)]
    BY <1>4 DEF Recorded
  <2> HIDE DEF r
  <2>2. /\ Recorded(p).files = meta[p].files
        /\ Recorded(p).commits = Append(meta[p].commits, r)
    BY <1>1, <2>1 DEF Metadata
  <2>3. meta[p].commits \in Seq(CommitRecord)
    BY <1>1 DEF Metadata
  <2>4. /\ Len(meta[p].commits) <= Len(Append(meta[p].commits, r))
        /\ \A i \in DOMAIN meta[p].commits : Append(meta[p].commits, r)[i] = meta[p].commits[i]
    BY <2>3
  <2> QED BY <1>2, <2>2, <2>4 DEF Extends
<1> QED BY <1>3, <1>4

\* A step of the one process keeps the invariant, and what it publishes
\* contains what was there.
LEMMA SoleProcessStep ==
  ASSUME SoleProcess, PipelineInv, SoleInv, NEW p \in Process, Begin(p) \/ Step(p) \/ Crash(p)
  PROVE  /\ SoleInv'
         /\ Readable(json) => Readable(json') /\ Extends(json.body, json'.body)
<1>1. /\ \A q \in Process : q = p
      /\ pc \in [Process -> {"idle", "ingest", "write", "replace"}]
      /\ meta \in [Process -> Good(log, texts)]
      /\ json \in GoodFile(log, texts) \cup {Absent}
      /\ tmp \in GoodFile(log, texts) \cup {Absent}
  BY DEF SoleProcess, PipelineInv, RunInv, DiskInv
<1>2. /\ json # Absent => json.body # Partial /\ json.writers = {}
      /\ tmp # Absent /\ pc[p] # "write" => tmp.writers = {}
      /\ pc[p] = "write" => tmp # Absent /\ tmp.writers = {p} /\ tmp.body = Partial
      /\ pc[p] = "replace" => tmp # Absent /\ tmp.body = meta[p]
      /\ pc[p] # "idle" /\ json # Absent => Extends(json.body, meta[p])
  BY DEF SoleInv
<1>3. /\ meta[p] \in Metadata /\ meta[p] # Partial
      /\ json # Absent => json.body \in Metadata /\ Extends(json.body, json.body)
  BY <1>2, GoodIsMetadata, ExtendsReflexive
<1>4. PipelineInv'
  BY StepPipelineInv DEF Next
<1>5. meta'[p] \in Metadata /\ meta'[p] # Partial
  <2>1. meta'[p] \in Metadata
    BY <1>4 DEF PipelineInv, RunInv, Good
  <2> QED BY <2>1, PartialIsNoMetadata
<1>6. CASE Begin(p)
  <2>1. /\ pc[p] = "idle"
        /\ json = Absent \/ Readable(json)
        /\ pc' = [pc EXCEPT ![p] = "ingest"]
        /\ meta' = [meta EXCEPT ![p] = Loaded]
        /\ json' = json /\ tmp' = tmp
    BY <1>6 DEF Begin, IngestCommit, IngestOne, IngestBatch, IngestInit, Start, diskVars
  <2>2. pc'[p] = "ingest" /\ meta'[p] = Loaded
    BY <1>1, <2>1
  <2>3. json # Absent => Extends(json.body, meta'[p])
    BY <1>3, <2>2 DEF Loaded
  <2>4. tmp' # Absent => tmp'.writers = {}
    BY <1>2, <2>1
  <2>5. SoleInv'
    BY <1>1, <1>2, <2>1, <2>2, <2>3, <2>4 DEF SoleInv
  <2> QED BY <1>3, <2>1, <2>5 DEF Readable
<1>7. CASE IngestFile(p)
  <2>1. Extends(meta[p], meta'[p]) /\ pc' = pc /\ json' = json /\ tmp' = tmp
    BY <1>7, IngestFileExtends
  <2>2. pc[p] = "ingest"
    BY <1>7 DEF IngestFile
  <2>3. json # Absent => Extends(json.body, meta'[p])
    BY <1>2, <1>3, <1>5, <2>1, <2>2, ExtendsTransitive
  <2> QED BY <1>1, <1>2, <1>3, <2>1, <2>2, <2>3 DEF SoleInv, Readable
<1>8. CASE Save(p)
  <2>1. /\ pc[p] = "ingest" /\ pc' = [pc EXCEPT ![p] = "write"]
        /\ meta' = [meta EXCEPT ![p] = Recorded(p)]
        /\ tmp' = Opened(tmp, p) /\ json' = json
    BY <1>8 DEF Save
  <2>2. pc'[p] = "write" /\ meta'[p] = Recorded(p)
    BY <1>1, <2>1
  <2>3. tmp' # Absent /\ tmp'.writers = {p} /\ tmp'.body = Partial
    <3>1. tmp' \in GoodFile(log, texts)
      BY <1>1, <2>1 DEF Opened, GoodFile
    <3>2. tmp' # Absent
      BY <3>1, AbsentIsNoFile DEF GoodFile, Good, OnDisk
    <3> QED BY <1>2, <2>1, <3>2 DEF Opened
  <2>4. json # Absent => Extends(json.body, meta'[p])
    BY <1>2, <1>3, <1>5, <2>1, <2>2, RecordedExtends, ExtendsTransitive
  <2> QED BY <1>1, <1>2, <1>3, <2>1, <2>2, <2>3, <2>4 DEF SoleInv, Readable
<1>9. CASE Write(p)
  <2>1. /\ pc[p] = "write" /\ pc' = [pc EXCEPT ![p] = "replace"] /\ meta' = meta
    BY <1>9 DEF Write
  <2>2. pc'[p] = "replace"
    BY <1>1, <2>1
  <2>3. tmp # Absent /\ tmp.writers = {p} /\ tmp.body = Partial
    BY <1>2, <2>1
  <2>4. json' = json
    BY <1>2, <1>9 DEF Write
  <2>5. tmp' = [body |-> meta[p], writers |-> {}]
    <3>1. Outcomes(tmp, p) = {meta[p]} /\ tmp.writers \ {p} = {}
      BY <2>3 DEF Outcomes
    <3> QED BY <1>9, <2>3, <3>1 DEF Write
  <2>6. tmp' # Absent
    <3>1. tmp' \in OnDisk
      BY <1>3, <2>5 DEF OnDisk
    <3> QED BY <3>1, AbsentIsNoFile
  <2> QED BY <1>1, <1>2, <1>3, <2>1, <2>2, <2>4, <2>5, <2>6 DEF SoleInv, Readable
<1>10. CASE Replace(p)
  <2>1. /\ pc[p] = "replace" /\ pc' = [pc EXCEPT ![p] = "idle"]
        /\ tmp # Absent => json' = tmp /\ tmp' = Absent
    BY <1>10 DEF Replace, Exit
  <2>2. /\ pc'[p] = "idle"
        /\ json' = tmp /\ tmp' = Absent /\ tmp # Absent
        /\ tmp.body = meta[p] /\ tmp.writers = {}
    BY <1>1, <1>2, <2>1
  <2> QED BY <1>1, <1>2, <1>3, <2>1, <2>2 DEF SoleInv, Readable
<1>11. CASE Crash(p)
  <2>1. /\ pc' = [pc EXCEPT ![p] = "idle"]
        /\ json' = Closed(json, p) /\ tmp' = Closed(tmp, p)
    BY <1>11 DEF Crash, Exit
  <2>2. pc'[p] = "idle"
    BY <1>1, <2>1
  <2>3. json' = json
    BY <1>1, <1>2, <2>1 DEF Closed, GoodFile
  <2>4. tmp' # Absent => tmp'.writers = {}
    <3>1. tmp # Absent => tmp.writers \ {p} = {} /\ tmp \in GoodFile(log, texts)
      BY <1>1, <1>2
    <3> QED BY <2>1, <3>1 DEF Closed, GoodFile
  <2> QED BY <1>1, <1>2, <1>3, <2>2, <2>3, <2>4 DEF SoleInv, Readable
<1> QED BY <1>6, <1>7, <1>8, <1>9, <1>10, <1>11 DEF Step

LEMMA SoleStep ==
  ASSUME SoleProcess, PipelineInv, SoleInv, [Next]_vars
  PROVE  /\ SoleInv'
         /\ Readable(json) => Readable(json') /\ Extends(json.body, json'.body)
<1>1. CASE UNCHANGED <<procVars, diskVars>>
  <2>1. pc' = pc /\ meta' = meta /\ json' = json /\ tmp' = tmp
    BY <1>1 DEF procVars, diskVars
  <2>2. SoleInv'
    BY <2>1 DEF SoleInv
  <2>3. Readable(json) => Extends(json.body, json.body)
    BY GoodIsMetadata, ExtendsReflexive DEF Readable
  <2> QED BY <2>1, <2>2, <2>3
<1>2. CASE \E p \in Process : Begin(p) \/ Step(p) \/ Crash(p)
  BY <1>2, SoleProcessStep
<1>3. UNCHANGED <<procVars, diskVars>> \/ \E p \in Process : Begin(p) \/ Step(p) \/ Crash(p)
  BY DEF Next, Edit, Delete, Move, Commit, vars
<1> QED BY <1>1, <1>2, <1>3

LEMMA SoleInvHolds ==
  ASSUME SoleProcess
  PROVE  Spec => []SoleInv
<1>1. Init => SoleInv
  BY DEF Init, SoleInv
<1>2. PipelineInv /\ SoleInv /\ [Next]_vars => SoleInv'
  BY SoleStep
<1> QED BY <1>1, <1>2, PipelineInvHolds, PTL DEF Spec

\* With one process at a time the metadata file is whole at every moment,
\* wherever a process was killed (save_metadata, ingest.py:114-119).
THEOREM MetadataIsAlwaysReadable ==
  ASSUME SoleProcess
  PROVE  Spec => []AlwaysReadable
<1>1. SoleInv => AlwaysReadable
  BY DEF SoleInv, AlwaysReadable, Readable
<1> QED BY <1>1, SoleInvHolds, PTL

\* With one process at a time every save contains what was published before:
\* no file leaves the index and no commit the record (load_metadata .. save_metadata).
THEOREM NothingIsForgotten ==
  ASSUME SoleProcess
  PROVE  Spec => NothingForgotten
<1>1. PipelineInv /\ SoleInv /\ [Next]_vars
      => [Readable(json) => Readable(json') /\ Extends(json.body, json'.body)]_vars
  BY SoleStep
<1> QED BY <1>1, PipelineInvHolds, SoleInvHolds, PTL DEF Spec, NothingForgotten

=============================================================================
