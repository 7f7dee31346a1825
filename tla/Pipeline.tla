------------------------------ MODULE Pipeline ------------------------------
(***************************************************************************)
(* The ingest pipeline kept beside the repository: scripts/ingest.py,      *)
(* ingest_init.py, the post-commit hook and the commit TUI that start it.  *)
(*                                                                         *)
(* A process loads .hllset_lattice/metadata.json, ingests files of the     *)
(* working tree one by one through the hllset binary, and saves the        *)
(* metadata through metadata.tmp.  People edit, move and commit files all  *)
(* the while, a process may die between any two steps, and nothing stops   *)
(* two processes from running at once.                                     *)
(***************************************************************************)
EXTENDS Integers, Sequences, FiniteSets, Functions

CONSTANTS
  Process,
  File,
  Content,       \* the texts files may have
  Key,           \* HLLSet keys
  KeyOf,         \* KeyOf[c]: the key of c, NoKey (whitespace) or Skipped (empty)
  NoKey, Skipped,
  Absent, Partial,  \* no file; bytes that are not a JSON document
  MaxEdits,      \* bound on the contents the files ever have together
  MaxCommits, MaxRuns

ASSUME KeysOfContents == KeyOf \in [Content -> Key \cup {NoKey, Skipped}]
ASSUME BoundsAreNats == MaxEdits \in Nat /\ MaxCommits \in Nat /\ MaxRuns \in Nat

VARIABLES
  texts,    \* texts[f]: the contents f has had, the latest last
  present,  \* the files of the working tree
  log,      \* git's history: [tree, at], at[f] how many texts f had had
  runs,     \* processes started so far
  pc,       \* pc[p]: "idle", "ingest", "write" or "replace"
  job,      \* job[p]: the commit p ingests, or 0
  todo,     \* todo[p]: the files p has still to ingest
  meta,     \* meta[p]: p's copy of the metadata
  keys,     \* keys[p]: file_keys of the commit record p builds
  json, tmp \* metadata.json and metadata.tmp: [body, writers] or Absent

repoVars == <<texts, present, log>>
procVars == <<pc, job, todo, meta, keys>>
diskVars == <<json, tmp>>
vars == <<repoVars, runs, procVars, diskVars>>

-----------------------------------------------------------------------------
\* Metadata.

NewMetadata == [files |-> <<>>, commits |-> <<>>]

With(g, f, k) == [x \in DOMAIN g \cup {f} |-> IF x = f THEN k ELSE g[x]]

Keyed(S) == UNION {[D -> S] : D \in SUBSET File}

CommitRecord == [hash : Nat, file_keys : Keyed(Key)]
Metadata == [files : Keyed(Key \cup {NoKey}), commits : Seq(CommitRecord)]

LogEntry == [tree : Keyed(Content), at : [File -> Nat]]

OnDisk == [body : Metadata \cup {Partial}, writers : SUBSET Process]

ASSUME PartialIsNoMetadata == Partial \notin Metadata
ASSUME AbsentIsNoFile == Absent \notin OnDisk

Readable(x) == x # Absent /\ x.body # Partial

TypeOK ==
  /\ texts \in [File -> Seq(Content)]
  /\ present \subseteq {f \in File : texts[f] # <<>>}
  /\ log \in Seq(LogEntry)
  /\ runs \in 0 .. MaxRuns
  /\ pc \in [Process -> {"idle", "ingest", "write", "replace"}]
  /\ job \in [Process -> 0 .. Len(log)]
  /\ todo \in [Process -> SUBSET File]
  /\ meta \in [Process -> Metadata]
  /\ keys \in [Process -> Keyed(Key)]
  /\ json \in OnDisk \cup {Absent}
  /\ tmp \in OnDisk \cup {Absent}

Init ==
  /\ texts = [f \in File |-> <<>>]
  /\ present = {}
  /\ log = <<>>
  /\ runs = 0
  /\ pc = [p \in Process |-> "idle"]
  /\ job = [p \in Process |-> 0]
  /\ todo = [p \in Process |-> {}]
  /\ meta = [p \in Process |-> NewMetadata]
  /\ keys = [p \in Process |-> <<>>]
  /\ json = Absent
  /\ tmp = Absent

-----------------------------------------------------------------------------
\* The repository: editors and git.

Edits == FoldFunction(LAMBDA q, n : Len(q) + n, 0, texts)
Text(f) == texts[f][Len(texts[f])]
HeadTree == IF log = <<>> THEN <<>> ELSE log[Len(log)].tree

Edit(f, c) ==
  /\ Edits < MaxEdits
  /\ f \in present => Text(f) # c
  /\ texts' = [texts EXCEPT ![f] = Append(@, c)]
  /\ present' = present \cup {f}
  /\ UNCHANGED <<log, runs, procVars, diskVars>>

Delete(f) ==
  /\ f \in present
  /\ present' = present \ {f}
  /\ UNCHANGED <<texts, log, runs, procVars, diskVars>>

Move(f, g) ==
  /\ f \in present /\ g \notin present
  /\ Edits < MaxEdits
  /\ texts' = [texts EXCEPT ![g] = Append(@, Text(f))]
  /\ present' = (present \ {f}) \cup {g}
  /\ UNCHANGED <<log, runs, procVars, diskVars>>

\* git commit of what is staged, S.
Commit(S) ==
  /\ Len(log) < MaxCommits
  /\ LET tree == [f \in (S \cap present) \cup (DOMAIN HeadTree \ S) |->
                    IF f \in S THEN Text(f) ELSE HeadTree[f]]
         was(f) == IF log = <<>> THEN 0 ELSE log[Len(log)].at[f]
     IN  /\ tree # HeadTree
         /\ log' = Append(log, [tree |-> tree,
                                at   |-> [f \in File |-> IF f \in S THEN Len(texts[f])
                                                                    ELSE was(f)]])
  /\ UNCHANGED <<texts, present, runs, procVars, diskVars>>

\* git diff --name-status i~1 i, with its detection of exact renames.
Old(i) == log[i - 1].tree
New(i) == log[i].tree
Renamed(i) == {r \in (DOMAIN Old(i) \ DOMAIN New(i)) \X (DOMAIN New(i) \ DOMAIN Old(i)) :
                 Old(i)[r[1]] = New(i)[r[2]]}
Added(i) == (DOMAIN New(i) \ DOMAIN Old(i)) \ {r[2] : r \in Renamed(i)}
Modified(i) == {f \in DOMAIN New(i) \cap DOMAIN Old(i) : New(i)[f] # Old(i)[f]}

\* What ingest_commit ingests.  A first commit has no parent, and every file
\* tracked by now counts as added; a renamed file counts as deleted, under a
\* path that joins both names.
Changed(i) == IF i = 1 THEN DOMAIN HeadTree ELSE Added(i) \cup Modified(i)

-----------------------------------------------------------------------------
\* Processes.

\* load_metadata; the process dies of a file that does not parse.  Slip: it
\* starts afresh every time.
LoadedAfresh == NewMetadata
Loaded == IF json = Absent THEN NewMetadata ELSE json.body

Start(p, c, S) ==
  /\ pc[p] = "idle" /\ runs < MaxRuns
  /\ json = Absent \/ Readable(json)
  /\ runs' = runs + 1
  /\ pc' = [pc EXCEPT ![p] = "ingest"]
  /\ job' = [job EXCEPT ![p] = c]
  /\ todo' = [todo EXCEPT ![p] = S]
  /\ meta' = [meta EXCEPT ![p] = Loaded]
  /\ keys' = [keys EXCEPT ![p] = <<>>]
  /\ UNCHANGED <<repoVars, diskVars>>

IngestCommit(p) == \E c \in DOMAIN log : Start(p, c, Changed(c))
IngestOne(p) == \E f \in present : Start(p, 0, {f})
IngestBatch(p) == Start(p, 0, present)
IngestInit(p) == Start(p, 0, present \ DOMAIN Loaded.files)

\* p has dealt with f; a record is built only for a commit.
DoneWith(p, f, files, ks) ==
  /\ todo' = [todo EXCEPT ![p] = @ \ {f}]
  /\ meta' = [meta EXCEPT ![p].files = files]
  /\ keys' = [keys EXCEPT ![p] = IF job[p] = 0 THEN @ ELSE ks]
  /\ UNCHANGED <<repoVars, runs, pc, job, diskVars>>

Has(f, k) == f \in present /\ KeyOf[Text(f)] = k

\* A file that is gone or empty is passed over.
PassOver(p, f) ==
  /\ f \notin present \/ Has(f, Skipped)
  /\ DoneWith(p, f, meta[p].files, keys[p])

\* Whitespace has no key: the record is in the metadata before printing the
\* key fails, and the handler reports None.  Slip: it reports the record.
BlankKept(ks, f) == With(ks, f, NoKey)
Blank(ks, f) == ks

IngestBlank(p, f) ==
  /\ Has(f, NoKey)
  /\ DoneWith(p, f, With(meta[p].files, f, NoKey), Blank(keys[p], f))

\* Slip: the key that is on record is kept.
KnownKey(files, f) == IF f \in DOMAIN files THEN files[f] ELSE KeyOf[Text(f)]
FileKey(files, f) == KeyOf[Text(f)]

IngestText(p, f) ==
  /\ f \in present /\ KeyOf[Text(f)] \in Key
  /\ LET k == FileKey(meta[p].files, f)
     IN  DoneWith(p, f, With(meta[p].files, f, k), With(keys[p], f, k))

\* The binary fails or times out: the error is printed, the record of the file
\* stays as it was.  Slip: without a timeout the process waits for ever.
FailHangs(p, f) ==
  /\ f \in present /\ KeyOf[Text(f)] \in Key
  /\ pc' = [pc EXCEPT ![p] = "waiting"]
  /\ UNCHANGED <<repoVars, runs, job, todo, meta, keys, diskVars>>
Fail(p, f) ==
  /\ f \in present /\ KeyOf[Text(f)] \in Key
  /\ DoneWith(p, f, meta[p].files, keys[p])

IngestFile(p) ==
  /\ pc[p] = "ingest"
  /\ \E f \in todo[p] : PassOver(p, f) \/ IngestBlank(p, f) \/ IngestText(p, f) \/ Fail(p, f)

\* The record of a commit is appended, whatever became of its files.
Recorded(p) ==
  IF job[p] = 0 THEN meta[p]
  ELSE [meta[p] EXCEPT !.commits = Append(@, [hash |-> job[p], file_keys |-> keys[p]])]

\* write_text, in two steps: open truncates the file that has the name, ...
Opened(x, p) == [body |-> Partial, writers |-> {p} \cup IF x = Absent THEN {} ELSE x.writers]

\* Slip: the metadata file itself is written.
SaveInPlace(p) ==
  /\ pc[p] = "ingest" /\ todo[p] = {}
  /\ meta' = [meta EXCEPT ![p] = Recorded(p)]
  /\ json' = Opened(json, p)
  /\ pc' = [pc EXCEPT ![p] = "write"]
  /\ UNCHANGED <<repoVars, runs, job, todo, keys, tmp>>
Save(p) ==
  /\ pc[p] = "ingest" /\ todo[p] = {}
  /\ meta' = [meta EXCEPT ![p] = Recorded(p)]
  /\ tmp' = Opened(tmp, p)
  /\ pc' = [pc EXCEPT ![p] = "write"]
  /\ UNCHANGED <<repoVars, runs, job, todo, keys, json>>

\* ... and the bytes go into the file that was opened, wherever it is by now.
\* With another writer in between they may stay mixed with its bytes.
Outcomes(x, p) ==
  IF x.writers = {p} /\ x.body = Partial THEN {meta[p]} ELSE {meta[p], Partial}

Write(p) ==
  LET isOpen(x) == x # Absent /\ p \in x.writers
      written(x, y) ==
        IF isOpen(x) THEN \E b \in Outcomes(x, p) : y = [body |-> b, writers |-> x.writers \ {p}]
                     ELSE y = x
  IN  /\ pc[p] = "write"
      /\ written(json, json')
      /\ written(tmp, tmp')
      /\ pc' = [pc EXCEPT ![p] = "replace"]
      /\ UNCHANGED <<repoVars, runs, job, todo, meta, keys>>

\* The end of a process, whose memory goes with it.
Exit(p) ==
  /\ pc' = [pc EXCEPT ![p] = "idle"]
  /\ job' = [job EXCEPT ![p] = 0]
  /\ todo' = [todo EXCEPT ![p] = {}]
  /\ meta' = [meta EXCEPT ![p] = NewMetadata]
  /\ keys' = [keys EXCEPT ![p] = <<>>]

\* tmp.replace; without a tmp the process dies of FileNotFoundError.
Replace(p) ==
  /\ pc[p] = "replace"
  /\ IF tmp = Absent THEN UNCHANGED diskVars ELSE json' = tmp /\ tmp' = Absent
  /\ Exit(p)
  /\ UNCHANGED <<repoVars, runs>>

\* The process is killed; its files are closed as they are.
Closed(x, p) == IF x = Absent THEN x ELSE [x EXCEPT !.writers = @ \ {p}]
Crash(p) ==
  /\ pc[p] # "idle"
  /\ Exit(p)
  /\ json' = Closed(json, p)
  /\ tmp' = Closed(tmp, p)
  /\ UNCHANGED <<repoVars, runs>>

Begin(p) == IngestCommit(p) \/ IngestOne(p) \/ IngestBatch(p) \/ IngestInit(p)
Step(p) == IngestFile(p) \/ Save(p) \/ Write(p) \/ Replace(p)

Next ==
  \/ \E f \in File : \/ \E c \in Content : Edit(f, c)
                     \/ Delete(f)
                     \/ \E g \in File : Move(f, g)
  \/ \E S \in SUBSET File : Commit(S)
  \/ \E p \in Process : Begin(p) \/ Step(p) \/ Crash(p)

\* A process that runs goes on: every call it makes returns, the one of the
\* binary after 30 s at the latest (timeout, ingest.py:35).
Spec == Init /\ [][Next]_vars /\ \A p \in Process : WF_vars(Step(p))

-----------------------------------------------------------------------------
(***************************************************************************)
(* Properties.                                                             *)
(***************************************************************************)

\* Whoever loads metadata.json finds none or a whole one, whenever a process
\* was killed ("Save metadata atomically", ingest.py:115).
AlwaysReadable == json = Absent \/ Readable(json)

Extends(m, n) ==
  /\ DOMAIN m.files \subseteq DOMAIN n.files
  /\ Len(m.commits) <= Len(n.commits)
  /\ \A i \in DOMAIN m.commits : n.commits[i] = m.commits[i]

\* What a save publishes contains what was there: no recorded commit and no
\* indexed file is lost.
NothingForgotten ==
  [][ Readable(json) => Readable(json') /\ Extends(json.body, json'.body) ]_vars

AsNew(h, ks) ==
  /\ h \in DOMAIN log
  /\ \A f \in DOMAIN ks :
       \E n \in 1 .. Len(texts[f]) : n >= log[h].at[f] /\ KeyOf[texts[f][n]] = ks[f]

\* The key a commit record has for a file is that of the text committed or of
\* one the file had later, never of an older one, although the files are read
\* from the working tree while people edit, move and commit them.
AtLeastAsNew ==
  Readable(json) =>
    \A i \in DOMAIN json.body.commits :
      AsNew(json.body.commits[i].hash, json.body.commits[i].file_keys)

\* A process that runs ends, though calls fail and files vanish under it.
EveryRunEnds == \A p \in Process : pc[p] # "idle" ~> pc[p] = "idle"

\* "Idempotent -- safe to re-run on the same commit" (scripts/post-commit:7):
\* a commit is on record once, however often it was ingested.
RecordedOnce ==
  Readable(json) =>
    \A i, j \in DOMAIN json.body.commits :
      json.body.commits[i].hash = json.body.commits[j].hash => i = j

=============================================================================
