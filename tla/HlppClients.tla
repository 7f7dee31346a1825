----------------------------- MODULE HlppClients -----------------------------
(***************************************************************************)
(* Clients of one storage handle, below the cache's concerns: pinning and  *)
(* garbage collection, and the temporal keys with their compare-and-swap   *)
(* (crates/hllset-storage/src/storage.rs and memory.rs; the DSL binds each *)
(* of these calls to Lua in crates/hllset-dsl/src/runtime.rs).             *)
(*                                                                         *)
(* A handle is either a MemoryStorage, which overrides all of pin, unpin,  *)
(* gc and the temporal calls, or a CacheStorage or SledStorage, which      *)
(* inherit the trait's defaults: Ok and no effect, None, or an error.  A   *)
(* MemoryStorage behind a CacheStorage can still be collected through a    *)
(* clone of the inner handle.                                              *)
(*                                                                         *)
(* Calls are atomic; clients interleave between them.  A client updates a  *)
(* temporal counter by get_tmp, then cas_tmp from what it read to that     *)
(* plus one.                                                               *)
(***************************************************************************)
EXTENDS Integers, FiniteSets, MemoryStorage

CONSTANTS
  Client,
  Overrides   \* TRUE: MemoryStorage; FALSE: the trait's defaults

ASSUME OverridesIsBoolean == Overrides \in BOOLEAN
ASSUME ValuesCount == Value \subseteq Nat /\ 0 \in Value

VARIABLES
  seen,       \* seen[c][n]: what client c last read under name n
  answer,     \* what the last call returned
  promised,   \* history: keys whose pin was answered Ok, not unpinned since
  kept,       \* history: promised keys that have been in the store, not deleted
  expected    \* history: what the Ok'd writes of each name add up to

clientVars == <<seen, answer, promised, kept, expected>>
vars == <<data, pinned, temporal, seen, answer, promised, kept, expected>>

Calls == {"start", "put", "delete", "pin", "unpin", "gc", "put_tmp", "get_tmp",
          "cas_tmp"}
Outs == {"ok", "true", "err"}

TypeOK ==
  /\ MemTypeOK
  /\ seen \in [Client -> [Name -> Value \cup {None}]]
  /\ answer \in [call : Calls, out : Outs]
  /\ promised \subseteq Key
  /\ kept \subseteq promised
  /\ expected \in [Name -> Value \cup {None}]

Answer(call, out) == [call |-> call, out |-> out]

Init ==
  /\ data = [k \in Key |-> None]
  /\ pinned = {}
  /\ temporal = [n \in Name |-> None]
  /\ seen = [c \in Client |-> [n \in Name |-> None]]
  /\ answer = Answer("start", "ok")
  /\ promised = {}
  /\ kept = {}
  /\ expected = [n \in Name |-> None]

-----------------------------------------------------------------------------
\* What the handle does.

HandlePin(k) == IF Overrides THEN Pin(k) ELSE UNCHANGED memVars

HandleUnpin(k) == IF Overrides THEN Unpin(k) ELSE UNCHANGED memVars

HandlePutTmp(n, v) == IF Overrides THEN PutTmp(n, v) ELSE UNCHANGED memVars

HandleGetTmp(n) == IF Overrides THEN temporal[n] ELSE None

\* The default refuses with an error of its own.
HandleCasOut(n, old) ==
  IF Overrides /\ CasResult(n, old) = "swapped" THEN "true" ELSE "err"

HandleCasTmp(n, old, new) ==
  IF Overrides THEN CasTmp(n, old, new) ELSE UNCHANGED memVars

-----------------------------------------------------------------------------
\* Calls of the clients.

ClientPut(k) ==
  /\ Put(k, 0)
  /\ kept' = kept \cup ({k} \cap promised)
  /\ answer' = Answer("put", "ok")
  /\ UNCHANGED <<seen, promised, expected>>

ClientDelete(k) ==
  /\ Delete(k)
  /\ kept' = kept \ {k}
  /\ answer' = Answer("delete", "ok")
  /\ UNCHANGED <<seen, promised, expected>>

ClientPin(k) ==
  /\ HandlePin(k)
  /\ promised' = promised \cup {k}
  /\ kept' = kept \cup ({k} \cap Present)
  /\ answer' = Answer("pin", "ok")
  /\ UNCHANGED <<seen, expected>>

ClientUnpin(k) ==
  /\ HandleUnpin(k)
  /\ promised' = promised \ {k}
  /\ kept' = kept \ {k}
  /\ answer' = Answer("unpin", "ok")
  /\ UNCHANGED <<seen, expected>>

\* Through the handle, or through a clone of the store it wraps.
Collect ==
  /\ Gc
  /\ answer' = Answer("gc", "ok")
  /\ UNCHANGED <<seen, promised, kept, expected>>

ClientPutTmp(n, v) ==
  /\ HandlePutTmp(n, v)
  /\ expected' = [expected EXCEPT ![n] = v]
  /\ answer' = Answer("put_tmp", "ok")
  /\ UNCHANGED <<seen, promised, kept>>

ClientGetTmp(c, n) ==
  /\ seen' = [seen EXCEPT ![c][n] = HandleGetTmp(n)]
  /\ answer' = Answer("get_tmp", "ok")
  /\ UNCHANGED <<memVars, promised, kept, expected>>

\* What the client takes the counter for: nothing read counts as zero.
Believed(c, n) == IF seen[c][n] = None THEN 0 ELSE seen[c][n]

\* The client increments what it read; the bound on values stops it.
ClientCas(c, n) ==
  LET old == Believed(c, n)
  IN  /\ old + 1 \in Value
      /\ HandleCasTmp(n, old, old + 1)
      /\ answer' = Answer("cas_tmp", HandleCasOut(n, old))
      /\ expected' = IF HandleCasOut(n, old) = "true"
                       THEN [expected EXCEPT ![n] = @ + 1]
                       ELSE expected
      /\ UNCHANGED <<seen, promised, kept>>

Next ==
  \/ \E k \in Key : \/ ClientPut(k)
                    \/ ClientDelete(k)
                    \/ ClientPin(k)
                    \/ ClientUnpin(k)
  \/ Collect
  \/ \E n \in Name : \/ \E v \in Value : ClientPutTmp(n, v)
                     \/ \E c \in Client : ClientGetTmp(c, n) \/ ClientCas(c, n)

Spec == Init /\ [][Next]_vars

-----------------------------------------------------------------------------
(***************************************************************************)
(* Properties.                                                             *)
(***************************************************************************)

\* A key that was promised by pin and was stored, in either order, is in the
\* store until it is unpinned or deleted: no order of put, pin and gc by
\* several clients loses it ("PIN: prevent garbage collection", storage.rs:60;
\* law gc-pin-safe of the standard).
KeptSurvives == kept \subseteq Present

\* get_tmp returns what the writes answered Ok add up to: no interleaving of
\* compare-and-swaps loses an increment, and a swap built on a stale read is
\* refused (laws tmp-put-get and cas-correct of the standard).
NoLostUpdate ==
  [][ \A c \in Client, n \in Name :
        ClientGetTmp(c, n) => seen'[c][n] = expected[n] ]_vars

\* The inductive invariant of a MemoryStorage handle: what the clients were
\* promised is what the store does.
ClientsInv ==
  /\ TypeOK
  /\ Overrides => /\ pinned = promised
                  /\ KeptSurvives
                  /\ temporal = expected

=============================================================================
