--------------------------- MODULE MemoryStorage ---------------------------
(***************************************************************************)
(* The in-memory backend (crates/hllset-storage/src/memory.rs).  Three     *)
(* maps behind Rc, shared by every clone of the handle: content data, the  *)
(* set of pinned keys, and the temporal (named, mutable) keys.             *)
(*                                                                         *)
(* Each trait method is an action on the maps together with an operator    *)
(* giving what the call returns in the current state.  Modules that use    *)
(* the backend compose these actions with their own state.                 *)
(***************************************************************************)

CONSTANTS
  Key,      \* content-addressed keys
  Name,     \* temporal keys ("system:head", "u:...")
  Value,    \* byte strings
  None      \* nothing stored under a key

ASSUME NoneIsNotAValue == None \notin Value

VARIABLES
  data,     \* data[k]: bytes under content key k, or None
  pinned,   \* keys gc must keep
  temporal  \* temporal[n]: bytes under name n, or None

memVars == <<data, pinned, temporal>>

MemTypeOK ==
  /\ data \in [Key -> Value \cup {None}]
  /\ pinned \subseteq Key
  /\ temporal \in [Name -> Value \cup {None}]

Present == {k \in Key : data[k] # None}

-----------------------------------------------------------------------------
\* Content-addressed operations.

Put(k, v) ==
  /\ data' = [data EXCEPT ![k] = v]
  /\ UNCHANGED <<pinned, temporal>>

\* The pin of a deleted key stays behind and protects a later put.
Delete(k) ==
  /\ data' = [data EXCEPT ![k] = None]
  /\ UNCHANGED <<pinned, temporal>>

\* Slip: only a key that is already stored can be pinned.
PinStoredOnly(k) ==
  /\ pinned' = pinned \cup ({k} \cap Present)
  /\ UNCHANGED <<data, temporal>>
Pin(k) ==
  /\ pinned' = pinned \cup {k}
  /\ UNCHANGED <<data, temporal>>

Unpin(k) ==
  /\ pinned' = pinned \ {k}
  /\ UNCHANGED <<data, temporal>>

\* gc returns the keys it removed.
Garbage == Present \ pinned

Gc ==
  /\ data' = [k \in Key |-> IF k \in Garbage THEN None ELSE data[k]]
  /\ UNCHANGED <<pinned, temporal>>

-----------------------------------------------------------------------------
\* Temporal operations.

PutTmp(n, v) ==
  /\ temporal' = [temporal EXCEPT ![n] = v]
  /\ UNCHANGED <<data, pinned>>

CasAnswers == {"swapped", "mismatch", "missing"}

\* Ok(true), Err(CasMismatch) and Err(NotFound); never Ok(false).
\* Slip: any value present is taken for the expected one.
CasUncompared(n, old) == IF temporal[n] = None THEN "missing" ELSE "swapped"
CasResult(n, old) ==
  IF temporal[n] = None THEN "missing"
  ELSE IF temporal[n] = old THEN "swapped" ELSE "mismatch"

CasTmp(n, old, new) ==
  /\ temporal' = IF CasResult(n, old) = "swapped"
                   THEN [temporal EXCEPT ![n] = new]
                   ELSE temporal
  /\ UNCHANGED <<data, pinned>>

=============================================================================
