------------------------------ MODULE KVStore ------------------------------
(***************************************************************************)
(* What the content-addressed half of the Storage trait promises           *)
(* (crates/hllset-storage/src/storage.rs): one map from keys to bytes.     *)
(* Every call either fails and changes nothing, or answers from the map.   *)
(*                                                                         *)
(* The module is the abstract specification a backend, or a wrapper around *)
(* one, has to implement.  It says nothing of caching, recency, expiry or  *)
(* of where the bytes live.                                                *)
(***************************************************************************)

CONSTANTS
  Key,      \* storage keys ("h:<sha1>", "c:<sha1>", ...)
  Value,    \* byte strings, as far as the properties tell them apart
  None      \* Rust's None: no bytes under this key; neither key nor value

VARIABLES
  store,    \* store[k]: the bytes under k, or None
  reply     \* the answer of the last call

vars == <<store, reply>>

\* An Option as a set: Some(x) is {x}, None is {}.  Slip: Some of nothing.
OptUnchecked(x) == {x}
Opt(x) == {x} \ {None}

Flag(k, b) == IF b THEN {k} ELSE {}    \* a boolean answer about k

\* An answer: the operation, its key, Ok or Err, and what Ok carries.
Answer(op, k, ok, out) == [op |-> op, key |-> k, ok |-> ok, out |-> out]

Ops == {"put", "get", "has", "delete", "list"}
Answers == [op : Ops, key : Key \cup {None}, ok : BOOLEAN,
            out : SUBSET (Key \cup Value)]

TypeOK ==
  /\ store \in [Key -> Value \cup {None}]
  /\ reply \in Answers

Init ==
  /\ store \in [Key -> Value \cup {None}]
  /\ reply = Answer("list", None, TRUE, {})

-----------------------------------------------------------------------------

Put(k, v) ==
  /\ store' = [store EXCEPT ![k] = v]
  /\ reply' = Answer("put", k, TRUE, {})

Get(k) ==
  /\ reply' = Answer("get", k, TRUE, Opt(store[k]))
  /\ UNCHANGED store

Has(k) ==
  /\ reply' = Answer("has", k, TRUE, Flag(k, store[k] # None))
  /\ UNCHANGED store

Delete(k) ==
  /\ reply' = Answer("delete", k, TRUE, Flag(k, store[k] # None))
  /\ store' = [store EXCEPT ![k] = None]

List ==
  /\ reply' = Answer("list", None, TRUE, {k \in Key : store[k] # None})
  /\ UNCHANGED store

\* Result::Err: the backend refused the call.
Fail(op, k) ==
  /\ reply' = Answer(op, k, FALSE, {})
  /\ UNCHANGED store

Next ==
  \/ \E k \in Key : \/ \E v \in Value : Put(k, v)
                    \/ Get(k)
                    \/ Has(k)
                    \/ Delete(k)
                    \/ \E op \in Ops : Fail(op, k)
  \/ List
  \/ Fail("list", None)

Spec == Init /\ [][Next]_vars

=============================================================================
