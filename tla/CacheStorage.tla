---------------------------- MODULE CacheStorage ----------------------------
(***************************************************************************)
(* The LRU + TTL cache in front of a storage backend                       *)
(* (crates/hllset-storage/src/cache.rs).                                   *)
(*                                                                         *)
(* A CacheStorage keeps a map of cached bytes and a queue of keys in order *)
(* of use; all clones of the handle share both.  The backend behind it is  *)
(* shared too: whoever holds a clone of the backend (the tests do) reads   *)
(* and writes it without the cache noticing, and a backend that does I/O   *)
(* may refuse a call.  Time is a set of entries still within their TTL.    *)
(***************************************************************************)
EXTENDS Integers, Sequences, FiniteSets, SequencesExt

CONSTANTS
  Key,
  Name,
  Value,
  None,
  MaxEntries      \* capacity of the cache; 0 is accepted by the code

ASSUME NoneIsNothing == None \notin Value /\ None \notin Key
ASSUME MaxEntriesIsNat == MaxEntries \in Nat
ASSUME KeyFinite == IsFiniteSet(Key)

VARIABLES
  data, pinned, temporal,  \* the shared backend
  cache,    \* cache[k]: the cached bytes of k, or None
  fresh,    \* cached keys whose entry is younger than the TTL
  lru,      \* cached keys, most recently used first
  reply,    \* answer of the last call on the handle
  older,    \* history: <<a, b>> when the last use of a precedes that of b
  dirty     \* history: keys the backend changed behind the cache's back

Mem == INSTANCE MemoryStorage
KV == INSTANCE KVStore WITH store <- data

memVars == <<data, pinned, temporal>>
cacheVars == <<cache, fresh, lru, older>>
vars == <<data, pinned, temporal, cache, fresh, lru, reply, older, dirty>>

Cached == {k \in Key : cache[k] # None}

TypeOK ==
  /\ Mem!MemTypeOK
  /\ cache \in [Key -> Value \cup {None}]
  /\ fresh \subseteq Key
  /\ lru \in Seq(Key)
  /\ reply \in KV!Answers
  /\ older \subseteq Key \X Key
  /\ dirty \subseteq Key

\* A new cache is empty; the backend it wraps may already hold data.
Init ==
  /\ data \in [Key -> Value \cup {None}]
  /\ pinned = {}
  /\ temporal = [n \in Name |-> None]
  /\ cache = [k \in Key |-> None]
  /\ fresh = {}
  /\ lru = <<>>
  /\ reply = KV!Answer("list", None, TRUE, {})
  /\ older = {}
  /\ dirty = {}

-----------------------------------------------------------------------------
\* The queue and the eviction loop.

\* Move k to the front, wherever it was.  Slip: the old place is kept.
TouchKeepsOldPlace(q, k) == <<k>> \o q
Touch(q, k) == <<k>> \o RemoveFirst(q, k)

\* How many entries a cache holding the keys in S has to give up.  Slip: one
\* entry too many is tolerated.
ExcessOffByOne(S) ==
  IF Cardinality(S) > MaxEntries + 1 THEN Cardinality(S) - MaxEntries - 1
                                     ELSE 0
Excess(S) == IF Cardinality(S) > MaxEntries THEN Cardinality(S) - MaxEntries
                                            ELSE 0

\* The keys popped from the back of the queue to get rid of n entries.
Popped(q, n) == {q[i] : i \in {j \in DOMAIN q : j > Len(q) - n}}

\* k becomes the most recently used of all keys.
UsedNow(k) == {p \in older : p[1] # k /\ p[2] # k} \cup ((Key \ {k}) \X {k})

\* Insert an entry, move it to the front, evict from the back down to
\* capacity: the tail of put, and of get after a miss.
Fill(k, v) ==
  LET filled == [cache EXCEPT ![k] = v]
      queue  == Touch(lru, k)
      n      == Excess(Cached \cup {k})
  IN  /\ lru' = SubSeq(queue, 1, Len(queue) - n)
      /\ cache' = [j \in Key |-> IF j \in Popped(queue, n) THEN None
                                                           ELSE filled[j]]
      /\ fresh' = (fresh \cup {k}) \ Popped(queue, n)
      /\ older' = UsedNow(k)

-----------------------------------------------------------------------------
\* Calls on the cache handle.

\* Write through: the backend first, then the cache.  Slip: the cache is not
\* told.
PutUncached(k, v) ==
  /\ Mem!Put(k, v)
  /\ UNCHANGED cacheVars
  /\ dirty' = dirty \ {k}
  /\ reply' = KV!Answer("put", k, TRUE, {})
Put(k, v) ==
  /\ Mem!Put(k, v)
  /\ Fill(k, v)
  /\ dirty' = dirty \ {k}
  /\ reply' = KV!Answer("put", k, TRUE, {})

\* A fresh entry answers and moves to the front.  Slips: the TTL is not
\* looked at; the entry stays where it is in the queue.
GetHitIgnoresTtl(k) ==
  /\ k \in Cached
  /\ lru' = Touch(lru, k)
  /\ older' = UsedNow(k)
  /\ reply' = KV!Answer("get", k, TRUE, {cache[k]})
  /\ UNCHANGED <<memVars, cache, fresh, dirty>>
GetHitStaysPut(k) ==
  /\ k \in fresh
  /\ older' = UsedNow(k)
  /\ reply' = KV!Answer("get", k, TRUE, {cache[k]})
  /\ UNCHANGED <<memVars, cache, fresh, lru, dirty>>
GetHit(k) ==
  /\ k \in fresh
  /\ lru' = Touch(lru, k)
  /\ older' = UsedNow(k)
  /\ reply' = KV!Answer("get", k, TRUE, {cache[k]})
  /\ UNCHANGED <<memVars, cache, fresh, dirty>>

\* No entry, or an expired one: ask the backend.  If it has nothing, the
\* expired entry stays where it is.
GetMiss(k) ==
  /\ k \notin fresh
  /\ reply' = KV!Answer("get", k, TRUE, KV!Opt(data[k]))
  /\ UNCHANGED memVars
  /\ IF data[k] = None
       THEN UNCHANGED <<cacheVars, dirty>>
       ELSE /\ Fill(k, data[k])
            /\ dirty' = dirty \ {k}

Get(k) == GetHit(k) \/ GetMiss(k)

\* Any entry, expired or not, is a yes.
Has(k) ==
  /\ reply' = KV!Answer("has", k, TRUE,
                        KV!Flag(k, k \in Cached \/ data[k] # None))
  /\ UNCHANGED <<memVars, cacheVars, dirty>>

\* The cache forgets k before the backend is asked.  Slip: it does not.
ForgetNothing(k) == UNCHANGED cacheVars
Forget(k) ==
  /\ cache' = [cache EXCEPT ![k] = None]
  /\ fresh' = fresh \ {k}
  /\ lru' = RemoveFirst(lru, k)
  /\ UNCHANGED older

Delete(k) ==
  /\ Mem!Delete(k)
  /\ Forget(k)
  /\ dirty' = dirty \ {k}
  /\ reply' = KV!Answer("delete", k, TRUE, KV!Flag(k, data[k] # None))

\* The union of the cached keys and the backend's.
List ==
  /\ reply' = KV!Answer("list", None, TRUE, Cached \cup Mem!Present)
  /\ UNCHANGED <<memVars, cacheVars, dirty>>

\* The backend refuses and `?` passes the error on.  put, get on a miss, has
\* on a miss and list leave the cache alone; delete has dropped the entry.
PutFails(k) ==
  /\ reply' = KV!Answer("put", k, FALSE, {})
  /\ UNCHANGED <<memVars, cacheVars, dirty>>

GetFails(k) ==
  /\ k \notin fresh
  /\ reply' = KV!Answer("get", k, FALSE, {})
  /\ UNCHANGED <<memVars, cacheVars, dirty>>

HasFails(k) ==
  /\ k \notin Cached
  /\ reply' = KV!Answer("has", k, FALSE, {})
  /\ UNCHANGED <<memVars, cacheVars, dirty>>

DeleteFails(k) ==
  /\ Forget(k)
  /\ reply' = KV!Answer("delete", k, FALSE, {})
  /\ UNCHANGED <<memVars, dirty>>

ListFails ==
  /\ reply' = KV!Answer("list", None, FALSE, {})
  /\ UNCHANGED <<memVars, cacheVars, dirty>>

\* The clock passes the TTL of an entry.  Slip: expiry deletes the data.
ExpireDeletes(k) ==
  /\ k \in fresh
  /\ fresh' = fresh \ {k}
  /\ Mem!Delete(k)
  /\ UNCHANGED <<cache, lru, reply, older, dirty>>
Expire(k) ==
  /\ k \in fresh
  /\ fresh' = fresh \ {k}
  /\ UNCHANGED <<memVars, cache, lru, reply, older, dirty>>

-----------------------------------------------------------------------------
\* Changes to the backend the cache does not see.

Behind == UNCHANGED <<cacheVars, reply>>

PeerPut(k, v) == Mem!Put(k, v) /\ dirty' = dirty \cup {k} /\ Behind

PeerDelete(k) == Mem!Delete(k) /\ dirty' = dirty \cup {k} /\ Behind

PeerGc == Mem!Gc /\ dirty' = dirty \cup Mem!Garbage /\ Behind

PeerPin(k) == Mem!Pin(k) /\ UNCHANGED dirty /\ Behind

PeerUnpin(k) == Mem!Unpin(k) /\ UNCHANGED dirty /\ Behind

\* A failing put or delete of an I/O backend that took effect all the same.
PutTorn(k, v) ==
  /\ Mem!Put(k, v)
  /\ dirty' = dirty \cup {k}
  /\ reply' = KV!Answer("put", k, FALSE, {})
  /\ UNCHANGED cacheVars

DeleteTorn(k) ==
  /\ Mem!Delete(k)
  /\ Forget(k)
  /\ dirty' = dirty \ {k}
  /\ reply' = KV!Answer("delete", k, FALSE, {})

-----------------------------------------------------------------------------

\* The handle is the backend's only user, and a failed call has no effect.
SoleNext ==
  \/ \E k \in Key : \/ \E v \in Value : Put(k, v)
                    \/ Get(k)
                    \/ Has(k)
                    \/ Delete(k)
                    \/ PutFails(k)
                    \/ GetFails(k)
                    \/ HasFails(k)
                    \/ DeleteFails(k)
                    \/ Expire(k)
  \/ List
  \/ ListFails

\* The backend is shared.
Interference ==
  \/ \E k \in Key : \/ \E v \in Value : PeerPut(k, v) \/ PutTorn(k, v)
                    \/ PeerDelete(k)
                    \/ DeleteTorn(k)
                    \/ PeerPin(k)
                    \/ PeerUnpin(k)
  \/ PeerGc

SoleSpec == Init /\ [][SoleNext]_vars
Spec == Init /\ [][SoleNext \/ Interference]_vars

-----------------------------------------------------------------------------
(***************************************************************************)
(* Properties.                                                             *)
(***************************************************************************)

\* The queue holds each cached key once and no other key: a key in the queue
\* without an entry would make eviction pop it for nothing and leave the
\* cache over capacity; an entry missing from the queue could never be
\* evicted (touch, evict_lru and delete keep the two structures in step).
LruMirrorsCache ==
  /\ ToSet(lru) = Cached
  /\ \A i, j \in DOMAIN lru : lru[i] = lru[j] => i = j

\* put and get leave at most max_entries cached, whatever the mix of hits,
\* expiries, refills and failed calls before.
CapacityRespected == Cardinality(Cached) <= MaxEntries

\* The cache shows the backend's bytes for every cached key the backend did
\* not change behind its back: failed puts, refills after expiry, deletes
\* and evictions never leave an old value under a key ("cache is a safe
\* redundancy layer").
CoherentUnlessInterfered ==
  \A k \in Cached \ dirty : cache[k] = data[k]

\* A fresh entry exists, and the queue is in order of last use: what the
\* proofs need besides the properties above.
FreshIsCached == fresh \subseteq Cached
RecencyOrder ==
  \A i, j \in DOMAIN lru : i < j => <<lru[j], lru[i]>> \in older

\* The inductive invariant: every step of put, get, has, delete, list, of the
\* clock and of the backend's other users preserves it.
IndInv ==
  /\ TypeOK
  /\ LruMirrorsCache
  /\ CapacityRespected
  /\ FreshIsCached
  /\ CoherentUnlessInterfered
  /\ RecencyOrder

\* A key that leaves the cache without being deleted was used before every
\* key that stays ("removes least-recently-used ... entries").
EvictsLeastRecent ==
  [][ \A e, r \in Key :
        (/\ e \in Cached /\ cache'[e] = None
         /\ ~(reply'.op = "delete" /\ reply'.key = e)
         /\ cache'[r] # None)
        => <<e, r>> \in older' ]_vars

\* get answers with bytes the backend does not hold only for a key changed
\* behind the cache's back, and only while the entry is within its TTL.
StaleOnlyWithinTtl ==
  [][ \A k \in Key :
        Get(k) => \/ reply'.out = KV!Opt(data[k])
                  \/ k \in fresh \cap dirty ]_vars

\* "Eviction only removes a local copy": bytes leave or change in the backend
\* only by a call that names their key, or behind the cache's back.
CanonicalDataKept ==
  [][ \A k \in Key :
        data'[k] # data[k] => \/ reply'.op \in {"put", "delete"} /\ reply'.key = k
                              \/ k \in dirty' ]_vars

\* A handle that is the only user of its backend answers every call as the
\* backend alone would: the cache cannot be observed.
ImplementsKVStore == KV!Spec

=============================================================================
