---------------------------- MODULE P4CacheSpec ----------------------------
(***************************************************************************)
(* One cache driven by an arbitrary sequence of the calls its users make   *)
(* (switchv2p/include/p4-cache.h), against the promise a cache makes: what *)
(* it returns for a key is the value stored last for that key.             *)
(***************************************************************************)
EXTENDS P4Cache

CONSTANTS
  Key,      \* the virtual addresses in use (container ids, 0 included)
  Val,      \* physical addresses
  Slot,     \* slots of the array
  Index     \* GetIndex: the slot of every key

ASSUME CacheAssumption ==
  /\ Key \subseteq Nat
  /\ NoAddr \notin Val
  /\ Index \in [Key -> Slot]

VARIABLES
  cache,    \* m_array and m_bits
  stored,   \* history: the value stored last for a key, NoAddr once removed
  lost      \* history: keys evicted or overwritten since they were stored

vars == <<cache, stored, lost>>

TypeOK ==
  /\ cache \in [Slot -> SlotType(Key, Val)]
  /\ stored \in [Key -> Val \cup {NoAddr}]
  /\ lost \subseteq Key

Init ==
  /\ cache = EmptyCache(Slot)
  /\ stored = [k \in Key |-> NoAddr]
  /\ lost = {}

\* The keys whose live entry the step from cache to c takes away.
Displaced(c) ==
  {k \in Key : Find(cache, Index[k], k) /\ ~Find(c, Index[k], k)}

CallGet(k) ==
  /\ cache' = Get(cache, Index[k], k)
  /\ UNCHANGED <<stored, lost>>

CallPut(k, v) ==
  /\ cache' = Put(cache, Index[k], k, v)
  /\ stored' = [stored EXCEPT ![k] = v]
  /\ lost' = (lost \cup Displaced(Put(cache, Index[k], k, v))) \ {k}

CallPutIfNotEvict(k, v) ==
  LET c == PutIfNotEvict(cache, Index[k], k, v)
  IN  /\ cache' = c
      /\ IF Evicts(cache, Index[k], k)
         THEN UNCHANGED <<stored, lost>>
         ELSE /\ stored' = [stored EXCEPT ![k] = v]
              /\ lost' = (lost \cup Displaced(c)) \ {k}

\* Every caller looks the key up first (p4-switch-app.cc:204, 411, 492).
CallRemove(k) ==
  /\ Find(cache, Index[k], k)
  /\ cache' = Remove(cache, Index[k])
  /\ stored' = [stored EXCEPT ![k] = NoAddr]
  /\ lost' = lost \ {k}

Next ==
  \E k \in Key :
    \/ CallGet(k)
    \/ CallRemove(k)
    \/ \E v \in Val : CallPut(k, v) \/ CallPutIfNotEvict(k, v)

Spec == Init /\ [][Next]_vars

-----------------------------------------------------------------------------
\* Every slot is either zeroed or holds a key that hashes to it with a value,
\* and an access bit is set only on such a slot: no sequence of Put,
\* PutIfNotEvict, Get and Remove leaves a half-written slot or a bit behind.
SlotsWellFormed ==
  \A i \in Slot :
    \/ cache[i] = EmptySlot
    \/ /\ cache[i].key \in Key
       /\ Index[cache[i].key] = i
       /\ cache[i].val # NoAddr

\* A lookup that hits returns the value stored last for that key, and a key that
\* was stored and neither removed nor displaced is found.
CoherentWithStored ==
  \A k \in Key :
    /\ Find(cache, Index[k], k) => /\ Value(cache, Index[k]) = stored[k]
                                   /\ k \notin lost
    /\ stored[k] # NoAddr /\ k \notin lost => Find(cache, Index[k], k)

\* Put is the only call that takes another key's live entry away, and it then
\* reports exactly that entry for spilling over.  Key 0 is the exception: its
\* entries look like empty slots and go unreported.
DisplacedOnlyWithReport ==
  [][\A k \in Key \ {EmptyKey} :
       Find(cache, Index[k], k) /\ ~Find(cache, Index[k], k)' =>
         \/ cache'[Index[k]] = EmptySlot
         \/ \E j \in Key :
              /\ Evicts(cache, Index[j], j)
              /\ Evicted(cache, Index[j]) = [key |-> k, val |-> stored[k]]
              /\ cache'[Index[j]].key = j
              /\ cache'[Index[j]].bit = 0]_vars
=============================================================================
