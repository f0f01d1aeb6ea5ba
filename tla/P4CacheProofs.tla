--------------------------- MODULE P4CacheProofs ---------------------------
(***************************************************************************)
(* What the direct-mapped cache promises, for every set of keys and values *)
(* and every hash function.                                                *)
(***************************************************************************)
EXTENDS P4CacheSpec, TLAPS

\* What the calls preserve together
CacheIInv == TypeOK /\ SlotsWellFormed /\ CoherentWithStored

LEMMA IndexType == \A k \in Key : Index[k] \in Slot
  BY CacheAssumption

LEMMA CacheInit == Init => CacheIInv
  BY CacheAssumption
     DEF Init, CacheIInv, TypeOK, SlotsWellFormed, CoherentWithStored, EmptyCache,
         EmptySlot, SlotType, Find

LEMMA GetPreserves ==
  ASSUME CacheIInv, NEW k \in Key, CallGet(k)
  PROVE  CacheIInv'
<1>1. TypeOK'
  BY IndexType DEF CacheIInv, TypeOK, CallGet, Get, SlotType
<1>2. SlotsWellFormed'
  BY IndexType
     DEF CacheIInv, TypeOK, SlotsWellFormed, CallGet, Get, SlotType, EmptySlot, Find
<1>3. CoherentWithStored'
  BY IndexType DEF CacheIInv, TypeOK, CoherentWithStored, CallGet, Get, SlotType, Find, Value
<1>4. QED
  BY <1>1, <1>2, <1>3 DEF CacheIInv

\* Storing k in its slot, with any access bit: the common part of Put and of a
\* PutIfNotEvict that is not refused.
LEMMA StorePreserves ==
  ASSUME CacheIInv, NEW k \in Key, NEW v \in Val, NEW b \in {0, 1},
         cache' = [cache EXCEPT ![Index[k]] = [key |-> k, val |-> v, bit |-> b]],
         stored' = [stored EXCEPT ![k] = v],
         lost' = (lost \cup Displaced(cache')) \ {k}
  PROVE  CacheIInv'
<1>1. TypeOK'
  BY IndexType DEF CacheIInv, TypeOK, SlotType, Displaced
<1>2. SlotsWellFormed'
  BY IndexType, CacheAssumption DEF CacheIInv, TypeOK, SlotsWellFormed, SlotType
<1>3. CoherentWithStored'
  <2> SUFFICES ASSUME NEW j \in Key
               PROVE  /\ Find(cache', Index[j], j) => /\ Value(cache', Index[j]) = stored'[j]
                                                      /\ j \notin lost'
                      /\ stored'[j] # NoAddr /\ j \notin lost' => Find(cache', Index[j], j)
    BY DEF CoherentWithStored
  <2>1. CASE j = k
    BY <2>1, IndexType, CacheAssumption DEF CacheIInv, TypeOK, Find, Value
  <2>2. CASE j # k /\ Index[j] = Index[k]
    BY <2>2, IndexType DEF CacheIInv, TypeOK, CoherentWithStored, Displaced, Find, Value
  <2>3. CASE Index[j] # Index[k]
    BY <2>3, IndexType DEF CacheIInv, TypeOK, CoherentWithStored, Displaced, Find, Value
  <2>4. QED
    BY <2>1, <2>2, <2>3
<1>4. QED
  BY <1>1, <1>2, <1>3 DEF CacheIInv

LEMMA PutPreserves ==
  ASSUME CacheIInv, NEW k \in Key, NEW v \in Val, CallPut(k, v)
  PROVE  CacheIInv'
<1>1. cache' = [cache EXCEPT ![Index[k]] = [key |-> k, val |-> v, bit |-> 0]]
  BY DEF CallPut, Put
<1>2. lost' = (lost \cup Displaced(cache')) \ {k} /\ stored' = [stored EXCEPT ![k] = v]
  BY DEF CallPut
<1>3. QED
  BY <1>1, <1>2, StorePreserves

LEMMA PutIfNotEvictPreserves ==
  ASSUME CacheIInv, NEW k \in Key, NEW v \in Val, CallPutIfNotEvict(k, v)
  PROVE  CacheIInv'
<1>1. CASE Evicts(cache, Index[k], k)
  <2>1. UNCHANGED vars
    BY <1>1 DEF CallPutIfNotEvict, PutIfNotEvict, vars
  <2>2. QED
    BY <2>1
       DEF CacheIInv, TypeOK, SlotsWellFormed, CoherentWithStored, Find, Value, vars
<1>2. CASE ~Evicts(cache, Index[k], k)
  <2> DEFINE b == cache[Index[k]].bit
  <2>1. b \in {0, 1}
    BY IndexType DEF CacheIInv, TypeOK, SlotType
  <2>2. cache' = [cache EXCEPT ![Index[k]] = [key |-> k, val |-> v, bit |-> b]]
    BY <1>2 DEF CallPutIfNotEvict, PutIfNotEvict
  <2>3. lost' = (lost \cup Displaced(cache')) \ {k} /\ stored' = [stored EXCEPT ![k] = v]
    BY <1>2 DEF CallPutIfNotEvict
  <2>4. QED
    BY <2>1, <2>2, <2>3, StorePreserves
<1>3. QED
  BY <1>1, <1>2

LEMMA RemovePreserves ==
  ASSUME CacheIInv, NEW k \in Key, CallRemove(k)
  PROVE  CacheIInv'
<1>1. TypeOK'
  BY IndexType DEF CacheIInv, TypeOK, CallRemove, Remove, EmptySlot, SlotType
<1>2. SlotsWellFormed'
  BY IndexType DEF CacheIInv, TypeOK, SlotsWellFormed, CallRemove, Remove
<1>3. CoherentWithStored'
  BY IndexType
     DEF CacheIInv, TypeOK, CoherentWithStored, CallRemove, Remove, EmptySlot, Find, Value
<1>4. QED
  BY <1>1, <1>2, <1>3 DEF CacheIInv

LEMMA CacheNext == CacheIInv /\ [Next]_vars => CacheIInv'
<1> SUFFICES ASSUME CacheIInv, [Next]_vars PROVE CacheIInv'
  OBVIOUS
<1>1. CASE UNCHANGED vars
  BY <1>1 DEF CacheIInv, TypeOK, SlotsWellFormed, CoherentWithStored, Find, Value, vars
<1>2. CASE Next
  BY <1>2, GetPreserves, PutPreserves, PutIfNotEvictPreserves, RemovePreserves DEF Next
<1>3. QED
  BY <1>1, <1>2

LEMMA CacheInvariance == Spec => []CacheIInv
  BY CacheInit, CacheNext, PTL DEF Spec

\* Whatever the calls, a slot is zeroed or holds a key that hashes to it with a value,
\* and an access bit is set only on such a slot (p4-cache.h:49-138).
THEOREM SlotsStayWellFormed == Spec => []SlotsWellFormed
  BY CacheInvariance, PTL DEF CacheIInv

\* Whatever the calls, a hit returns the value stored last for its key, and what was
\* stored and neither removed nor displaced is found (p4-cache.h:49-138).
THEOREM CacheCoherent == Spec => []CoherentWithStored
  BY CacheInvariance, PTL DEF CacheIInv

\* Every entry of a key other than 0 that another key takes the place of is reported
\* to the caller, with its value, for spilling over (p4-cache.h:107-128).
THEOREM DisplacedReported == Spec => DisplacedOnlyWithReport
<1>1. ASSUME CacheIInv, [Next]_vars, NEW k \in Key \ {EmptyKey},
             Find(cache, Index[k], k), ~Find(cache, Index[k], k)'
      PROVE  \/ cache'[Index[k]] = EmptySlot
             \/ \E j \in Key :
                  /\ Evicts(cache, Index[j], j)
                  /\ Evicted(cache, Index[j]) = [key |-> k, val |-> stored[k]]
                  /\ cache'[Index[j]].key = j
                  /\ cache'[Index[j]].bit = 0
  <2>0. /\ cache \in [Slot -> SlotType(Key, Val)] /\ Index[k] \in Slot
        /\ cache[Index[k]].key = k /\ cache[Index[k]].val = stored[k]
    BY <1>1, IndexType DEF CacheIInv, TypeOK, CoherentWithStored, Find, Value
  <2>1. ASSUME NEW j \in Key, CallGet(j) PROVE FALSE
    BY <1>1, <2>0, <2>1, IndexType DEF CallGet, Get, Find, SlotType
  <2>2. ASSUME NEW j \in Key, CallRemove(j) PROVE cache'[Index[k]] = EmptySlot
    BY <1>1, <2>0, <2>2, IndexType DEF CallRemove, Remove, Find
  <2>3. ASSUME NEW j \in Key, NEW v \in Val, CallPut(j, v)
        PROVE  /\ Evicts(cache, Index[j], j)
               /\ Evicted(cache, Index[j]) = [key |-> k, val |-> stored[k]]
               /\ cache'[Index[j]].key = j
               /\ cache'[Index[j]].bit = 0
    BY <1>1, <2>0, <2>3, IndexType, CacheAssumption DEF CallPut, Put, Find, Evicts, Evicted
  <2>4. ASSUME NEW j \in Key, NEW v \in Val, CallPutIfNotEvict(j, v) PROVE FALSE
    BY <1>1, <2>0, <2>4, IndexType, CacheAssumption
       DEF CallPutIfNotEvict, PutIfNotEvict, Find, Evicts
  <2>5. CASE UNCHANGED vars
    BY <1>1, <2>5 DEF vars, Find
  <2>6. QED
    BY <1>1, <2>1, <2>2, <2>3, <2>4, <2>5 DEF Next
<1>2. CacheIInv /\ [Next]_vars =>
        [\A k \in Key \ {EmptyKey} :
           Find(cache, Index[k], k) /\ ~Find(cache, Index[k], k)' =>
             \/ cache'[Index[k]] = EmptySlot
             \/ \E j \in Key :
                  /\ Evicts(cache, Index[j], j)
                  /\ Evicted(cache, Index[j]) = [key |-> k, val |-> stored[k]]
                  /\ cache'[Index[j]].key = j
                  /\ cache'[Index[j]].bit = 0]_vars
  BY <1>1
<1>3. QED
  BY CacheInit, CacheNext, <1>2, PTL DEF Spec, DisplacedOnlyWithReport
=============================================================================
