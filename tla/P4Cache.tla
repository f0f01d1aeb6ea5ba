------------------------------ MODULE P4Cache ------------------------------
(***************************************************************************)
(* The direct-mapped cache of a switch (switchv2p/include/p4-cache.h).     *)
(*                                                                         *)
(* The class keeps two parallel vectors, m_array of (key, value) pairs and *)
(* m_bits of access bits.  Here a cache is one function from slots to      *)
(* records [key, val, bit].  As in the code, key 0 marks an empty slot and *)
(* address 0 (NoAddr) marks "no value"; 0 is at the same time the virtual  *)
(* address of container 0, and every operator below keeps that ambiguity.  *)
(*                                                                         *)
(* The slot of a key (GetIndex, a CRC32 reduced modulo the size) is left   *)
(* to the caller: an operator gets the slot i of its key as an argument.   *)
(***************************************************************************)
EXTENDS Naturals

CONSTANT NoAddr   \* the physical address 0.0.0.0

\* The value that K and V are zero-initialised to.
EmptyKey == 0

EmptySlot == [key |-> EmptyKey, val |-> NoAddr, bit |-> 0]

SlotType(Key, Val) ==
  [key : Key \cup {EmptyKey}, val : Val \cup {NoAddr}, bit : {0, 1}]

\* P4Cache::Setup
EmptyCache(Slot) == [i \in Slot |-> EmptySlot]

\* P4Cache::Find: a key match alone is not a hit, the value must be set.
Find(c, i, k) == c[i].key = k /\ c[i].val # NoAddr

\* Mutant: the bit is never seen.
GetBitIgnored(c, i) == 0

\* P4Cache::GetBit
GetBit(c, i) == c[i].bit

\* P4Cache::Get: a hit sets the access bit of the slot, and a miss clears it,
\* whichever key occupies the slot.
Get(c, i, k) == [c EXCEPT ![i].bit = IF Find(c, i, k) THEN 1 ELSE 0]

\* The value P4Cache::Get returns on a hit.
Value(c, i) == c[i].val

\* Whether P4Cache::Put reports an evicted pair.
Evicts(c, i, k) == c[i].key # EmptyKey /\ c[i].key # k

\* The pair it reports.
Evicted(c, i) == [key |-> c[i].key, val |-> c[i].val]

\* P4Cache::Put
Put(c, i, k, v) == [c EXCEPT ![i] = [key |-> k, val |-> v, bit |-> 0]]

\* Mutants: the slot's own key is not updated; another key is overwritten.
PutIfEmpty(c, i, k, v) ==
  IF c[i].key # EmptyKey THEN c ELSE [c EXCEPT ![i].key = k, ![i].val = v]
PutInPlace(c, i, k, v) == [c EXCEPT ![i].key = k, ![i].val = v]

\* P4Cache::PutIfNotEvict: refused when another key holds the slot; the access
\* bit is left as it is.
PutIfNotEvict(c, i, k, v) ==
  IF Evicts(c, i, k)
  THEN c
  ELSE [c EXCEPT ![i] = [key |-> k, val |-> v, bit |-> c[i].bit]]

\* Mutant: only the value is cleared.
RemoveValue(c, i) == [c EXCEPT ![i].val = NoAddr, ![i].bit = 0]

\* P4Cache::Remove (its NS_ASSERT is the caller's obligation)
Remove(c, i) == [c EXCEPT ![i] = EmptySlot]
=============================================================================
