------------------------------ MODULE LRUCache ------------------------------
(***************************************************************************)
(* The LRU cache of Bluebird leaves and of SwitchApp                       *)
(* (switchv2p/include/lru-cache.h): a deque of keys, the one used last in  *)
(* front, beside a map from keys to values.  The two are kept apart here   *)
(* because it is their agreement that every loop over the deque relies on. *)
(* Remove, GetKeys, GetSize and GetEvictionCandidate have no callers.      *)
(***************************************************************************)
EXTENDS Naturals, Sequences, SequencesExt

EmptyLRU == [dq |-> <<>>, map |-> <<>>]

Has(c, k) == k \in DOMAIN c.map

\* The iterator at the first k of a deque that has one.
PlaceOf(dq, k) == CHOOSE i \in DOMAIN dq : dq[i] = k /\ \A j \in 1 .. i - 1 : dq[j] # k

\* Move k to the front, or put it there.
ToFront(dq, k) ==
  <<k>> \o IF k \in ToSet(dq) THEN RemoveAt(dq, PlaceOf(dq, k)) ELSE dq

\* LRUCache::Get.  The loop that looks for k in the deque ends only if it is there.
LRUGet(c, k) == IF Has(c, k) THEN [c EXCEPT !.dq = ToFront(@, k)] ELSE c

\* Mutant: a full cache drops the key used last.
LRUPutNewest(c, capacity, k, v) ==
  LET full == ~Has(c, k) /\ Len(c.dq) = capacity
      gone == IF full THEN {Head(c.dq)} ELSE {}
  IN  [dq |-> ToFront(IF full THEN Tail(c.dq) ELSE c.dq, k),
       map |-> [x \in (DOMAIN c.map \ gone) \cup {k} |-> IF x = k THEN v ELSE c.map[x]]]

\* LRUCache::Put: a new key in a full cache takes the place of the last in the deque.
LRUPut(c, capacity, k, v) ==
  LET full == ~Has(c, k) /\ Len(c.dq) = capacity
      gone == IF full THEN {Last(c.dq)} ELSE {}
  IN  [dq |-> ToFront(IF full THEN Front(c.dq) ELSE c.dq, k),
       map |-> [x \in (DOMAIN c.map \ gone) \cup {k} |-> IF x = k THEN v ELSE c.map[x]]]
=============================================================================
