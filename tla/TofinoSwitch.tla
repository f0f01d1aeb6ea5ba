---------------------------- MODULE TofinoSwitch ----------------------------
(***************************************************************************)
(* One switch of the P4 prototype (p4-prototype/p4): the ingress pipeline  *)
(* with its registers keys, vals and bf, and the packets it mirrors to     *)
(* itself as invalidation or learning packets.                             *)
(*                                                                         *)
(* Unlike the simulator's cache, key and value of an entry are in two      *)
(* registers, written by separate actions; a packet has one header that    *)
(* serves as tag, as protocol packet and for leftovers of either; and the  *)
(* repetition of invalidations is limited by time, on a clock that wraps.  *)
(* Addresses 0 and 1 are taken to be invalid; 1 marks an empty slot.       *)
(*                                                                         *)
(* The l3_forwarding table decides where a packet goes next and changes    *)
(* nothing in the switch, so it is left out.                               *)
(***************************************************************************)
EXTENDS Integers

CONSTANTS
  VIP,             \* virtual addresses
  Phys,            \* physical addresses of hosts
  GwAddress,       \* the address in match_gw
  Misdelivering,   \* check_misdelivered: sources of packets that strayed
  HitId,           \* switch ids a packet may carry
  OwnId,           \* ig_md.switchv2p_md.switch_id
  Slot,
  Index,           \* [VIP -> Slot], the CRC32 of the key
  Timeout,         \* retransmit_timeout
  ClockMod,        \* number of values of a timestamp_t
  MaxTime          \* bound on the time that passes

SwitchType == {"TOR", "GW_TOR", "SPINE", "GW_SPINE", "CORE"}
NoKey      == 1

ASSUME TofinoAssumption ==
  /\ VIP \subseteq Nat \ {0, 1}
  /\ GwAddress \notin Phys \cup {"switch"} /\ Misdelivering \subseteq Phys
  /\ OwnId \in HitId
  /\ Index \in [VIP -> Slot]
  /\ Timeout \in Nat /\ ClockMod \in Nat \ {0} /\ MaxTime \in Nat

VARIABLES
  type,       \* switch_type, set once by the control plane
  keys,       \* the register of key and access bit
  vals,       \* the register of values
  bf,         \* the register of timestamps, per switch id
  elapsed,    \* true time; the pipeline sees it modulo ClockMod
  out,        \* the packet sent last
  mirrored,   \* the protocol packets generated with it
  heard,      \* history: translations read off the packets received
  looked,     \* history: the key last looked up in each slot
  generated,  \* history: when the last invalidation for an id was generated, or 0
  quiet       \* history: when an invalidation was last held back, and for whom

vars == <<type, keys, vals, bf, elapsed, out, mirrored, heard, looked, generated, quiet>>

now == elapsed % ClockMod

NoPacket == [type |-> "NONE"]

Init ==
  /\ type \in SwitchType
  /\ keys = [i \in Slot |-> [key |-> NoKey, bit |-> 0]]
  /\ vals = [i \in Slot |-> 0]
  /\ bf = [d \in HitId |-> 0]
  /\ elapsed = 1
  /\ out = NoPacket /\ mirrored = {} /\ heard = {}
  /\ looked = [i \in Slot |-> NoKey]
  /\ generated = [d \in HitId |-> 0] /\ quiet = [at |-> 0, id |-> OwnId]

-----------------------------------------------------------------------------
(* Headers                                                                 *)

ToGw(h)   == h.odst = GwAddress

\* check_misdelivered, whose answer only a TOR uses: a GW_TOR treats a packet that its
\* own host sends back like any other.
Misdelivered(h) == type = "TOR" /\ h.osrc \in Misdelivering

Tagged(h) == h.type \in {"INVALIDATION", "LEARNING", "EVICTION_TAG"}

\* Mutant: the value of a tag is taken from the outer header.
ParsedMixed(h) ==
  [key |-> IF Tagged(h) THEN h.key ELSE h.idst, val |-> h.odst]

\* The parser: the entry a packet is about is in its tag, or is its own pair.
Parsed(h) ==
  IF Tagged(h) THEN [key |-> h.key, val |-> h.val]
  ELSE [key |-> h.idst, val |-> h.odst]

\* The start of Cache.apply: a TOR turns to the source of a packet.
LearnsSource(h) ==
  ~ToGw(h) /\ type = "TOR" /\ h.type \in {"NORMAL", "EVICTION_TAG"}

EntryOf(h) ==
  IF LearnsSource(h) THEN [key |-> h.isrc, val |-> h.osrc] ELSE Parsed(h)

\* The headers that can arrive.  Protocol packets are addressed to switches.  On its
\* way to a gateway a packet is tagged only by a spine, with an entry for its own
\* destination; but a host sends a misdelivered packet back with the tag it came with,
\* about any container.  A TOR replaces that tag; sent by a host under a GW_TOR the
\* packet crosses gateway pods and cores with it, and no SPINE.
Untagged ==
  [type : {"NORMAL", "INVALIDATION_TAG"}, id : HitId, key : {NoKey}, val : {0},
   osrc : Phys, odst : Phys \cup {GwAddress}, isrc : VIP, idst : VIP]

WithTag ==
  [type : {"EVICTION_TAG"}, id : HitId, key : VIP, val : Phys,
   osrc : Phys, odst : Phys \cup {GwAddress}, isrc : VIP, idst : VIP]

Data ==
  {h \in Untagged \cup WithTag :
     /\ h.isrc # h.idst
     /\ h.type = "EVICTION_TAG" /\ ToGw(h) =>
          h.key = h.idst \/ (h.osrc \in Misdelivering /\ type # "SPINE")}

Protocol ==
  [type : {"INVALIDATION", "LEARNING"}, key : VIP, val : Phys, odst : {"switch"}]

\* The translations a packet asserts.
Asserted(h) ==
  IF h \in Protocol
  THEN IF h.type = "LEARNING" THEN {<<h.key, h.val>>} ELSE {}
  ELSE {<<h.isrc, h.osrc>>}
       \cup (IF h.type = "EVICTION_TAG" THEN {<<h.key, h.val>>} ELSE {})
       \cup (IF ToGw(h) THEN {} ELSE {<<h.idst, h.odst>>})

Hears(h) == heard' = heard \cup Asserted(h)

-----------------------------------------------------------------------------
(* Register actions                                                        *)

\* Mutant: the access bit survives.
SetKeyOnly(i, k) == keys' = [keys EXCEPT ![i].key = k]

SetKey(i, k) == keys' = [keys EXCEPT ![i] = [key |-> k, bit |-> 0]]

SetVal(i, v) == vals' = [vals EXCEPT ![i] = v]

CheckKey(i, k) ==
  /\ keys' = [keys EXCEPT ![i].bit = IF keys[i].key = k THEN 1 ELSE 0]
  /\ looked' = [looked EXCEPT ![i] = k]

ClearKey(i, k) ==
  keys' = IF keys[i].key = k THEN [keys EXCEPT ![i] = [key |-> NoKey, bit |-> 0]]
          ELSE keys

\* Mutants: the time of a switch is set by its first invalidation only, and later ones
\* are held back for ever; the time is never set, and nothing is held back.
CheckTimeoutOnce(d) ==
  IF now > bf[d] /\ bf[d] = 0
  THEN /\ bf' = [bf EXCEPT ![d] = (now + Timeout) % ClockMod]
       /\ generated' = [generated EXCEPT ![d] = elapsed]
       /\ UNCHANGED quiet
  ELSE /\ quiet' = [at |-> elapsed, id |-> d]
       /\ UNCHANGED <<bf, generated>>
CheckTimeoutForgetful(d) ==
  /\ UNCHANGED <<bf, quiet>>
  /\ generated' = [generated EXCEPT ![d] = elapsed]

\* check_timeout: an invalidation is generated unless one was a short time ago.
CheckTimeout(d) ==
  IF now > bf[d]
  THEN /\ bf' = [bf EXCEPT ![d] = (now + Timeout) % ClockMod]
       /\ generated' = [generated EXCEPT ![d] = elapsed]
       /\ UNCHANGED quiet
  ELSE /\ quiet' = [at |-> elapsed, id |-> d]
       /\ UNCHANGED <<bf, generated>>

-----------------------------------------------------------------------------
(* The branches of Cache.apply, with the egress of mirrored packets        *)

\* Mutant: the value is read after it was written.
SpilledLate(h, i) ==
  [h EXCEPT !.key = keys[i].key, !.val = EntryOf(h).val,
            !.type = IF keys[i].key = NoKey THEN "NORMAL" ELSE "EVICTION_TAG"]

\* A displaced key becomes the packet's tag.
Spilled(h, i) ==
  [h EXCEPT !.key = keys[i].key, !.val = vals[i],
            !.type = IF keys[i].key = NoKey THEN "NORMAL" ELSE "EVICTION_TAG"]

\* Protocol packets are handled by every switch they cross.
ReceiveLearning(h) ==
  LET i == Index[h.key]
  IN  /\ h.type = "LEARNING"
      /\ SetKey(i, h.key) /\ SetVal(i, h.val)
      /\ out' = h /\ mirrored' = {}
      /\ UNCHANGED <<bf, looked, generated, quiet>>

ReceiveInvalidation(h) ==
  LET k == EntryOf(h).key
  IN  /\ h.type \in {"INVALIDATION", "INVALIDATION_TAG"}
      /\ ClearKey(Index[k], k)
      /\ out' = h /\ mirrored' = {}
      /\ UNCHANGED <<vals, bf, looked, generated, quiet>>

\* The TOR of a host that received a packet for a container it does not have.
ReceiveMisdelivered(h) ==
  /\ h.type \in {"NORMAL", "EVICTION_TAG"} /\ ToGw(h)
  /\ Misdelivered(h)
  /\ CheckTimeout(h.id)
  /\ mirrored' = IF now > bf[h.id]
                 THEN {[type |-> "INVALIDATION", key |-> h.idst, val |-> h.val]} ELSE {}
  /\ out' = [h EXCEPT !.type = "INVALIDATION_TAG", !.key = h.idst]
  /\ UNCHANGED <<keys, vals, looked>>

\* A spine that knows the answer attaches it, any other switch uses it.
ReceiveToGw(h) ==
  LET k == EntryOf(h).key
      i == Index[k]
      found == keys[i].key = k
  IN  /\ h.type \in {"NORMAL", "EVICTION_TAG"} /\ ToGw(h)
      /\ ~Misdelivered(h)
      /\ CheckKey(i, k)
      /\ out' = CASE found /\ type = "SPINE" ->
                       [h EXCEPT !.type = "EVICTION_TAG", !.key = h.idst, !.val = vals[i]]
                  [] found /\ type # "SPINE" -> [h EXCEPT !.odst = vals[i], !.id = OwnId]
                  [] OTHER -> h
      /\ mirrored' = {}
      /\ UNCHANGED <<vals, bf, generated, quiet>>

ReceiveAtTor(h) ==
  LET e == EntryOf(h)
  IN  /\ h.type \in {"NORMAL", "EVICTION_TAG"} /\ ~ToGw(h)
      /\ type = "TOR"
      /\ SetKey(Index[e.key], e.key) /\ SetVal(Index[e.key], e.val)
      /\ out' = h /\ mirrored' = {}
      /\ UNCHANGED <<bf, looked, generated, quiet>>

\* Mutant: the access bit is not asked.
NeverActive(i) == FALSE

Active(i) == keys[i].bit # 0

\* set_key_if_not_active: an entry in use stays.
ReceiveAtSpineOrCore(h) ==
  LET e == EntryOf(h)
      i == Index[e.key]
  IN  /\ h.type \in {"NORMAL", "EVICTION_TAG"} /\ ~ToGw(h)
      /\ type \in {"SPINE", "GW_SPINE"} \/ (type = "CORE" /\ h.type = "EVICTION_TAG")
      /\ keys' = IF Active(i) THEN keys ELSE [keys EXCEPT ![i].key = e.key]
      /\ vals' = IF Active(i) THEN vals ELSE [vals EXCEPT ![i] = e.val]
      /\ out' = IF Active(i) THEN h ELSE Spilled(h, i)
      /\ mirrored' = {}
      /\ UNCHANGED <<bf, looked, generated, quiet>>

\* The gateway's TOR stores what it sees and may mirror it to the sender's TOR.
ReceiveAtGwTor(h) ==
  LET e == EntryOf(h)
      i == Index[e.key]
  IN  /\ h.type \in {"NORMAL", "EVICTION_TAG"} /\ ~ToGw(h)
      /\ type = "GW_TOR"
      /\ mirrored' \in {{}, {[type |-> "LEARNING", key |-> h.idst, val |-> h.odst]}}
      /\ SetKey(i, e.key) /\ SetVal(i, e.val)
      /\ out' = Spilled(h, i)
      /\ UNCHANGED <<bf, looked, generated, quiet>>

PassAtCore(h) ==
  /\ h.type = "NORMAL" /\ ~ToGw(h) /\ type = "CORE"
  /\ out' = h /\ mirrored' = {}
  /\ UNCHANGED <<keys, vals, bf, looked, generated, quiet>>

Receive ==
  /\ \E h \in Data \cup Protocol :
       /\ Hears(h)
       /\ \/ ReceiveLearning(h) \/ ReceiveInvalidation(h)
          \/ ReceiveMisdelivered(h) \/ ReceiveToGw(h)
          \/ ReceiveAtTor(h) \/ ReceiveAtSpineOrCore(h)
          \/ ReceiveAtGwTor(h) \/ PassAtCore(h)
  /\ UNCHANGED <<type, elapsed>>

\* Time passes.  Only a TOR reads the clock, in check_timeout; elsewhere it may as well
\* stand still.
Tick ==
  /\ type = "TOR" /\ elapsed < MaxTime
  /\ elapsed' = elapsed + 1
  /\ UNCHANGED <<type, keys, vals, bf, out, mirrored, heard, looked, generated, quiet>>

Next == Receive \/ Tick

Spec == Init /\ [][Next]_vars

-----------------------------------------------------------------------------
(* Properties                                                              *)

\* Key and value are in separate registers, written by separate actions of a packet
\* and cleared by another that touches only the keys: a slot with a key never pairs it
\* with a value no packet gave it.
KeyValTogether ==
  \A i \in Slot : keys[i].key # NoKey => <<keys[i].key, vals[i]>> \in heard

\* The same for what leaves the switch: the destination it writes into a packet, the
\* tag a packet carries and the learning packets mirrored were asserted by packets.  The
\* one exception is a stray that comes back with a tag where no TOR replaced it: it is
\* looked up by the key of the tag and goes to the host of that container
\* (switchv2p_parser.p4:45-51, switchv2p_cache.p4:149, 159, 165).
SaysOnlyHeard ==
  /\ out.type \in {"NORMAL", "INVALIDATION_TAG", "EVICTION_TAG"} /\ ~ToGw(out) =>
       \/ <<out.idst, out.odst>> \in heard
       \/ /\ out.type = "EVICTION_TAG" /\ out.osrc \in Misdelivering
          /\ type \notin {"TOR", "SPINE"} /\ <<out.key, out.odst>> \in heard
  /\ out.type = "EVICTION_TAG" => <<out.key, out.val>> \in heard
  /\ \A m \in mirrored : m.type = "LEARNING" => <<m.key, m.val>> \in heard

\* A set access bit says that the key now in the slot was the one last looked up there,
\* through every overwriting and clearing of the slot.
BitMeansUsed == \A i \in Slot : keys[i].bit = 1 => looked[i] = keys[i].key

\* Between two invalidation packets for the same switch more than the timeout passes.
OnePerTimeout ==
  [][\A d \in HitId : generated'[d] # generated[d] /\ generated[d] # 0 =>
       elapsed > generated[d] + Timeout]_vars

\* Once an invalidation was generated for a switch, the next is held back only until the
\* timeout has passed.
HeldBackBriefly ==
  [][quiet' # quiet /\ generated[quiet'.id] # 0 =>
       elapsed <= generated[quiet'.id] + Timeout]_vars

\* Where access bits protect entries, only a learning packet displaces one in use
\* (switchv2p_cache.p4:143, 175): neither what packets carry nor the destinations they
\* have do, in any order of lookups, insertions and clearings.  The exception is one to
\* what ptf-tests/test.py:295 says of spines: they "do not overwrite entries with set
\* access bits".
ActiveDisplacedByLearning ==
  [][\A i \in Slot :
       /\ type \in {"SPINE", "GW_SPINE", "CORE"}
       /\ keys[i].bit = 1 /\ keys'[i].key \notin {keys[i].key, NoKey}
       => out'.type = "LEARNING"]_vars
=============================================================================
