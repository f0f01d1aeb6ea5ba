---------------------------- MODULE TofinoProofs ----------------------------
(***************************************************************************)
(* What the registers of a prototype switch mean, for any sets of          *)
(* addresses, any hash and any number of slots.                            *)
(***************************************************************************)
EXTENDS TofinoSwitch, TLAPS

\* Types of the registers.
Typed ==
  /\ type \in SwitchType
  /\ keys \in [Slot -> [key : VIP \cup {NoKey}, bit : {0, 1}]]
  /\ vals \in [Slot -> Phys \cup {0}]
  /\ looked \in [Slot -> VIP \cup {NoKey}]

\* A tag is believed because its value was heard with its key; an access bit survives
\* because only lookups set it.  The three facts support one another through the spills.
RegisterInv == Typed /\ KeyValTogether /\ SaysOnlyHeard /\ BitMeansUsed

\* Every packet that stores an entry asserts it.
LEMMA EntryAsserted ==
  ASSUME type \in SwitchType, NEW h \in Data \cup Protocol,
         h.type # "INVALIDATION", ~ToGw(h)
  PROVE  /\ EntryOf(h).key \in VIP /\ EntryOf(h).val \in Phys
         /\ h.type # "INVALIDATION_TAG" =>
              <<EntryOf(h).key, EntryOf(h).val>> \in Asserted(h)
<1>1. CASE h \in Protocol
  BY <1>1 DEF Protocol, EntryOf, LearnsSource, Parsed, Tagged, Asserted, ToGw
<1>2. CASE h \in Data /\ h \notin Protocol
  BY <1>2, TofinoAssumption
     DEF Data, Untagged, WithTag, EntryOf, LearnsSource, Parsed, Tagged, Asserted, ToGw
<1> QED BY <1>1, <1>2

\* The key of every packet is a virtual address.
LEMMA EntryKey ==
  ASSUME NEW h \in Data \cup Protocol
  PROVE  EntryOf(h).key \in VIP
BY DEF Data, Untagged, WithTag, Protocol, EntryOf, LearnsSource, Parsed, Tagged, ToGw

\* A packet on its way to a gateway is looked up by its own destination, or it is a
\* stray that kept its tag, outside the reach of TORs and SPINEs, and is looked up by that.
LEMMA ToGwKey ==
  ASSUME NEW h \in Data, ToGw(h), ~Misdelivered(h)
  PROVE  \/ EntryOf(h).key = h.idst
         \/ /\ h.type = "EVICTION_TAG" /\ h.osrc \in Misdelivering
            /\ type \notin {"TOR", "SPINE"} /\ EntryOf(h).key = h.key
BY DEF Data, Untagged, WithTag, EntryOf, LearnsSource, Parsed, Tagged, ToGw, Misdelivered

\* What a packet leaves with unchanged was asserted by it.
LEMMA PassedOn ==
  ASSUME NEW h \in Data \cup Protocol, Hears(h), out' = h, mirrored' = {}
  PROVE  SaysOnlyHeard'
<1>1. CASE h \in Protocol
  BY <1>1 DEF SaysOnlyHeard, Protocol
<1>2. CASE h \in Data /\ h \notin Protocol
  BY <1>2 DEF SaysOnlyHeard, Data, Untagged, WithTag, Asserted, Hears, ToGw
<1> QED BY <1>1, <1>2

LEMMA ReceivePreserves ==
  ASSUME RegisterInv, NEW h \in Data \cup Protocol, Hears(h), UNCHANGED type
  PROVE  /\ ReceiveLearning(h) => RegisterInv'
         /\ ReceiveInvalidation(h) => RegisterInv'
         /\ ReceiveMisdelivered(h) => RegisterInv'
         /\ ReceiveToGw(h) => RegisterInv'
         /\ ReceiveAtTor(h) => RegisterInv'
         /\ ReceiveAtSpineOrCore(h) => RegisterInv'
         /\ ReceiveAtGwTor(h) => RegisterInv'
         /\ PassAtCore(h) => RegisterInv'
<1> DEFINE e == EntryOf(h)
           i == Index[e.key]
<1>0. Typed /\ KeyValTogether /\ SaysOnlyHeard /\ BitMeansUsed
  BY DEF RegisterInv
<1>a. /\ e.key \in VIP /\ i \in Slot /\ NoKey \notin VIP
      /\ heard \subseteq heard' /\ Asserted(h) \subseteq heard'
  BY EntryKey, TofinoAssumption DEF NoKey, Hears
<1>b. h \in Protocol => ~ToGw(h) /\ e.key = h.key
  BY TofinoAssumption DEF Protocol, ToGw, EntryOf, LearnsSource, Parsed, Tagged
<1>c. h.type \notin {"INVALIDATION", "LEARNING"} => h \in Data /\ h \notin Protocol
  BY DEF Data, Untagged, WithTag, Protocol
<1>s. ASSUME e.val \in Phys, <<e.key, e.val>> \in heard',
             SetKey(i, e.key), SetVal(i, e.val), UNCHANGED looked
      PROVE  Typed' /\ KeyValTogether' /\ BitMeansUsed'
  <2>1. Typed'
    BY <1>0, <1>a, <1>s DEF Typed, SetKey, SetVal
  <2>2. KeyValTogether'
    BY <1>0, <1>a, <1>s DEF Typed, KeyValTogether, SetKey, SetVal
  <2>3. BitMeansUsed'
    BY <1>0, <1>a, <1>s DEF Typed, BitMeansUsed, SetKey
  <2> QED BY <2>1, <2>2, <2>3
<1>p. ASSUME h \in Data /\ h \notin Protocol, ~ToGw(h), out' = Spilled(h, i),
             mirrored' \in {{}, {[type |-> "LEARNING", key |-> h.idst, val |-> h.odst]}}
      PROVE  SaysOnlyHeard'
  <2>1. <<h.idst, h.odst>> \in heard'
    BY <1>p, <1>a DEF Asserted, ToGw
  <2>2. keys[i].key # NoKey => <<keys[i].key, vals[i]>> \in heard'
    BY <1>0, <1>a DEF KeyValTogether
  <2>3. /\ out'.idst = h.idst /\ out'.odst = h.odst
        /\ out'.key = keys[i].key /\ out'.val = vals[i]
        /\ out'.type = IF keys[i].key = NoKey THEN "NORMAL" ELSE "EVICTION_TAG"
    BY <1>p DEF Spilled, Data, Untagged, WithTag
  <2>4. \A m \in mirrored' : m.type = "LEARNING" => <<m.key, m.val>> \in heard'
    BY <1>p, <2>1
  <2> QED BY <2>1, <2>2, <2>3, <2>4 DEF SaysOnlyHeard
<1>1. ASSUME ReceiveLearning(h) PROVE RegisterInv'
  <2>1. /\ h \in Protocol /\ e = [key |-> h.key, val |-> h.val]
        /\ h.val \in Phys /\ <<h.key, h.val>> \in Asserted(h)
    BY <1>1, TofinoAssumption
       DEF ReceiveLearning, Data, Untagged, WithTag, Protocol, EntryOf, LearnsSource, Parsed,
           Tagged, Asserted
  <2>2. Typed' /\ KeyValTogether' /\ BitMeansUsed'
    BY <1>1, <1>a, <2>1, <1>s DEF ReceiveLearning
  <2> QED BY <1>1, <2>2, PassedOn DEF ReceiveLearning, RegisterInv
<1>2. ASSUME ReceiveInvalidation(h) PROVE RegisterInv'
  <2>1. Typed'
    BY <1>0, <1>2, <1>a DEF ReceiveInvalidation, Typed, ClearKey, NoKey
  <2>2. KeyValTogether'
    BY <1>0, <1>2, <1>a DEF ReceiveInvalidation, Typed, KeyValTogether, ClearKey
  <2>3. BitMeansUsed'
    BY <1>0, <1>2, <1>a DEF ReceiveInvalidation, Typed, BitMeansUsed, ClearKey
  <2> QED BY <1>2, <2>1, <2>2, <2>3, PassedOn DEF ReceiveInvalidation, RegisterInv
<1>3. ASSUME ReceiveMisdelivered(h) PROVE RegisterInv'
  <2>1. Typed' /\ KeyValTogether' /\ BitMeansUsed'
    BY <1>0, <1>3, <1>a DEF ReceiveMisdelivered, Typed, KeyValTogether, BitMeansUsed
  <2>2. /\ out'.type = "INVALIDATION_TAG" /\ ToGw(out')
        /\ \A m \in mirrored' : m.type = "INVALIDATION"
    BY <1>3, <1>c DEF ReceiveMisdelivered, Data, Untagged, WithTag, ToGw
  <2> QED BY <2>1, <2>2 DEF SaysOnlyHeard, RegisterInv, ToGw
<1>4. ASSUME ReceiveToGw(h) PROVE RegisterInv'
  <2>1. h \in Data /\ h \notin Protocol /\ ToGw(h) /\ ~Misdelivered(h)
    BY <1>4, <1>c DEF ReceiveToGw
  <2>7. \/ e.key = h.idst
        \/ /\ h.type = "EVICTION_TAG" /\ h.osrc \in Misdelivering
           /\ type \notin {"TOR", "SPINE"} /\ e.key = h.key
    BY <2>1, ToGwKey
  <2>2. Typed'
    BY <1>0, <1>4, <1>a DEF ReceiveToGw, Typed, CheckKey
  <2>3. KeyValTogether'
    BY <1>0, <1>4, <1>a DEF ReceiveToGw, Typed, KeyValTogether, CheckKey
  <2>4. BitMeansUsed'
    BY <1>0, <1>4, <1>a DEF ReceiveToGw, Typed, BitMeansUsed, CheckKey
  <2>5. CASE keys[i].key # e.key
    BY <1>4, <2>2, <2>3, <2>4, <2>5, PassedOn DEF ReceiveToGw, RegisterInv
  <2>6. CASE keys[i].key = e.key
    <3>1. <<e.key, vals[i]>> \in heard'
      BY <1>0, <1>a, <2>6 DEF KeyValTogether
    <3>2. h.type = "EVICTION_TAG" => <<h.key, h.val>> \in heard'
      BY <1>a, <2>1 DEF Asserted
    <3>3. CASE type = "SPINE"
      <4>1. out' = [h EXCEPT !.type = "EVICTION_TAG", !.key = h.idst, !.val = vals[i]]
        BY <1>4, <2>6, <3>3 DEF ReceiveToGw
      <4>2. /\ out'.type = "EVICTION_TAG" /\ ToGw(out')
            /\ out'.key = e.key /\ out'.val = vals[i] /\ mirrored' = {}
        BY <1>4, <4>1, <2>1, <2>7, <3>3 DEF ReceiveToGw, Data, Untagged, WithTag, ToGw
      <4> QED BY <3>1, <4>2, <2>2, <2>3, <2>4 DEF SaysOnlyHeard, RegisterInv, ToGw
    <3>4. CASE type # "SPINE"
      <4>1. out' = [h EXCEPT !.odst = vals[i], !.id = OwnId]
        BY <1>4, <2>6, <3>4 DEF ReceiveToGw
      <4>2. /\ out'.type = h.type /\ out'.odst = vals[i] /\ out'.idst = h.idst
            /\ out'.key = h.key /\ out'.val = h.val /\ out'.osrc = h.osrc /\ mirrored' = {}
        BY <1>4, <4>1, <2>1 DEF ReceiveToGw, Data, Untagged, WithTag
      <4>3. type' = type
        OBVIOUS
      <4>4. SaysOnlyHeard'
        BY <2>7, <3>1, <3>2, <4>2, <4>3 DEF SaysOnlyHeard
      <4> QED BY <4>4, <2>2, <2>3, <2>4 DEF RegisterInv
    <3> QED BY <3>3, <3>4
  <2> QED BY <2>5, <2>6
<1>5. ASSUME ReceiveAtTor(h) PROVE RegisterInv'
  <2>1. e.val \in Phys /\ <<e.key, e.val>> \in heard'
    BY <1>0, <1>5, <1>a, EntryAsserted DEF ReceiveAtTor, Typed
  <2>2. Typed' /\ KeyValTogether' /\ BitMeansUsed'
    BY <1>5, <2>1, <1>s DEF ReceiveAtTor
  <2> QED BY <1>5, <2>2, PassedOn DEF ReceiveAtTor, RegisterInv
<1>6. ASSUME ReceiveAtSpineOrCore(h) PROVE RegisterInv'
  <2>1. e.val \in Phys /\ <<e.key, e.val>> \in heard'
    BY <1>0, <1>6, <1>a, EntryAsserted DEF ReceiveAtSpineOrCore, Typed
  <2>2. CASE keys[i].bit # 0
    <3>1. Typed' /\ KeyValTogether' /\ BitMeansUsed'
      BY <1>0, <1>6, <1>a, <2>2
         DEF ReceiveAtSpineOrCore, Active, Typed, KeyValTogether, BitMeansUsed
    <3> QED BY <1>6, <2>2, <3>1, PassedOn DEF ReceiveAtSpineOrCore, Active, RegisterInv
  <2>3. CASE keys[i].bit = 0
    <3>1. /\ keys' = [keys EXCEPT ![i].key = e.key] /\ vals' = [vals EXCEPT ![i] = e.val]
          /\ out' = Spilled(h, i) /\ mirrored' = {} /\ looked' = looked
      BY <1>6, <2>3 DEF ReceiveAtSpineOrCore, Active
    <3>2. Typed'
      BY <1>0, <1>a, <2>1, <3>1 DEF Typed
    <3>3. KeyValTogether'
      BY <1>0, <1>a, <2>1, <3>1 DEF Typed, KeyValTogether
    <3>4. BitMeansUsed'
      BY <1>0, <1>a, <2>3, <3>1 DEF Typed, BitMeansUsed
    <3>5. SaysOnlyHeard'
      BY <1>6, <1>c, <3>1, <1>p DEF ReceiveAtSpineOrCore
    <3> QED BY <3>2, <3>3, <3>4, <3>5 DEF RegisterInv
  <2> QED BY <2>2, <2>3
<1>7. ASSUME ReceiveAtGwTor(h) PROVE RegisterInv'
  <2>1. e.val \in Phys /\ <<e.key, e.val>> \in heard'
    BY <1>0, <1>7, <1>a, EntryAsserted DEF ReceiveAtGwTor, Typed
  <2>2. Typed' /\ KeyValTogether' /\ BitMeansUsed'
    BY <1>7, <2>1, <1>s DEF ReceiveAtGwTor
  <2>3. SaysOnlyHeard'
    BY <1>7, <1>c, <1>p DEF ReceiveAtGwTor
  <2> QED BY <2>2, <2>3 DEF RegisterInv
<1>8. ASSUME PassAtCore(h) PROVE RegisterInv'
  <2>1. Typed' /\ KeyValTogether' /\ BitMeansUsed'
    BY <1>0, <1>8, <1>a DEF PassAtCore, Typed, KeyValTogether, BitMeansUsed
  <2> QED BY <1>8, <2>1, PassedOn DEF PassAtCore, RegisterInv
<1> QED BY <1>1, <1>2, <1>3, <1>4, <1>5, <1>6, <1>7, <1>8

\* For every hash, number of slots and set of addresses the registers keep their
\* meaning through every packet (switchv2p_cache.p4).
THEOREM RegistersMeanWhatTheySay == Spec => []RegisterInv
<1>1. Init => RegisterInv
  BY DEF Init, RegisterInv, Typed, KeyValTogether, SaysOnlyHeard, BitMeansUsed, NoPacket,
     NoKey
<1>2. RegisterInv /\ [Next]_vars => RegisterInv'
  <2> SUFFICES ASSUME RegisterInv, [Next]_vars PROVE RegisterInv'
    OBVIOUS
  <2>1. CASE Receive
    <3> PICK h \in Data \cup Protocol :
          /\ Hears(h)
          /\ \/ ReceiveLearning(h) \/ ReceiveInvalidation(h)
             \/ ReceiveMisdelivered(h) \/ ReceiveToGw(h)
             \/ ReceiveAtTor(h) \/ ReceiveAtSpineOrCore(h)
             \/ ReceiveAtGwTor(h) \/ PassAtCore(h)
      BY <2>1 DEF Receive
    <3> UNCHANGED type
      BY <2>1 DEF Receive
    <3> QED BY ReceivePreserves
  <2>2. CASE Tick \/ UNCHANGED vars
    BY <2>2 DEF Tick, vars, RegisterInv, Typed, KeyValTogether, SaysOnlyHeard,
       BitMeansUsed, ToGw
  <2> QED BY <2>1, <2>2 DEF Next
<1> QED BY <1>1, <1>2, PTL DEF Spec

\* A slot never pairs a key with a value no packet gave it, although the two are in
\* separate registers (switchv2p_cache.p4).
THEOREM PairsWereHeard == Spec => []KeyValTogether
  BY RegistersMeanWhatTheySay, PTL DEF RegisterInv

\* The destinations, tags and learning packets a switch sends were told by packets it
\* received, about the packet's own container or, for a stray that kept its tag, about
\* the container of the tag (switchv2p_cache.p4:149-168, switchv2p_parser.p4:45-59).
THEOREM SaysWhatItHeard == Spec => []SaysOnlyHeard
  BY RegistersMeanWhatTheySay, PTL DEF RegisterInv

\* A set access bit says that the key of the slot was the one last looked up there
\* (switchv2p_cache.p4).
THEOREM BitsMeanUse == Spec => []BitMeansUsed
  BY RegistersMeanWhatTheySay, PTL DEF RegisterInv

\* At a spine or a core, only a learning packet displaces an entry in use
\* (switchv2p_cache.p4:143, 175).
THEOREM OnlyLearningDisplaces == Spec => ActiveDisplacedByLearning
<1>1. RegisterInv /\ [Next]_vars =>
        [\A i \in Slot :
           /\ type \in {"SPINE", "GW_SPINE", "CORE"}
           /\ keys[i].bit = 1 /\ keys'[i].key \notin {keys[i].key, NoKey}
           => out'.type = "LEARNING"]_vars
  <2> SUFFICES ASSUME RegisterInv, Next, NEW i \in Slot,
                      type \in {"SPINE", "GW_SPINE", "CORE"},
                      keys[i].bit = 1, keys'[i].key # keys[i].key, keys'[i].key # NoKey
               PROVE  out'.type = "LEARNING"
    OBVIOUS
  <2>0. keys \in [Slot -> [key : VIP \cup {NoKey}, bit : {0, 1}]]
    BY DEF RegisterInv, Typed
  <2>1. Receive
    BY DEF Next, Tick
  <2>2. PICK h \in Data \cup Protocol :
          \/ ReceiveLearning(h) \/ ReceiveInvalidation(h)
          \/ ReceiveMisdelivered(h) \/ ReceiveToGw(h)
          \/ ReceiveAtTor(h) \/ ReceiveAtSpineOrCore(h)
          \/ ReceiveAtGwTor(h) \/ PassAtCore(h)
    BY <2>1 DEF Receive
  <2>3. CASE ReceiveLearning(h)
    BY <2>3 DEF ReceiveLearning
  <2>4. CASE ReceiveInvalidation(h)
    BY <2>0, <2>4 DEF ReceiveInvalidation, ClearKey
  <2>5. CASE ReceiveMisdelivered(h) \/ ReceiveAtTor(h) \/ ReceiveAtGwTor(h) \/ PassAtCore(h)
    BY <2>5 DEF ReceiveMisdelivered, ReceiveAtTor, ReceiveAtGwTor, PassAtCore
  <2>6. CASE ReceiveToGw(h)
    BY <2>0, <2>6 DEF ReceiveToGw, CheckKey
  <2>7. CASE ReceiveAtSpineOrCore(h)
    <3> DEFINE j == Index[EntryOf(h).key]
    <3>1. keys' = IF Active(j) THEN keys ELSE [keys EXCEPT ![j].key = EntryOf(h).key]
      BY <2>7 DEF ReceiveAtSpineOrCore
    <3> HIDE DEF j
    <3>2. j # i
      BY <3>1 DEF Active
    <3> QED BY <2>0, <3>1, <3>2
  <2> QED BY <2>2, <2>3, <2>4, <2>5, <2>6, <2>7
<1> QED BY <1>1, RegistersMeanWhatTheySay, PTL DEF Spec, ActiveDisplacedByLearning

-----------------------------------------------------------------------------
(* The timestamps, while the clock does not wrap                           *)

\* All the times the switch computes fit in a timestamp_t.
NoWrap == MaxTime >= 1 /\ MaxTime + Timeout < ClockMod

\* Each register holds the end of the quiet period of its switch.
ClockInv ==
  /\ elapsed \in 1 .. MaxTime
  /\ generated \in [HitId -> 0 .. MaxTime]
  /\ bf = [d \in HitId |-> IF generated[d] = 0 THEN 0 ELSE generated[d] + Timeout]

\* What the steps may do to the timestamps.
ClockStep ==
  \/ UNCHANGED <<generated, quiet>>
  \/ \E d \in HitId : /\ elapsed > bf[d] /\ UNCHANGED quiet
                       /\ generated' = [generated EXCEPT ![d] = elapsed]
  \/ \E d \in HitId : /\ elapsed <= bf[d] /\ UNCHANGED generated
                       /\ quiet' = [at |-> elapsed, id |-> d]

LEMMA Modulo == ASSUME NEW x \in Nat, x < ClockMod PROVE x % ClockMod = x
  BY TofinoAssumption

LEMMA ClockNext ==
  ASSUME NoWrap, ClockInv, [Next]_vars
  PROVE  ClockInv' /\ ClockStep
<1>0. /\ MaxTime \in Nat /\ Timeout \in Nat /\ ClockMod \in Nat
      /\ elapsed \in Nat /\ elapsed <= MaxTime /\ MaxTime + Timeout < ClockMod
  BY TofinoAssumption DEF NoWrap, ClockInv
<1>1. now = elapsed /\ (now + Timeout) % ClockMod = elapsed + Timeout
  <2>1. now = elapsed
    BY <1>0, Modulo DEF now
  <2> QED BY <1>0, <2>1, Modulo
<1>2. ASSUME UNCHANGED <<bf, generated, quiet>>, elapsed' \in 1 .. MaxTime
      PROVE  ClockInv' /\ ClockStep
  BY <1>2 DEF ClockInv, ClockStep
<1>3. ASSUME NEW d \in HitId, CheckTimeout(d), elapsed' = elapsed
      PROVE  ClockInv' /\ ClockStep
  <2>1. CASE elapsed > bf[d]
    <3>1. /\ bf' = [bf EXCEPT ![d] = elapsed + Timeout]
          /\ generated' = [generated EXCEPT ![d] = elapsed] /\ UNCHANGED quiet
      BY <1>1, <1>3, <2>1 DEF CheckTimeout
    <3>2. elapsed \in 0 .. MaxTime /\ elapsed # 0
      BY <1>0 DEF ClockInv
    <3>3. generated' \in [HitId -> 0 .. MaxTime]
      BY <3>1, <3>2 DEF ClockInv
    <3>4. bf' = [c \in HitId |-> IF generated'[c] = 0 THEN 0 ELSE generated'[c] + Timeout]
      BY <3>1, <3>2 DEF ClockInv
    <3> QED BY <1>3, <2>1, <3>1, <3>3, <3>4 DEF ClockInv, ClockStep
  <2>2. CASE ~(elapsed > bf[d])
    <3>1. quiet' = [at |-> elapsed, id |-> d] /\ UNCHANGED <<bf, generated>>
      BY <1>1, <1>3, <2>2 DEF CheckTimeout
    <3>2. bf[d] \in Nat
      BY <1>0 DEF ClockInv
    <3>3. elapsed <= bf[d]
      BY <1>0, <2>2, <3>2
    <3> QED BY <1>3, <3>1, <3>3 DEF ClockInv, ClockStep
  <2> QED BY <2>1, <2>2
<1>4. CASE Receive
  <2>1. elapsed' = elapsed /\ elapsed' \in 1 .. MaxTime
    BY <1>4 DEF Receive, ClockInv
  <2>2. PICK h \in Data \cup Protocol :
          \/ ReceiveLearning(h) \/ ReceiveInvalidation(h)
          \/ ReceiveMisdelivered(h) \/ ReceiveToGw(h)
          \/ ReceiveAtTor(h) \/ ReceiveAtSpineOrCore(h)
          \/ ReceiveAtGwTor(h) \/ PassAtCore(h)
    BY <1>4 DEF Receive
  <2>3. CASE ReceiveMisdelivered(h)
    <3>1. h.id \in HitId
      BY <2>3 DEF ReceiveMisdelivered, Data, Protocol, Untagged, WithTag
    <3> QED BY <1>3, <2>1, <2>3, <3>1 DEF ReceiveMisdelivered
  <2>4. CASE \/ ReceiveLearning(h) \/ ReceiveInvalidation(h) \/ ReceiveToGw(h)
             \/ ReceiveAtTor(h) \/ ReceiveAtSpineOrCore(h)
             \/ ReceiveAtGwTor(h) \/ PassAtCore(h)
    <3>1. UNCHANGED <<bf, generated, quiet>>
      BY <2>4 DEF ReceiveLearning, ReceiveInvalidation, ReceiveToGw, ReceiveAtTor,
         ReceiveAtSpineOrCore, ReceiveAtGwTor, PassAtCore
    <3> QED BY <1>2, <2>1, <3>1
  <2> QED BY <2>2, <2>3, <2>4
<1>5. CASE Tick
  <2>1. elapsed' \in 1 .. MaxTime /\ UNCHANGED <<bf, generated, quiet>>
    BY <1>0, <1>5 DEF Tick, ClockInv
  <2> QED BY <1>2, <2>1
<1>6. CASE UNCHANGED vars
  BY <1>2, <1>6 DEF vars, ClockInv
<1> QED BY <1>4, <1>5, <1>6 DEF Next

LEMMA ClockHolds == ASSUME NoWrap PROVE Spec => []ClockInv
<1>1. Init => ClockInv
  BY TofinoAssumption DEF Init, ClockInv, NoWrap
<1>2. ClockInv /\ [Next]_vars => ClockInv'
  BY ClockNext
<1> QED BY <1>1, <1>2, PTL DEF Spec

\* As long as its clock does not wrap, a switch generates no two invalidation packets
\* for the same switch within the timeout (switchv2p_cache.p4, check_timeout).
THEOREM QuietPeriod == ASSUME NoWrap PROVE Spec => OnePerTimeout
<1>1. ClockInv /\ [Next]_vars =>
        [\A d \in HitId : generated'[d] # generated[d] /\ generated[d] # 0 =>
           elapsed > generated[d] + Timeout]_vars
  <2> SUFFICES ASSUME ClockInv, [Next]_vars, NEW d \in HitId,
                      generated'[d] # generated[d], generated[d] # 0
               PROVE  elapsed > generated[d] + Timeout
    OBVIOUS
  <2>1. bf[d] = generated[d] + Timeout
    BY DEF ClockInv
  <2>2. ClockStep
    BY ClockNext
  <2>3. elapsed > bf[d]
    BY <2>2 DEF ClockStep, ClockInv
  <2> QED BY <2>1, <2>3
<1> QED BY <1>1, ClockHolds, PTL DEF Spec, OnePerTimeout

\* As long as its clock does not wrap, a switch holds an invalidation back only within
\* the timeout of the last one for the same switch; the run tofino_wrap shows what
\* happens to this when the clock wraps (switchv2p_cache.p4, check_timeout).
THEOREM HeldBackWithinTimeout == ASSUME NoWrap PROVE Spec => HeldBackBriefly
<1>1. ClockInv /\ [Next]_vars =>
        [quiet' # quiet /\ generated[quiet'.id] # 0 =>
           elapsed <= generated[quiet'.id] + Timeout]_vars
  <2> SUFFICES ASSUME ClockInv, [Next]_vars, quiet' # quiet, generated[quiet'.id] # 0
               PROVE  elapsed <= generated[quiet'.id] + Timeout
    OBVIOUS
  <2>1. PICK d \in HitId : elapsed <= bf[d] /\ quiet' = [at |-> elapsed, id |-> d]
    BY ClockNext DEF ClockStep
  <2>2. quiet'.id = d
    BY <2>1
  <2>3. bf[d] = generated[d] + Timeout
    BY <2>2 DEF ClockInv
  <2> QED BY <2>1, <2>2, <2>3
<1> QED BY <1>1, ClockHolds, PTL DEF Spec, HeldBackBriefly
=============================================================================
