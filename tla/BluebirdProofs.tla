--------------------------- MODULE BluebirdProofs ---------------------------
(***************************************************************************)
(* What a leaf in Bluebird mode promises, for any number of addresses and  *)
(* packets, any capacity of the cache and any length of the queue:         *)
(*   - the cache holds what was used last: deque and history are the same  *)
(*     sequence, as far as the cache reaches, before and after every call; *)
(*   - no packet gets lost or overtaken between the queue, the transmitter *)
(*     and the processor: what is inside stands in one line, behind what   *)
(*     has left the slow path.                                             *)
(***************************************************************************)
EXTENDS Bluebird, LRUCacheProofs, FiniteSetTheorems

-----------------------------------------------------------------------------
(* The deque and the history                                               *)

\* d holds the first of the keys r, as many as there is room for.
Latest(d, r) ==
  /\ Len(d) = IF Len(r) < Capacity THEN Len(r) ELSE Capacity
  /\ \A i \in 1 .. Len(d) : d[i] = r[i]

LEMMA LatestIsSubSeq ==
  ASSUME NEW d, NEW r \in Seq(VIP)
  PROVE  LET n == IF Len(r) < Capacity THEN Len(r) ELSE Capacity
         IN  d = SubSeq(r, 1, n) <=> d \in Seq(VIP) /\ Latest(d, r)
<1> DEFINE n == IF Len(r) < Capacity THEN Len(r) ELSE Capacity
           u == SubSeq(r, 1, n)
<1>0. Len(r) \in Nat /\ \A j \in 1 .. Len(r) : r[j] \in VIP
  BY LenProperties
<1>1. n \in Nat /\ n <= Len(r)
  BY <1>0, BluebirdAssumption
<1> HIDE DEF n
<1>2. u \in Seq(VIP) /\ Len(u) = n /\ \A j \in 1 .. n : u[j] = r[j]
  <2>1. \A j \in 1 .. n : r[j] \in VIP
    BY <1>0, <1>1
  <2>2. /\ u \in Seq(VIP)
        /\ Len(u) = IF 1 <= n THEN n - 1 + 1 ELSE 0
        /\ \A j \in 1 .. n - 1 + 1 : u[j] = r[1 + j - 1]
    BY <1>1, <2>1, SubSeqProperties
  <2> HIDE DEF u
  <2> QED BY <1>1, <2>2
<1> HIDE DEF u
<1>3. Latest(u, r)
  BY <1>2 DEF Latest, n
<1>4. ASSUME d \in Seq(VIP), Latest(d, r) PROVE d = u
  <2>1. Len(d) = Len(u) /\ \A j \in 1 .. Len(d) : d[j] = u[j]
    BY <1>2, <1>4 DEF Latest, n
  <2> QED BY <1>2, <1>4, <2>1, SeqEqual
<1> QED BY <1>2, <1>3, <1>4 DEF u, n

\* A key in the cache is used again: it moves to the front of both.
LEMMA LatestUsed ==
  ASSUME NEW d \in Seq(VIP), NEW r \in Seq(VIP), NoDup(r), Latest(d, r),
         NEW v \in ToSet(d)
  PROVE  Latest(ToFront(d, v), ToFront(r, v))
<1>0. /\ Len(d) \in Nat /\ Len(r) \in Nat /\ Capacity \in Nat /\ Len(d) <= Len(r)
      /\ ToSet(d) = {d[i] : i \in 1 .. Len(d)}
  <2>1. Len(d) \in Nat /\ Len(r) \in Nat /\ Capacity \in Nat
    BY LenProperties, BluebirdAssumption
  <2>2. ToSet(d) = {d[i] : i \in 1 .. Len(d)}
    BY ToSetProps
  <2>3. Len(d) = IF Len(r) < Capacity THEN Len(r) ELSE Capacity
    BY DEF Latest
  <2> QED BY <2>1, <2>2, <2>3
<1>1. PICK i \in 1 .. Len(d) : d[i] = v
  BY <1>0
<1>2. i \in 1 .. Len(r) /\ r[i] = v
  BY <1>0, <1>1 DEF Latest
<1>3. NoDup(d)
  BY <1>0 DEF NoDup, Latest
<1> DEFINE a == ToFront(d, v)
           b == ToFront(r, v)
<1>4. /\ Len(a) = Len(d) /\ a[1] = v
      /\ \A j \in 2 .. Len(d) : a[j] = IF j <= i THEN d[j - 1] ELSE d[j]
  BY <1>1, <1>3, ToFrontOld
<1>5. /\ Len(b) = Len(r) /\ b[1] = v
      /\ \A j \in 2 .. Len(r) : b[j] = IF j <= i THEN r[j - 1] ELSE r[j]
  BY <1>2, ToFrontOld
<1> HIDE DEF a, b
<1>6. \A j \in 1 .. Len(d) : a[j] = b[j]
  <2> SUFFICES ASSUME NEW j \in 1 .. Len(d) PROVE a[j] = b[j]
    OBVIOUS
  <2>1. CASE j = 1
    BY <1>4, <1>5, <2>1
  <2>2. CASE j # 1
    <3>1. j \in 2 .. Len(d) /\ j \in 2 .. Len(r) /\ j - 1 \in 1 .. Len(d)
      BY <1>0, <2>2
    <3>2. d[j] = r[j] /\ d[j - 1] = r[j - 1]
      BY <3>1 DEF Latest
    <3> QED BY <1>4, <1>5, <3>1, <3>2
  <2> QED BY <2>1, <2>2
<1> QED BY <1>4, <1>5, <1>6 DEF Latest, a, b

\* A new key pushes the others back, and the last one out if there is no room.
LEMMA LatestNew ==
  ASSUME NEW d \in Seq(VIP), NEW r \in Seq(VIP), NoDup(r), Latest(d, r),
         NEW v \in VIP, v \notin ToSet(d)
  PROVE  LET f == IF Len(d) = Capacity THEN Front(d) ELSE d
         IN  /\ f \in Seq(VIP) /\ NoDup(f) /\ v \notin ToSet(f)
             /\ ToSet(f) = IF Len(d) = Capacity THEN ToSet(d) \ {Last(d)} ELSE ToSet(d)
             /\ Latest(ToFront(f, v), ToFront(r, v))
<1> DEFINE f == IF Len(d) = Capacity THEN Front(d) ELSE d
<1>0. /\ Len(d) \in Nat /\ Len(r) \in Nat /\ Capacity \in Nat \ {0} /\ Len(d) <= Len(r)
      /\ Len(d) = Capacity \/ (Len(d) = Len(r) /\ Len(d) < Capacity)
      /\ ToSet(d) = {d[i] : i \in 1 .. Len(d)} /\ ToSet(r) = {r[i] : i \in 1 .. Len(r)}
  <2>1. Len(d) \in Nat /\ Len(r) \in Nat /\ Capacity \in Nat \ {0}
    BY LenProperties, BluebirdAssumption
  <2>2. ToSet(d) = {d[i] : i \in 1 .. Len(d)} /\ ToSet(r) = {r[i] : i \in 1 .. Len(r)}
    BY ToSetProps
  <2>3. Len(d) = IF Len(r) < Capacity THEN Len(r) ELSE Capacity
    BY DEF Latest
  <2>4. /\ Len(d) <= Len(r)
        /\ Len(d) = Capacity \/ (Len(d) = Len(r) /\ Len(d) < Capacity)
    BY <2>1, <2>3
  <2> QED BY <2>1, <2>2, <2>4
<1>1. NoDup(d)
  BY <1>0 DEF NoDup, Latest
<1>2. /\ f \in Seq(VIP) /\ NoDup(f) /\ v \notin ToSet(f)
      /\ ToSet(f) = IF Len(d) = Capacity THEN ToSet(d) \ {Last(d)} ELSE ToSet(d)
      /\ Len(f) = IF Len(d) = Capacity THEN Len(d) - 1 ELSE Len(d)
      /\ \A j \in 1 .. Len(f) : f[j] = d[j]
  <2>1. CASE Len(d) = Capacity
    <3>1. d # <<>>
      BY <1>0, <2>1, EmptySeq
    <3>2. /\ Front(d) \in Seq(VIP) /\ Len(Front(d)) = Len(d) - 1
          /\ \A j \in 1 .. Len(d) - 1 : Front(d)[j] = d[j]
          /\ NoDup(Front(d))
          /\ ToSet(Front(d)) = ToSet(d) \ {Last(d)}
      BY <1>1, <3>1, FrontProps
    <3> QED BY <2>1, <3>2
  <2>2. CASE Len(d) # Capacity
    BY <1>1, <2>2
  <2> QED BY <2>1, <2>2
<1> HIDE DEF f
<1> DEFINE a == ToFront(f, v)
           b == ToFront(r, v)
<1>3. /\ Len(a) = Len(f) + 1 /\ a[1] = v
      /\ \A j \in 2 .. Len(f) + 1 : a[j] = f[j - 1]
  BY <1>2, ToFrontNew
<1>4. /\ Len(b) = IF v \in ToSet(r) THEN Len(r) ELSE Len(r) + 1
      /\ v \in ToSet(r) => Len(d) = Capacity /\ Len(d) < Len(r)
      /\ b[1] = v
      /\ \A j \in 2 .. Len(a) : b[j] = r[j - 1]
  <2>1. CASE v \notin ToSet(r)
    <3>1. /\ Len(b) = Len(r) + 1 /\ b[1] = v
          /\ \A j \in 2 .. Len(r) + 1 : b[j] = r[j - 1]
      BY <2>1, ToFrontNew
    <3> HIDE DEF a, b
    <3>2. \A j \in 2 .. Len(a) : j \in 2 .. Len(r) + 1
      BY <1>0, <1>2, <1>3
    <3> QED BY <2>1, <3>1, <3>2
  <2>2. CASE v \in ToSet(r)
    <3>1. PICK i \in 1 .. Len(r) : r[i] = v
      BY <1>0, <2>2
    <3>2. i > Len(d)
      BY <1>0, <3>1 DEF Latest
    <3>3. /\ Len(b) = Len(r) /\ b[1] = v
          /\ \A j \in 2 .. Len(r) : b[j] = IF j <= i THEN r[j - 1] ELSE r[j]
      BY <3>1, ToFrontOld
    <3> HIDE DEF a, b
    <3>4. Len(d) = Capacity /\ Len(d) < Len(r)
      BY <1>0, <3>2
    <3>5. \A j \in 2 .. Len(a) : j \in 2 .. Len(r) /\ j <= i
      BY <1>0, <1>2, <1>3, <3>2, <3>4
    <3> QED BY <2>2, <3>3, <3>4, <3>5
  <2> QED BY <2>1, <2>2
<1> HIDE DEF a, b
<1>5. Len(a) = IF Len(b) < Capacity THEN Len(b) ELSE Capacity
  BY <1>0, <1>2, <1>3, <1>4
<1>6. \A j \in 1 .. Len(a) : a[j] = b[j]
  <2> SUFFICES ASSUME NEW j \in 1 .. Len(a) PROVE a[j] = b[j]
    OBVIOUS
  <2>1. CASE j = 1
    BY <1>3, <1>4, <2>1
  <2>2. CASE j # 1
    <3>1. j \in 2 .. Len(a) /\ j \in 2 .. Len(f) + 1 /\ j - 1 \in 1 .. Len(f)
          /\ j - 1 \in 1 .. Len(d)
      BY <1>0, <1>2, <1>3, <2>2
    <3>2. a[j] = f[j - 1] /\ f[j - 1] = d[j - 1] /\ b[j] = r[j - 1]
      BY <1>2, <1>3, <1>4, <3>1
    <3>3. d[j - 1] = r[j - 1]
      BY <3>1 DEF Latest
    <3> QED BY <3>2, <3>3
  <2> QED BY <2>1, <2>2
<1> QED BY <1>2, <1>5, <1>6 DEF Latest, a, b, f

-----------------------------------------------------------------------------
(* The cache                                                               *)

MapType == UNION {[K -> Host] : K \in SUBSET VIP}

LRUInv ==
  /\ recency \in Seq(VIP) /\ NoDup(recency)
  /\ cache \in [dq : Seq(VIP), map : MapType]
  /\ Latest(cache.dq, recency)
  /\ DOMAIN cache.map = ToSet(cache.dq)

LEMMA LRUGetInv ==
  ASSUME LRUInv, NEW v \in VIP, Has(cache, v),
         cache' = LRUGet(cache, v), recency' = ToFront(recency, v)
  PROVE  LRUInv' /\ cache'.map = cache.map
<1>1. /\ cache.dq \in Seq(VIP) /\ cache.map \in MapType /\ v \in ToSet(cache.dq)
      /\ cache = [dq |-> cache.dq, map |-> cache.map]
  BY DEF LRUInv, Has
<1>2. cache' = [dq |-> ToFront(cache.dq, v), map |-> cache.map]
  BY <1>1 DEF LRUGet
<1>3. NoDup(cache.dq)
  <2>1. Len(cache.dq) \in Nat /\ Len(recency) \in Nat /\ Capacity \in Nat
    BY <1>1, LenProperties, BluebirdAssumption DEF LRUInv
  <2> QED BY <2>1 DEF LRUInv, NoDup, Latest
<1>4. /\ ToFront(cache.dq, v) \in Seq(VIP)
      /\ ToSet(ToFront(cache.dq, v)) = ToSet(cache.dq) \cup {v}
  BY <1>1, <1>3, ToFrontProps
<1>5. ToFront(recency, v) \in Seq(VIP) /\ NoDup(ToFront(recency, v))
  BY ToFrontProps DEF LRUInv
<1>6. Latest(ToFront(cache.dq, v), ToFront(recency, v))
  BY <1>1, LatestUsed DEF LRUInv
<1>7. cache'.dq = ToFront(cache.dq, v) /\ cache'.map = cache.map
  BY <1>2
<1>8. cache' \in [dq : Seq(VIP), map : MapType]
  BY <1>1, <1>2, <1>4
<1>9. DOMAIN cache'.map = ToSet(cache'.dq)
  BY <1>1, <1>4, <1>7 DEF LRUInv
<1>10. recency' \in Seq(VIP) /\ NoDup(recency') /\ Latest(cache'.dq, recency')
  BY <1>5, <1>6, <1>7
<1> QED BY <1>7, <1>8, <1>9, <1>10 DEF LRUInv, NoDup, Latest

LEMMA LRUPutInv ==
  ASSUME LRUInv, NEW v \in VIP, NEW h \in Host,
         cache' = LRUPut(cache, Capacity, v, h), recency' = ToFront(recency, v)
  PROVE  /\ LRUInv'
         /\ v \in DOMAIN cache'.map /\ cache'.map[v] = h
         /\ \A x \in DOMAIN cache'.map :
              x # v => x \in DOMAIN cache.map /\ cache'.map[x] = cache.map[x]
<1> DEFINE d == cache.dq
           m == cache.map
           full == ~Has(cache, v) /\ Len(d) = Capacity
           f == IF full THEN Front(d) ELSE d
           gone == IF full THEN {Last(d)} ELSE {}
           n == [x \in (DOMAIN m \ gone) \cup {v} |-> IF x = v THEN h ELSE m[x]]
<1>1. cache' = [dq |-> ToFront(f, v), map |-> n]
  BY DEF LRUPut
<1>2. d \in Seq(VIP) /\ m \in MapType /\ DOMAIN m = ToSet(d)
  BY DEF LRUInv
<1>3. NoDup(d)
  <2>1. Len(d) \in Nat /\ Len(recency) \in Nat /\ Capacity \in Nat
    BY <1>2, LenProperties, BluebirdAssumption DEF LRUInv
  <2> QED BY <2>1 DEF LRUInv, NoDup, Latest
<1>4. /\ f \in Seq(VIP) /\ NoDup(f)
      /\ ToSet(f) = ToSet(d) \ gone
      /\ Latest(ToFront(f, v), ToFront(recency, v))
  <2>1. CASE Has(cache, v)
    <3>1. v \in ToSet(d) /\ f = d /\ gone = {}
      BY <1>2, <2>1 DEF Has
    <3>2. Latest(ToFront(d, v), ToFront(recency, v))
      BY <1>2, <3>1, LatestUsed DEF LRUInv
    <3> QED BY <1>2, <1>3, <3>1, <3>2
  <2>2. CASE ~Has(cache, v)
    <3>1. v \notin ToSet(d)
      BY <1>2, <2>2 DEF Has
    <3> DEFINE g == IF Len(d) = Capacity THEN Front(d) ELSE d
    <3>2. /\ g \in Seq(VIP) /\ NoDup(g)
          /\ ToSet(g) = IF Len(d) = Capacity THEN ToSet(d) \ {Last(d)} ELSE ToSet(d)
          /\ Latest(ToFront(g, v), ToFront(recency, v))
      BY <1>2, <3>1, LatestNew DEF LRUInv
    <3>3. f = g /\ ToSet(g) = ToSet(d) \ gone
      BY <2>2, <3>2
    <3> QED BY <3>2, <3>3
  <2> QED BY <2>1, <2>2
<1> HIDE DEF f
<1>5. ToFront(f, v) \in Seq(VIP) /\ ToSet(ToFront(f, v)) = ToSet(f) \cup {v}
  BY <1>4, ToFrontProps
<1>6. ToFront(recency, v) \in Seq(VIP) /\ NoDup(ToFront(recency, v))
  BY ToFrontProps DEF LRUInv
<1>7. m \in [DOMAIN m -> Host] /\ DOMAIN m \subseteq VIP
  BY <1>2 DEF MapType
<1> HIDE DEF gone, full
<1>8. /\ DOMAIN n = (DOMAIN m \ gone) \cup {v} /\ n[v] = h
      /\ \A x \in DOMAIN n : x # v => x \in DOMAIN m /\ n[x] = m[x]
  OBVIOUS
<1>9. n \in MapType
  <2>1. n \in [(DOMAIN m \ gone) \cup {v} -> Host]
    BY <1>7
  <2>2. (DOMAIN m \ gone) \cup {v} \in SUBSET VIP
    BY <1>7
  <2> QED BY <2>1, <2>2 DEF MapType
<1>10. DOMAIN n = ToSet(ToFront(f, v))
  BY <1>2, <1>4, <1>5, <1>8
<1> HIDE DEF n
<1>11. cache'.dq = ToFront(f, v) /\ cache'.map = n
  BY <1>1
<1>12. cache' \in [dq : Seq(VIP), map : MapType]
  BY <1>1, <1>5, <1>9
<1>13. /\ recency' \in Seq(VIP) /\ NoDup(recency') /\ Latest(cache'.dq, recency')
       /\ DOMAIN cache'.map = ToSet(cache'.dq)
  BY <1>4, <1>6, <1>10, <1>11
<1>14. LRUInv'
  BY <1>12, <1>13 DEF LRUInv, NoDup, Latest
<1> QED BY <1>8, <1>11, <1>14

-----------------------------------------------------------------------------
(* Types                                                                   *)

Sent == [id : PacketId, vip : VIP, to : Host, slow : BOOLEAN]

Types ==
  /\ queue \in Seq(Packet) /\ processing \in Seq(Packet)
  /\ programming \in Seq(VIP)
  /\ directory \in [VIP -> Host]
  /\ arrived \in 0 .. MaxPackets
  /\ left \in Seq(Sent)
  /\ busy \in BOOLEAN /\ completions \in Nat

\* What Receive passes on to its three cases.
LEMMA ReceiveCases ==
  ASSUME Types, Receive
  PROVE  \E v \in VIP :
           LET p == [id |-> arrived + 1, vip |-> v]
           IN  /\ Hit(p) \/ Enqueue(p) \/ Refuse(p)
               /\ p \in Packet /\ p.id = arrived + 1 /\ p.vip = v
<1>1. PICK v \in VIP : LET p == [id |-> arrived + 1, vip |-> v]
                       IN  Hit(p) \/ Enqueue(p) \/ Refuse(p)
  BY DEF Receive
<1>2. arrived + 1 \in PacketId
  BY BluebirdAssumption DEF Types, Receive, PacketId
<1> QED BY <1>1, <1>2 DEF Packet

LEMMA TxStartTypes ==
  ASSUME processing \in Seq(Packet), NEW q \in Seq(Packet), q # <<>>, TxStart(q)
  PROVE  queue' \in Seq(Packet) /\ processing' \in Seq(Packet) /\ busy' \in BOOLEAN
  BY DEF TxStart

LEMMA TypesNext == Types /\ LRUInv /\ [Next]_vars => Types'
<1> SUFFICES ASSUME Types, LRUInv, [Next]_vars PROVE Types'
  OBVIOUS
<1>1. CASE Receive
  <2>1. PICK v \in VIP :
           LET p == [id |-> arrived + 1, vip |-> v]
           IN  /\ Hit(p) \/ Enqueue(p) \/ Refuse(p)
               /\ p \in Packet /\ p.id = arrived + 1 /\ p.vip = v
    BY <1>1, ReceiveCases
  <2> DEFINE p == [id |-> arrived + 1, vip |-> v]
  <2>2. p \in Packet /\ p.id \in PacketId /\ p.vip \in VIP
    BY <2>1 DEF Packet
  <2> HIDE DEF p
  <2>3. arrived' \in 0 .. MaxPackets /\ UNCHANGED <<programming, directory>>
    BY <1>1, BluebirdAssumption DEF Receive, Types
  <2>4. CASE Hit(p)
    <3>1. cache.map[p.vip] \in Host
      BY <2>4 DEF Hit, Has, LRUInv, MapType
    <3>2. left' \in Seq(Sent)
      BY <2>2, <2>4, <3>1 DEF Hit, Leaves, Sent, Types
    <3> QED BY <2>3, <2>4, <3>2 DEF Hit, Types
  <2>5. CASE Enqueue(p)
    <3>1. Append(queue, p) \in Seq(Packet) /\ Append(queue, p) # <<>>
      BY <2>2, AppendProperties DEF Types
    <3>2. /\ queue' \in Seq(Packet) /\ processing' \in Seq(Packet)
          /\ busy' \in BOOLEAN /\ completions' \in Nat /\ left' = left
      <4>1. CASE busy
        BY <2>5, <3>1, <4>1 DEF Enqueue, Types
      <4>2. CASE ~busy
        <5>1. TxStart(Append(queue, p)) /\ completions' \in Nat /\ left' = left
          BY <2>5, <4>2 DEF Enqueue, Types
        <5> QED BY <3>1, <5>1, TxStartTypes DEF Types
      <4> QED BY <4>1, <4>2
    <3> QED BY <2>3, <3>2 DEF Types
  <2>6. CASE Refuse(p)
    BY <2>3, <2>6 DEF Refuse, Types
  <2> QED BY <2>1, <2>4, <2>5, <2>6 DEF p
<1>2. CASE BluebirdTxComplete
  <2>1. CASE queue = <<>>
    <3>1. completions' \in Nat
      BY <1>2, <2>1 DEF BluebirdTxComplete, Types
    <3>2. busy' \in BOOLEAN
      BY <1>2, <2>1 DEF BluebirdTxComplete
    <3> QED BY <1>2, <2>1, <3>1, <3>2 DEF BluebirdTxComplete, Types
  <2>2. CASE queue # <<>>
    <3>1. TxStart(queue)
      BY <1>2, <2>2 DEF BluebirdTxComplete
    <3>2. queue' \in Seq(Packet) /\ processing' \in Seq(Packet) /\ busy' \in BOOLEAN
      BY <2>2, <3>1, TxStartTypes DEF Types
    <3> QED BY <1>2, <2>2, <3>2 DEF BluebirdTxComplete, Types
  <2> QED BY <2>1, <2>2
<1>3. CASE BluebirdProcessPacket
  <2> DEFINE p == Head(processing)
  <2>1. processing # <<>> /\ p \in Packet /\ processing' \in Seq(Packet)
    BY <1>3, HeadTailProperties DEF BluebirdProcessPacket, Types
  <2>2. p.id \in PacketId /\ p.vip \in VIP /\ directory[p.vip] \in Host
    BY <2>1 DEF Packet, Types
  <2>3. left' \in Seq(Sent)
    BY <1>3, <2>2 DEF BluebirdProcessPacket, Leaves, Sent, Types
  <2>4. programming' \in Seq(VIP)
    BY <1>3, <2>2, AppendProperties DEF BluebirdProcessPacket, Types
  <2> QED BY <1>3, <2>1, <2>3, <2>4 DEF BluebirdProcessPacket, Types
<1>4. CASE PopulateBluebirdCache
  BY <1>4, HeadTailProperties DEF PopulateBluebirdCache, Types
<1>5. CASE UpdateMappings
  BY <1>5, BluebirdAssumption DEF UpdateMappings, Types
<1>6. CASE Done \/ UNCHANGED vars
  BY <1>6 DEF Done, vars, Types
<1> QED BY <1>1, <1>2, <1>3, <1>4, <1>5, <1>6 DEF Next

-----------------------------------------------------------------------------
(* The cache, step by step                                                 *)

\* Entries of containers that do not move are right.
FreshInv == \A v \in DOMAIN cache.map : v # Migrated => cache.map[v] = directory[v]

\* What a step may do to the cache and the directory.
CacheStep ==
  /\ LRUInv' /\ FreshInv'
  /\ \A v \in DOMAIN cache'.map :
       cache'.map[v] # directory'[v] =>
         /\ v = Migrated
         /\ v \in DOMAIN cache.map /\ cache'.map[v] = cache.map[v]

LEMMA CacheNext == Types /\ LRUInv /\ FreshInv /\ [Next]_vars => CacheStep
<1> SUFFICES ASSUME Types, LRUInv, FreshInv, [Next]_vars PROVE CacheStep
  OBVIOUS
<1>0. DOMAIN cache.map \subseteq VIP
  BY DEF LRUInv, MapType
<1>1. ASSUME UNCHANGED <<cache, recency, directory>> PROVE CacheStep
  BY <1>1 DEF CacheStep, LRUInv, FreshInv, NoDup, Latest
<1>2. CASE Receive
  <2>1. PICK v \in VIP :
           LET p == [id |-> arrived + 1, vip |-> v]
           IN  /\ Hit(p) \/ Enqueue(p) \/ Refuse(p)
               /\ p \in Packet /\ p.id = arrived + 1 /\ p.vip = v
    BY <1>2, ReceiveCases
  <2> DEFINE p == [id |-> arrived + 1, vip |-> v]
  <2>2. p.vip = v
    BY <2>1
  <2> HIDE DEF p
  <2>3. CASE Hit(p)
    <3>1. Has(cache, v) /\ cache' = LRUGet(cache, v) /\ recency' = ToFront(recency, v)
      BY <2>2, <2>3 DEF Hit
    <3>2. LRUInv' /\ cache'.map = cache.map
      BY <3>1, LRUGetInv
    <3>3. directory' = directory
      BY <1>2 DEF Receive
    <3> QED BY <3>2, <3>3 DEF CacheStep, FreshInv
  <2>4. CASE Enqueue(p) \/ Refuse(p)
    BY <1>1, <1>2, <2>4 DEF Enqueue, Refuse, Receive
  <2> QED BY <2>1, <2>3, <2>4 DEF p
<1>3. CASE PopulateBluebirdCache
  <2> DEFINE v == Head(programming)
  <2>1. v \in VIP
    BY <1>3, HeadTailProperties DEF PopulateBluebirdCache, Types
  <2>2. /\ cache' = LRUPut(cache, Capacity, v, directory[v])
        /\ recency' = ToFront(recency, v) /\ directory' = directory
    BY <1>3 DEF PopulateBluebirdCache
  <2>3. directory[v] \in Host
    BY <2>1 DEF Types
  <2> HIDE DEF v
  <2>4. /\ LRUInv'
        /\ v \in DOMAIN cache'.map /\ cache'.map[v] = directory[v]
        /\ \A x \in DOMAIN cache'.map :
             x # v => x \in DOMAIN cache.map /\ cache'.map[x] = cache.map[x]
    BY <2>1, <2>2, <2>3, LRUPutInv
  <2> QED BY <2>2, <2>4 DEF CacheStep, FreshInv
<1>4. CASE UpdateMappings
  <2>1. /\ \A v \in VIP : v # Migrated => directory'[v] = directory[v]
        /\ UNCHANGED <<cache, recency>>
    BY <1>4 DEF UpdateMappings, Types
  <2>2. LRUInv'
    BY <2>1 DEF LRUInv, NoDup, Latest
  <2> QED BY <1>0, <2>1, <2>2 DEF CacheStep, FreshInv
<1>5. CASE BluebirdTxComplete \/ BluebirdProcessPacket \/ Done \/ UNCHANGED vars
  BY <1>1, <1>5 DEF BluebirdTxComplete, BluebirdProcessPacket, Done, vars
<1> QED BY <1>2, <1>3, <1>4, <1>5 DEF Next

-----------------------------------------------------------------------------
(* The queue                                                               *)

Ordered(s) == \A i, j \in 1 .. Len(s) : i < j => s[i].id < s[j].id

LEMMA IdNat == ASSUME NEW p \in Packet PROVE p.id \in Nat
<1>1. p.id \in 1 .. MaxPackets
  BY DEF Packet, PacketId
<1> QED BY <1>1, BluebirdAssumption

LEMMA IdsType ==
  ASSUME NEW s \in Seq(Packet)
  PROVE  (\A i \in 1 .. Len(s) : s[i].id \in Nat) /\ Ids(s) \subseteq Nat
<1>1. \A i \in 1 .. Len(s) : s[i] \in Packet
  BY ElementOfSeq
<1> QED BY <1>1, IdNat DEF Ids

\* A packet joins the end of a line.
LEMMA Joins ==
  ASSUME NEW S, NEW s \in Seq(S), NEW p \in S
  PROVE  /\ Append(s, p) \in Seq(S) /\ Append(s, p) # <<>>
         /\ Len(Append(s, p)) = Len(s) + 1
         /\ \A i \in 1 .. Len(s) : Append(s, p)[i] = s[i]
         /\ Append(s, p)[Len(s) + 1] = p
         /\ Ids(Append(s, p)) = Ids(s) \cup {p.id}
         /\ Ordered(s) /\ (\A n \in Ids(s) : n < p.id) => Ordered(Append(s, p))
<1> DEFINE t == Append(s, p)
<1>1. /\ t \in Seq(S) /\ t # <<>> /\ Len(t) = Len(s) + 1 /\ Len(s) \in Nat
      /\ \A i \in 1 .. Len(s) : t[i] = s[i]
      /\ t[Len(s) + 1] = p
  BY AppendProperties, LenProperties
<1> HIDE DEF t
<1>2. \A i \in 1 .. Len(t) : i \in 1 .. Len(s) \/ i = Len(s) + 1
  BY <1>1
<1>3. \A i \in 1 .. Len(s) : i \in 1 .. Len(t)
  BY <1>1
<1>4. Len(s) + 1 \in 1 .. Len(t)
  BY <1>1
<1>5. Ids(t) = Ids(s) \cup {p.id}
  BY <1>1, <1>2, <1>3, <1>4 DEF Ids
<1>6. ASSUME Ordered(s), \A n \in Ids(s) : n < p.id PROVE Ordered(t)
  <2> SUFFICES ASSUME NEW i \in 1 .. Len(t), NEW j \in 1 .. Len(t), i < j
               PROVE  t[i].id < t[j].id
    BY DEF Ordered
  <2>1. i \in 1 .. Len(s)
    BY <1>1
  <2>2. CASE j \in 1 .. Len(s)
    BY <1>1, <1>6, <2>1, <2>2 DEF Ordered
  <2>3. CASE j = Len(s) + 1
    BY <1>1, <1>6, <2>1, <2>3 DEF Ids
  <2> QED BY <1>2, <2>2, <2>3
<1> QED BY <1>1, <1>5, <1>6 DEF t

\* The first packet leaves a line.
LEMMA Departs ==
  ASSUME NEW s \in Seq(Packet), s # <<>>, Ordered(s)
  PROVE  /\ Head(s) \in Packet /\ Tail(s) \in Seq(Packet) /\ Ordered(Tail(s))
         /\ Len(s) = Len(Tail(s)) + 1
         /\ Head(s).id \in Ids(s)
         /\ Ids(Tail(s)) = Ids(s) \ {Head(s).id}
         /\ \A n \in Ids(Tail(s)) : Head(s).id < n
<1> DEFINE t == Tail(s)
           p == Head(s)
<1>1. /\ p \in Packet /\ t \in Seq(Packet) /\ Len(t) = Len(s) - 1 /\ Len(s) \in Nat \ {0}
      /\ \A i \in 1 .. Len(t) : t[i] = s[i + 1]
      /\ p = s[1]
  BY HeadTailProperties, EmptySeq
<1> HIDE DEF t, p
<1>2. \A i \in 1 .. Len(t) : i + 1 \in 1 .. Len(s) /\ 1 < i + 1
  BY <1>1
<1>3. 1 \in 1 .. Len(s)
  BY <1>1
<1>4. \A i \in 1 .. Len(s) : i = 1 \/ (i - 1 \in 1 .. Len(t) /\ t[i - 1] = s[i])
  <2> SUFFICES ASSUME NEW i \in 1 .. Len(s), i # 1
               PROVE  i - 1 \in 1 .. Len(t) /\ t[i - 1] = s[i]
    OBVIOUS
  <2>1. i - 1 \in 1 .. Len(t) /\ (i - 1) + 1 = i
    BY <1>1
  <2> QED BY <1>1, <2>1
<1>5. \A i \in 1 .. Len(t) : p.id < t[i].id
  BY <1>1, <1>2, <1>3 DEF Ordered
<1>6. \A i \in 1 .. Len(s) : s[i].id \in Nat
  BY IdsType
<1>7. \A n \in Ids(t) : p.id < n
  BY <1>5 DEF Ids
<1>8. Ids(t) = Ids(s) \ {p.id}
  <2>1. \A i \in 1 .. Len(t) : t[i].id \in Ids(s) /\ t[i].id # p.id
    BY <1>1, <1>2, <1>3, <1>5, <1>6 DEF Ids
  <2>2. \A i \in 1 .. Len(s) : s[i].id # p.id => s[i].id \in Ids(t)
    BY <1>1, <1>4 DEF Ids
  <2> QED BY <2>1, <2>2 DEF Ids
<1>9. Ordered(t)
  <2> SUFFICES ASSUME NEW i \in 1 .. Len(t), NEW j \in 1 .. Len(t), i < j
               PROVE  t[i].id < t[j].id
    BY DEF Ordered
  <2>1. i + 1 \in 1 .. Len(s) /\ j + 1 \in 1 .. Len(s) /\ i + 1 < j + 1
    BY <1>2
  <2> QED BY <1>1, <2>1 DEF Ordered
<1>10. p.id \in Ids(s) /\ Len(s) = Len(t) + 1
  BY <1>1, <1>3 DEF Ids
<1> QED BY <1>1, <1>7, <1>8, <1>9, <1>10 DEF t, p

-----------------------------------------------------------------------------
(* The transmitter                                                         *)

TxInv ==
  /\ completions \in {0, 1}
  /\ busy <=> completions = 1
  /\ queue # <<>> => busy

LEMMA TxNext == Types /\ TxInv /\ [Next]_vars => TxInv'
<1> SUFFICES ASSUME Types, TxInv, [Next]_vars PROVE TxInv'
  OBVIOUS
<1>1. ASSUME UNCHANGED <<queue, busy, completions>> PROVE TxInv'
  BY <1>1 DEF TxInv
<1>2. CASE Receive
  <2>1. PICK v \in VIP :
           LET p == [id |-> arrived + 1, vip |-> v]
           IN  /\ Hit(p) \/ Enqueue(p) \/ Refuse(p)
               /\ p \in Packet /\ p.id = arrived + 1 /\ p.vip = v
    BY <1>2, ReceiveCases
  <2> DEFINE p == [id |-> arrived + 1, vip |-> v]
  <2>2. p \in Packet
    BY <2>1
  <2> HIDE DEF p
  <2>3. CASE Hit(p) \/ Refuse(p)
    BY <1>1, <2>3 DEF Hit, Refuse
  <2>4. CASE Enqueue(p)
    <3>1. CASE busy
      BY <2>4, <3>1 DEF Enqueue, TxInv
    <3>2. CASE ~busy
      <4>1. queue = <<>> /\ completions = 0
        BY <3>2 DEF TxInv
      <4>2. TxStart(Append(queue, p)) /\ completions' = completions + 1
        BY <2>4, <3>2 DEF Enqueue
      <4>3. queue' = <<>>
        <5>1. Append(queue, p) = <<p>>
          BY <4>1
        <5>2. Tail(<<p>>) = <<>>
          OBVIOUS
        <5> QED BY <4>2, <5>1, <5>2 DEF TxStart
      <4>4. busy'
        BY <4>2 DEF TxStart
      <4>5. completions' = 1
        BY <4>1, <4>2
      <4> QED BY <4>3, <4>4, <4>5 DEF TxInv
    <3> QED BY <3>1, <3>2
  <2> QED BY <2>1, <2>3, <2>4 DEF p
<1>3. CASE BluebirdTxComplete
  <2>1. completions = 1 /\ busy
    BY <1>3 DEF BluebirdTxComplete, TxInv
  <2>2. CASE queue = <<>>
    <3>1. ~busy' /\ completions' = completions - 1 /\ queue' = <<>>
      BY <1>3, <2>2 DEF BluebirdTxComplete
    <3>2. completions' = 0
      BY <2>1, <3>1
    <3> QED BY <3>1, <3>2 DEF TxInv
  <2>3. CASE queue # <<>>
    BY <1>3, <2>1, <2>3 DEF BluebirdTxComplete, TxStart, TxInv
  <2> QED BY <2>2, <2>3
<1>4. CASE BluebirdProcessPacket \/ PopulateBluebirdCache \/ UpdateMappings \/ Done
           \/ UNCHANGED vars
  BY <1>1, <1>4 DEF BluebirdProcessPacket, PopulateBluebirdCache, UpdateMappings, Done, vars
<1> QED BY <1>2, <1>3, <1>4 DEF Next

-----------------------------------------------------------------------------
(* The way through the switch                                              *)

\* The packets of a are in order, so are those of b, and a's come first.
InLine(a, b) ==
  /\ Ordered(a) /\ Ordered(b)
  /\ \A m \in Ids(a) : \A n \in Ids(b) : m < n

\* Nothing that left the slow path came after a packet that is still inside.
NoneOvertaken ==
  \A i \in 1 .. Len(left) : left[i].slow => \A n \in sockets : left[i].id < n

FlowInv ==
  /\ InLine(processing, queue)
  /\ IsFiniteSet(dropped) /\ NothingLeaks
  /\ SlowPathInOrder /\ NoneOvertaken

\* What the transmitter takes off the line keeps its place.
LEMMA TxStartFlow ==
  ASSUME processing \in Seq(Packet), NEW q \in Seq(Packet), q # <<>>,
         InLine(processing, q), TxStart(q)
  PROVE  /\ InLine(processing', queue')
         /\ Ids(queue') \cup Ids(processing') = Ids(q) \cup Ids(processing)
         /\ Len(queue') + Len(processing') = Len(q) + Len(processing)
<1> DEFINE p == Head(q)
           t == Tail(q)
           a == Append(processing, p)
<1>0. queue' = t /\ processing' = a
  BY DEF TxStart
<1>1. /\ p \in Packet /\ t \in Seq(Packet) /\ Ordered(t) /\ Len(q) = Len(t) + 1
      /\ p.id \in Ids(q) /\ Ids(t) = Ids(q) \ {p.id}
      /\ \A n \in Ids(t) : p.id < n
  BY Departs DEF InLine
<1>2. \A m \in Ids(processing) : m < p.id
  BY <1>1 DEF InLine
<1> HIDE DEF p, t
<1>3. /\ Len(a) = Len(processing) + 1 /\ Ids(a) = Ids(processing) \cup {p.id} /\ Ordered(a)
  BY <1>1, <1>2, Joins DEF InLine
<1>4. Len(t) \in Nat /\ Len(processing) \in Nat
  BY <1>1, LenProperties
<1> HIDE DEF a
<1>5. Len(t) + Len(a) = Len(q) + Len(processing)
  BY <1>1, <1>3, <1>4
<1>6. Ids(t) \cup Ids(a) = Ids(q) \cup Ids(processing)
  BY <1>1, <1>3
<1>7. \A m \in Ids(a) : \A n \in Ids(t) : m < n
  BY <1>1, <1>3 DEF InLine
<1>8. InLine(a, t)
  BY <1>1, <1>3, <1>7 DEF InLine
<1> QED BY <1>0, <1>5, <1>6, <1>8

\* A packet leaves: fast, or slow and before everything that stays inside.
LEMMA LeavesFlow ==
  ASSUME Types, SlowPathInOrder, NoneOvertaken,
         NEW e \in Sent, left' = Append(left, e),
         e.slow => e.id \in sockets /\ sockets' = sockets \ {e.id},
         e.slow => \A n \in sockets' : e.id < n,
         ~e.slow => sockets' = sockets
  PROVE  /\ SlowPathInOrder' /\ NoneOvertaken'
         /\ Ids(left') = Ids(left) \cup {e.id} /\ Len(left') = Len(left) + 1
<1>1. /\ Len(left') = Len(left) + 1 /\ Ids(left') = Ids(left) \cup {e.id}
      /\ \A i \in 1 .. Len(left) : left'[i] = left[i]
      /\ left'[Len(left) + 1] = e
  BY Joins DEF Types
<1>2. Len(left) \in Nat
  BY LenProperties DEF Types
<1>3. \A i \in 1 .. Len(left') : i \in 1 .. Len(left) \/ i = Len(left')
  BY <1>1, <1>2
<1>4. \A n \in sockets' : n \in sockets
  <2>1. CASE e.slow
    BY <2>1
  <2>2. CASE ~e.slow
    BY <2>2
  <2> QED BY <2>1, <2>2
<1>5. NoneOvertaken'
  <2> SUFFICES ASSUME NEW i \in 1 .. Len(left'), left'[i].slow, NEW n \in sockets'
               PROVE  left'[i].id < n
    BY DEF NoneOvertaken
  <2>1. CASE i \in 1 .. Len(left)
    BY <1>1, <1>4, <2>1 DEF NoneOvertaken
  <2>2. CASE i = Len(left')
    BY <1>1, <2>2
  <2> QED BY <1>3, <2>1, <2>2
<1>6. SlowPathInOrder'
  <2> SUFFICES ASSUME NEW i \in 1 .. Len(left'), NEW j \in 1 .. Len(left'), i < j,
                      left'[i].slow, left'[j].slow
               PROVE  left'[i].id < left'[j].id
    BY DEF SlowPathInOrder
  <2>1. i \in 1 .. Len(left)
    BY <1>1, <1>2
  <2>2. CASE j \in 1 .. Len(left)
    BY <1>1, <2>1, <2>2 DEF SlowPathInOrder
  <2>3. CASE j = Len(left')
    BY <1>1, <2>1, <2>3 DEF NoneOvertaken
  <2> QED BY <1>3, <2>2, <2>3
<1> QED BY <1>1, <1>5, <1>6

LEMMA FlowNext == Types /\ LRUInv /\ FlowInv /\ [Next]_vars => FlowInv'
<1> SUFFICES ASSUME Types, LRUInv, FlowInv, [Next]_vars PROVE FlowInv'
  OBVIOUS
<1>0. /\ arrived \in Nat /\ queue \in Seq(Packet) /\ processing \in Seq(Packet)
      /\ Len(queue) \in Nat /\ Len(processing) \in Nat /\ Len(left) \in Nat
      /\ Cardinality(dropped) \in Nat
      /\ Len(queue) + Len(processing) + Len(left) + Cardinality(dropped) = arrived
  <2>1. Cardinality(dropped) \in Nat
    BY FS_CardinalityType DEF FlowInv
  <2>2. arrived \in Nat
    BY BluebirdAssumption DEF Types
  <2>3. Len(queue) + Len(processing) + Len(left) + Cardinality(dropped) = arrived
    BY DEF FlowInv, NothingLeaks
  <2> QED BY <2>1, <2>2, <2>3, LenProperties DEF Types
<1>1. ASSUME UNCHANGED <<queue, processing, sockets, arrived, left, dropped>> PROVE FlowInv'
  <2>1. InLine(processing', queue') /\ IsFiniteSet(dropped')
    BY <1>1 DEF FlowInv
  <2>2. NothingLeaks'
    BY <1>1 DEF FlowInv, NothingLeaks, Ids
  <2>3. SlowPathInOrder' /\ NoneOvertaken'
    BY <1>1 DEF FlowInv, SlowPathInOrder, NoneOvertaken
  <2> QED BY <2>1, <2>2, <2>3 DEF FlowInv, InLine, Ordered, Ids
<1>2. CASE Receive
  <2>1. PICK v \in VIP :
           LET p == [id |-> arrived + 1, vip |-> v]
           IN  /\ Hit(p) \/ Enqueue(p) \/ Refuse(p)
               /\ p \in Packet /\ p.id = arrived + 1 /\ p.vip = v
    BY <1>2, ReceiveCases
  <2> DEFINE p == [id |-> arrived + 1, vip |-> v]
  <2>2. p \in Packet /\ p.id = arrived + 1 /\ p.vip = v /\ p.id \in PacketId
    BY <2>1 DEF Packet
  <2> HIDE DEF p
  <2>3. arrived' = arrived + 1 /\ 1 .. arrived' = (1 .. arrived) \cup {p.id}
    BY <1>0, <1>2, <2>2 DEF Receive
  <2>4. (\A n \in sockets : n < p.id) /\ p.id \notin dropped
    BY <1>0, <2>2 DEF FlowInv, NothingLeaks
  <2>5. CASE Hit(p)
    <3> DEFINE e == [id |-> p.id, vip |-> p.vip, to |-> cache.map[p.vip], slow |-> FALSE]
    <3>1. cache.map[p.vip] \in Host
      BY <2>5 DEF Hit, Has, LRUInv, MapType
    <3>2. e \in Sent /\ ~e.slow /\ e.id = p.id
      BY <2>2, <3>1 DEF Sent
    <3>3. /\ left' = Append(left, e)
          /\ UNCHANGED <<queue, processing, sockets, dropped>>
      BY <2>5 DEF Hit, Leaves
    <3> HIDE DEF e
    <3>4. /\ SlowPathInOrder' /\ NoneOvertaken'
          /\ Ids(left') = Ids(left) \cup {p.id} /\ Len(left') = Len(left) + 1
      BY <3>2, <3>3, LeavesFlow DEF FlowInv
    <3>5. InLine(processing', queue') /\ IsFiniteSet(dropped')
      BY <3>3 DEF FlowInv
    <3>6. /\ sockets' = Ids(queue') \cup Ids(processing')
          /\ 1 .. arrived' = sockets' \cup Ids(left') \cup dropped'
      BY <2>3, <3>3, <3>4 DEF FlowInv, NothingLeaks
    <3>7. Len(queue') + Len(processing') + Len(left') + Cardinality(dropped') = arrived'
      <4>1. /\ Len(queue') = Len(queue) /\ Len(processing') = Len(processing)
            /\ Cardinality(dropped') = Cardinality(dropped)
        BY <3>3
      <4>2. arrived' = arrived + 1 /\ Len(left') = Len(left) + 1
        BY <2>3, <3>4
      <4> QED BY <1>0, <4>1, <4>2
    <3>8. NothingLeaks'
      BY <3>6, <3>7 DEF NothingLeaks, Ids
    <3> QED BY <3>4, <3>5, <3>8 DEF FlowInv, InLine, Ordered, Ids
  <2>6. CASE Enqueue(p)
    <3> DEFINE q == Append(queue, p)
    <3>1. /\ q \in Seq(Packet) /\ q # <<>> /\ Len(q) = Len(queue) + 1
          /\ Ids(q) = Ids(queue) \cup {p.id}
          /\ Ordered(queue) /\ (\A n \in Ids(queue) : n < p.id) => Ordered(q)
      BY <1>0, <2>2, Joins
    <3>2. InLine(processing, q)
      <4>1. Ids(queue) \subseteq sockets /\ Ids(processing) \subseteq sockets
        BY DEF FlowInv, NothingLeaks
      <4>2. Ordered(q)
        BY <2>4, <3>1, <4>1 DEF FlowInv, InLine
      <4>3. \A m \in Ids(processing) : \A n \in Ids(q) : m < n
        <5> HIDE DEF q
        <5> QED BY <2>4, <3>1, <4>1 DEF FlowInv, InLine
      <4> QED BY <4>2, <4>3 DEF FlowInv, InLine
    <3>3. /\ InLine(processing', queue')
          /\ Ids(queue') \cup Ids(processing') = Ids(q) \cup Ids(processing)
          /\ Len(queue') + Len(processing') = Len(q) + Len(processing)
      <4>1. CASE busy
        <5>1. queue' = q /\ processing' = processing
          BY <2>6, <4>1 DEF Enqueue
        <5> QED BY <3>2, <5>1
      <4>2. CASE ~busy
        <5>1. TxStart(q)
          BY <2>6, <4>2 DEF Enqueue
        <5> HIDE DEF q
        <5> QED BY <1>0, <3>1, <3>2, <5>1, TxStartFlow
      <4> QED BY <4>1, <4>2
    <3>4. sockets' = sockets \cup {p.id} /\ left' = left /\ dropped' = dropped
      BY <2>6 DEF Enqueue
    <3>5. IsFiniteSet(dropped') /\ Ids(left') = Ids(left)
      BY <3>4 DEF FlowInv
    <3> HIDE DEF q
    <3>6. /\ sockets' = Ids(queue') \cup Ids(processing')
          /\ 1 .. arrived' = sockets' \cup Ids(left') \cup dropped'
      BY <2>3, <3>1, <3>3, <3>4, <3>5 DEF FlowInv, NothingLeaks
    <3>7. Len(queue') + Len(processing') + Len(left') + Cardinality(dropped') = arrived'
      <4>1. Len(left') = Len(left) /\ Cardinality(dropped') = Cardinality(dropped)
        BY <3>4
      <4>2. /\ arrived' = arrived + 1 /\ Len(q) = Len(queue) + 1
            /\ Len(queue') + Len(processing') = Len(q) + Len(processing)
        BY <2>3, <3>1, <3>3
      <4> QED BY <1>0, <4>1, <4>2
    <3>8. NothingLeaks'
      BY <3>6, <3>7 DEF NothingLeaks, Ids
    <3>9. NoneOvertaken'
      <4> SUFFICES ASSUME NEW i \in 1 .. Len(left), left[i].slow, NEW n \in sockets'
                   PROVE  left[i].id < n
        BY <3>4 DEF NoneOvertaken
      <4>1. CASE n \in sockets
        BY <4>1 DEF FlowInv, NoneOvertaken
      <4>2. CASE n = p.id
        <5>1. left[i].id \in 1 .. arrived
          BY DEF FlowInv, NothingLeaks, Ids
        <5> QED BY <1>0, <2>2, <4>2, <5>1
      <4> QED BY <3>4, <4>1, <4>2
    <3>10. SlowPathInOrder'
      BY <3>4 DEF FlowInv, SlowPathInOrder
    <3> QED BY <3>3, <3>5, <3>8, <3>9, <3>10 DEF FlowInv, InLine, Ordered, Ids
  <2>7. CASE Refuse(p)
    <3>1. /\ dropped' = dropped \cup {p.id}
          /\ UNCHANGED <<queue, processing, sockets, left>>
      BY <2>7 DEF Refuse
    <3>2. IsFiniteSet(dropped') /\ Cardinality(dropped') = Cardinality(dropped) + 1
      BY <2>4, <3>1, FS_AddElement DEF FlowInv
    <3>3. InLine(processing', queue')
      BY <3>1 DEF FlowInv
    <3>4. Ids(queue') = Ids(queue) /\ Ids(processing') = Ids(processing) /\ Ids(left') = Ids(left)
      BY <3>1
    <3>5. /\ sockets' = Ids(queue') \cup Ids(processing')
          /\ 1 .. arrived' = sockets' \cup Ids(left') \cup dropped'
      BY <2>3, <3>1, <3>4 DEF FlowInv, NothingLeaks
    <3>6. Len(queue') + Len(processing') + Len(left') + Cardinality(dropped') = arrived'
      BY <1>0, <2>3, <3>1, <3>2 DEF FlowInv, NothingLeaks
    <3>7. NothingLeaks'
      BY <3>5, <3>6 DEF NothingLeaks, Ids
    <3>8. SlowPathInOrder' /\ NoneOvertaken'
      BY <3>1 DEF FlowInv, SlowPathInOrder, NoneOvertaken
    <3> QED BY <3>2, <3>3, <3>7, <3>8 DEF FlowInv, InLine, Ordered, Ids
  <2> QED BY <2>1, <2>5, <2>6, <2>7 DEF p
<1>3. CASE BluebirdTxComplete
  <2>1. UNCHANGED <<sockets, arrived, left, dropped>>
    BY <1>3 DEF BluebirdTxComplete
  <2>2. CASE queue = <<>>
    BY <1>1, <1>3, <2>1, <2>2 DEF BluebirdTxComplete
  <2>3. CASE queue # <<>>
    <3>1. TxStart(queue)
      BY <1>3, <2>3 DEF BluebirdTxComplete
    <3>2. /\ InLine(processing', queue')
          /\ Ids(queue') \cup Ids(processing') = Ids(queue) \cup Ids(processing)
          /\ Len(queue') + Len(processing') = Len(queue) + Len(processing)
      BY <1>0, <2>3, <3>1, TxStartFlow DEF FlowInv
    <3>3. IsFiniteSet(dropped') /\ Ids(left') = Ids(left)
      BY <2>1 DEF FlowInv
    <3>4. /\ sockets' = Ids(queue') \cup Ids(processing')
          /\ 1 .. arrived' = sockets' \cup Ids(left') \cup dropped'
      BY <2>1, <3>2, <3>3 DEF FlowInv, NothingLeaks
    <3>5. Len(queue') + Len(processing') + Len(left') + Cardinality(dropped') = arrived'
      BY <1>0, <2>1, <3>2 DEF FlowInv, NothingLeaks
    <3>6. NothingLeaks'
      BY <3>4, <3>5 DEF NothingLeaks, Ids
    <3>7. SlowPathInOrder' /\ NoneOvertaken'
      BY <2>1 DEF FlowInv, SlowPathInOrder, NoneOvertaken
    <3> QED BY <3>2, <3>3, <3>6, <3>7 DEF FlowInv, InLine, Ordered, Ids
  <2> QED BY <2>2, <2>3
<1>4. CASE BluebirdProcessPacket
  <2> DEFINE p == Head(processing)
             e == [id |-> p.id, vip |-> p.vip, to |-> directory[p.vip], slow |-> TRUE]
  <2>1. /\ processing # <<>> /\ processing' = Tail(processing)
        /\ left' = Append(left, e) /\ sockets' = sockets \ {p.id}
        /\ UNCHANGED <<queue, arrived, dropped>>
    BY <1>4 DEF BluebirdProcessPacket, Leaves
  <2>2. /\ p \in Packet /\ processing' \in Seq(Packet) /\ Ordered(processing')
        /\ Len(processing) = Len(processing') + 1
        /\ p.id \in Ids(processing) /\ Ids(processing') = Ids(processing) \ {p.id}
        /\ \A n \in Ids(processing') : p.id < n
    BY <1>0, <2>1, Departs DEF FlowInv, InLine
  <2> HIDE DEF p
  <2>3. p.id \in PacketId /\ p.vip \in VIP /\ directory[p.vip] \in Host /\ p.id \in Nat
    BY <2>2, IdNat DEF Packet, Types
  <2>4. e \in Sent /\ e.slow /\ e.id = p.id
    BY <2>3 DEF Sent
  <2> HIDE DEF e
  <2>5. p.id \in sockets /\ p.id \notin Ids(queue)
    BY <2>2, <2>3 DEF FlowInv, NothingLeaks, InLine
  <2>6. sockets' = Ids(queue) \cup Ids(processing')
    BY <2>1, <2>2, <2>5 DEF FlowInv, NothingLeaks
  <2>7. \A n \in sockets' : p.id < n
    BY <2>2, <2>6 DEF FlowInv, InLine
  <2>8. /\ SlowPathInOrder' /\ NoneOvertaken'
        /\ Ids(left') = Ids(left) \cup {p.id} /\ Len(left') = Len(left) + 1
    BY <2>1, <2>4, <2>5, <2>7, LeavesFlow DEF FlowInv
  <2>9. InLine(processing', queue') /\ IsFiniteSet(dropped')
    BY <2>1, <2>2 DEF FlowInv, InLine
  <2>10. /\ sockets' = Ids(queue') \cup Ids(processing')
         /\ 1 .. arrived' = sockets' \cup Ids(left') \cup dropped'
    BY <2>1, <2>5, <2>6, <2>8 DEF FlowInv, NothingLeaks
  <2>11. Len(queue') + Len(processing') + Len(left') + Cardinality(dropped') = arrived'
    <3>1. Len(processing') \in Nat
      BY <2>2, LenProperties
    <3> QED BY <1>0, <2>1, <2>2, <2>8, <3>1 DEF FlowInv, NothingLeaks
  <2>12. NothingLeaks'
    BY <2>10, <2>11 DEF NothingLeaks, Ids
  <2> QED BY <2>8, <2>9, <2>12 DEF FlowInv, InLine, Ordered, Ids
<1>5. CASE PopulateBluebirdCache \/ UpdateMappings \/ Done \/ UNCHANGED vars
  BY <1>1, <1>5 DEF PopulateBluebirdCache, UpdateMappings, Done, vars
<1> QED BY <1>2, <1>3, <1>4, <1>5 DEF Next

-----------------------------------------------------------------------------
(* The theorems                                                            *)

Inv == Types /\ LRUInv /\ FreshInv /\ TxInv /\ FlowInv

LEMMA InitInv == Init => Inv
<1> SUFFICES ASSUME Init PROVE Inv
  OBVIOUS
<1>1. Types
  <2>1. arrived \in 0 .. MaxPackets /\ completions \in Nat
    BY BluebirdAssumption DEF Init
  <2>2. busy \in BOOLEAN
    BY DEF Init
  <2>3. /\ queue \in Seq(Packet) /\ processing \in Seq(Packet)
        /\ programming \in Seq(VIP) /\ left \in Seq(Sent)
    BY DEF Init
  <2> QED BY <2>1, <2>2, <2>3, BluebirdAssumption DEF Init, Types
<1>2. LRUInv
  <2>1. cache.dq = <<>> /\ cache.map = <<>> /\ cache = [dq |-> <<>>, map |-> <<>>] /\ recency = <<>>
    BY DEF Init, EmptyLRU
  <2>2. <<>> \in Seq(VIP) /\ Len(<<>>) = 0 /\ ToSet(<<>>) = {} /\ DOMAIN <<>> = {}
    BY DEF ToSet
  <2>3. <<>> \in MapType
    <3>1. <<>> \in [{} -> Host] /\ {} \in SUBSET VIP
      OBVIOUS
    <3> QED BY <3>1 DEF MapType
  <2> QED BY <2>1, <2>2, <2>3, BluebirdAssumption DEF LRUInv, NoDup, Latest
<1>3. FreshInv
  BY DEF Init, EmptyLRU, FreshInv
<1>4. TxInv
  BY DEF Init, TxInv
<1>5. FlowInv
  <2>1. Ids(<<>>) = {} /\ Ordered(<<>>)
    BY DEF Ids, Ordered
  <2>2. InLine(processing, queue) /\ SlowPathInOrder /\ NoneOvertaken
    BY <2>1 DEF Init, InLine, SlowPathInOrder, NoneOvertaken
  <2>3. IsFiniteSet(dropped) /\ Cardinality(dropped) = 0
    BY FS_EmptySet DEF Init
  <2>4. NothingLeaks
    BY <2>1, <2>3 DEF Init, NothingLeaks
  <2> QED BY <2>2, <2>3, <2>4 DEF FlowInv
<1> QED BY <1>1, <1>2, <1>3, <1>4, <1>5 DEF Inv

LEMMA InvNext == Inv /\ [Next]_vars => Inv'
  BY TypesNext, CacheNext, TxNext, FlowNext DEF Inv, CacheStep

\* Cache, transmitter and line keep their invariants through every order of arrivals,
\* callbacks and migration (p4-switch-app.cc:156-173, 250-331).
THEOREM InvHolds == Spec => []Inv
  BY InitInv, InvNext, PTL DEF Spec

\* However the hits, insertions and evictions follow each other, the cache holds the
\* addresses used last, in that order, and its deque and map agree (lru-cache.h:27-45,
\* 91-123).
THEOREM CacheHoldsMostRecent == Spec => []HoldsMostRecent
<1>1. LRUInv => HoldsMostRecent
  <2> SUFFICES ASSUME LRUInv PROVE HoldsMostRecent
    OBVIOUS
  <2>1. cache.dq \in Seq(VIP) /\ recency \in Seq(VIP) /\ Latest(cache.dq, recency)
    BY DEF LRUInv
  <2>2. cache.dq = SubSeq(recency, 1, IF Len(recency) < Capacity THEN Len(recency) ELSE Capacity)
    BY <2>1, LatestIsSubSeq
  <2> QED BY <2>2 DEF LRUInv, HoldsMostRecent
<1> QED BY <1>1, InvHolds, PTL DEF Inv

\* The transmitter is busy exactly while one completion is due, and busy while packets
\* wait, whatever the order of the callbacks (p4-switch-app.cc:280-297, 316).
THEOREM Transmitter == Spec => []TransmitterConsistent
<1>1. TxInv => TransmitterConsistent
  BY DEF TxInv, TransmitterConsistent
<1> QED BY <1>1, InvHolds, PTL DEF Inv

\* Every packet that arrived is in exactly one place, and m_packetToSocket remembers the
\* ones inside the switch (p4-switch-app.cc:164-171, 266, 323).
THEOREM SwitchKeepsAll == Spec => []NothingLeaks
  BY InvHolds, PTL DEF Inv, FlowInv

\* Packets the processor translates leave in the order in which they arrived
\* (p4-switch-app.cc:250-331).
THEOREM KeepsOrder == Spec => []SlowPathInOrder
  BY InvHolds, PTL DEF Inv, FlowInv

\* An entry is out of date only if it was made before its container moved: each step
\* leaves such an entry as it was and makes no new one (p4-switch-app.cc:274).
THEOREM NoLateStaleEntry == Spec => StaleOnlyFromBefore
<1>1. Inv /\ [Next]_vars =>
        [\A v \in DOMAIN cache'.map :
           cache'.map[v] # directory'[v] =>
             /\ v = Migrated
             /\ v \in DOMAIN cache.map /\ cache'.map[v] = cache.map[v]]_vars
  BY CacheNext DEF Inv, CacheStep
<1> QED BY <1>1, InvHolds, PTL DEF Spec, StaleOnlyFromBefore
=============================================================================
