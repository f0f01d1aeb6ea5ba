--------------------------- MODULE LRUCacheProofs ---------------------------
(***************************************************************************)
(* Facts about the LRU cache that hold wherever it is used: what moving a  *)
(* key to the front, Get and Put make of the deque and the map.            *)
(***************************************************************************)
EXTENDS LRUCache, SequenceTheorems, WellFoundedInduction, TLAPS

-----------------------------------------------------------------------------
(* The deque                                                               *)

NoDup(s) == \A i, j \in 1 .. Len(s) : s[i] = s[j] => i = j

\* Erasing an element closes the gap.
LEMMA RemoveAtProps ==
  ASSUME NEW S, NEW s \in Seq(S), NEW i \in 1 .. Len(s)
  PROVE  /\ RemoveAt(s, i) \in Seq(S)
         /\ Len(RemoveAt(s, i)) = Len(s) - 1
         /\ \A j \in 1 .. Len(s) - 1 : RemoveAt(s, i)[j] = IF j < i THEN s[j] ELSE s[j + 1]
<1> DEFINE a == SubSeq(s, 1, i - 1)
           b == SubSeq(s, i + 1, Len(s))
<1>0. Len(s) \in Nat /\ i \in Nat /\ \A j \in 1 .. Len(s) : s[j] \in S
  BY LenProperties
<1>1. a \in Seq(S) /\ Len(a) = i - 1 /\ \A j \in 1 .. i - 1 : a[j] = s[j]
  <2>1. \A j \in 1 .. i - 1 : s[j] \in S
    BY <1>0
  <2>2. /\ a \in Seq(S)
        /\ Len(a) = IF 1 <= i - 1 THEN (i - 1) - 1 + 1 ELSE 0
        /\ \A j \in 1 .. (i - 1) - 1 + 1 : a[j] = s[1 + j - 1]
    BY <1>0, <2>1, SubSeqProperties
  <2> HIDE DEF a
  <2> QED BY <1>0, <2>2
<1>2. b \in Seq(S) /\ Len(b) = Len(s) - i /\ \A j \in 1 .. Len(s) - i : b[j] = s[i + j]
  <2>1. \A j \in i + 1 .. Len(s) : s[j] \in S
    BY <1>0
  <2>2. /\ b \in Seq(S)
        /\ Len(b) = IF i + 1 <= Len(s) THEN Len(s) - (i + 1) + 1 ELSE 0
        /\ \A j \in 1 .. Len(s) - (i + 1) + 1 : b[j] = s[(i + 1) + j - 1]
    BY <1>0, <2>1, SubSeqProperties
  <2> HIDE DEF b
  <2> QED BY <1>0, <2>2
<1>3. RemoveAt(s, i) = a \o b
  BY DEF RemoveAt
<1> HIDE DEF a, b
<1>4. /\ a \o b \in Seq(S)
      /\ Len(a \o b) = Len(a) + Len(b)
      /\ \A j \in 1 .. Len(a) + Len(b) :
           (a \o b)[j] = IF j <= Len(a) THEN a[j] ELSE b[j - Len(a)]
  BY <1>1, <1>2, ConcatProperties
<1>5. \A j \in 1 .. Len(s) - 1 : (a \o b)[j] = IF j < i THEN s[j] ELSE s[j + 1]
  <2> SUFFICES ASSUME NEW j \in 1 .. Len(s) - 1
               PROVE  (a \o b)[j] = IF j < i THEN s[j] ELSE s[j + 1]
    OBVIOUS
  <2>1. CASE j < i
    BY <1>0, <1>1, <1>2, <1>4, <2>1
  <2>2. CASE ~(j < i)
    <3>1. j - (i - 1) \in 1 .. Len(s) - i /\ i + (j - (i - 1)) = j + 1
      BY <1>0, <2>2
    <3>2. (a \o b)[j] = b[j - (i - 1)]
      BY <1>0, <1>1, <1>2, <1>4, <2>2
    <3>3. b[j - (i - 1)] = s[i + (j - (i - 1))]
      BY <1>2, <3>1
    <3> QED BY <2>2, <3>1, <3>2, <3>3
  <2> QED BY <2>1, <2>2
<1> QED BY <1>0, <1>1, <1>2, <1>3, <1>4, <1>5

\* A key that is not in the deque is added in front, one that is moves there.
LEMMA PushProps ==
  ASSUME NEW S, NEW s \in Seq(S), NEW k \in S
  PROVE  /\ <<k>> \o s \in Seq(S)
         /\ Len(<<k>> \o s) = Len(s) + 1
         /\ (<<k>> \o s)[1] = k
         /\ \A j \in 2 .. Len(s) + 1 : (<<k>> \o s)[j] = s[j - 1]
<1>1. <<k>> \in Seq(S) /\ Len(<<k>>) = 1 /\ Len(s) \in Nat
  BY LenProperties
<1>2. /\ <<k>> \o s \in Seq(S)
      /\ Len(<<k>> \o s) = 1 + Len(s)
      /\ \A j \in 1 .. 1 + Len(s) : (<<k>> \o s)[j] = IF j <= 1 THEN <<k>>[j] ELSE s[j - 1]
  BY <1>1, ConcatProperties
<1> DEFINE t == <<k>> \o s
<1> HIDE DEF t
<1> QED BY <1>1, <1>2 DEF t

LEMMA ToFrontNew ==
  ASSUME NEW S, NEW s \in Seq(S), NEW k \in S, k \notin ToSet(s), NoDup(s)
  PROVE  /\ ToFront(s, k) \in Seq(S)
         /\ Len(ToFront(s, k)) = Len(s) + 1
         /\ ToFront(s, k)[1] = k
         /\ \A j \in 2 .. Len(s) + 1 : ToFront(s, k)[j] = s[j - 1]
         /\ NoDup(ToFront(s, k))
<1> DEFINE t == <<k>> \o s
<1>1. ToFront(s, k) = t
  BY DEF ToFront
<1>2. /\ t \in Seq(S) /\ Len(t) = Len(s) + 1 /\ t[1] = k
      /\ \A j \in 2 .. Len(s) + 1 : t[j] = s[j - 1]
  BY PushProps
<1>3. Len(s) \in Nat /\ \A i \in 1 .. Len(s) : s[i] # k
  BY LenProperties DEF ToSet
<1> HIDE DEF t
<1>4. NoDup(t)
  <2> SUFFICES ASSUME NEW i \in 1 .. Len(s) + 1, NEW j \in 1 .. Len(s) + 1, t[i] = t[j]
               PROVE  i = j
    BY <1>2 DEF NoDup
  <2>1. i # 1 => i - 1 \in 1 .. Len(s) /\ t[i] = s[i - 1]
    BY <1>2, <1>3
  <2>2. j # 1 => j - 1 \in 1 .. Len(s) /\ t[j] = s[j - 1]
    BY <1>2, <1>3
  <2>3. i # 1 /\ j # 1 => i - 1 = j - 1
    BY <2>1, <2>2 DEF NoDup
  <2> QED BY <1>2, <1>3, <2>1, <2>2, <2>3
<1> QED BY <1>1, <1>2, <1>4

LEMMA ToFrontOld ==
  ASSUME NEW S, NEW s \in Seq(S), NEW i \in 1 .. Len(s), NoDup(s)
  PROVE  /\ ToFront(s, s[i]) \in Seq(S)
         /\ Len(ToFront(s, s[i])) = Len(s)
         /\ ToFront(s, s[i])[1] = s[i]
         /\ \A j \in 2 .. Len(s) : ToFront(s, s[i])[j] = IF j <= i THEN s[j - 1] ELSE s[j]
         /\ NoDup(ToFront(s, s[i]))
<1> DEFINE k == s[i]
           r == RemoveAt(s, i)
           t == <<k>> \o r
<1>0. Len(s) \in Nat /\ DOMAIN s = 1 .. Len(s) /\ k \in S
  BY LenProperties
<1>1. PlaceOf(s, k) = i
  <2>1. i \in DOMAIN s /\ s[i] = k /\ \A j \in 1 .. i - 1 : s[j] # k
    <3>1. \A j \in 1 .. i - 1 : j \in 1 .. Len(s) /\ j # i
      BY <1>0
    <3> QED BY <1>0, <3>1 DEF NoDup
  <2>2. \A x \in DOMAIN s : s[x] = k => x = i
    BY <1>0 DEF NoDup
  <2> QED BY <2>1, <2>2 DEF PlaceOf
<1>2. ToFront(s, k) = t
  BY <1>0, <1>1 DEF ToFront, ToSet
<1>3. /\ r \in Seq(S) /\ Len(r) = Len(s) - 1
      /\ \A j \in 1 .. Len(s) - 1 : r[j] = IF j < i THEN s[j] ELSE s[j + 1]
  BY RemoveAtProps
<1> HIDE DEF r, k
<1>4. r \in Seq(S) /\ k \in S
  BY <1>0, <1>3
<1>5. /\ t \in Seq(S) /\ Len(t) = Len(r) + 1 /\ t[1] = k
      /\ \A j \in 2 .. Len(r) + 1 : t[j] = r[j - 1]
  BY <1>4, PushProps
<1> HIDE DEF t
<1>6. \A j \in 2 .. Len(s) : t[j] = IF j <= i THEN s[j - 1] ELSE s[j]
  <2> SUFFICES ASSUME NEW j \in 2 .. Len(s)
               PROVE  t[j] = IF j <= i THEN s[j - 1] ELSE s[j]
    OBVIOUS
  <2>1. t[j] = r[j - 1]
    BY <1>0, <1>3, <1>5
  <2>2. r[j - 1] = IF j - 1 < i THEN s[j - 1] ELSE s[j - 1 + 1]
    BY <1>0, <1>3
  <2>3. j - 1 + 1 = j /\ (j - 1 < i <=> j <= i)
    BY <1>0
  <2> QED BY <2>1, <2>2, <2>3
<1>7. Len(t) = Len(s)
  BY <1>0, <1>3, <1>5
<1>8. NoDup(t)
  <2> SUFFICES ASSUME NEW x \in 1 .. Len(s), NEW y \in 1 .. Len(s), t[x] = t[y]
               PROVE  x = y
    BY <1>7 DEF NoDup
  <2> DEFINE At(z) == IF z = 1 THEN i ELSE IF z <= i THEN z - 1 ELSE z
  <2>1. \A z \in 1 .. Len(s) : At(z) \in 1 .. Len(s) /\ t[z] = s[At(z)]
    BY <1>0, <1>5, <1>6 DEF k
  <2>2. At(x) = At(y)
    BY <2>1 DEF NoDup
  <2> QED BY <2>2
<1> QED BY <1>2, <1>5, <1>6, <1>7, <1>8 DEF k

LEMMA ToSetProps ==
  ASSUME NEW S, NEW s \in Seq(S)
  PROVE  ToSet(s) = {s[i] : i \in 1 .. Len(s)}
  BY LenProperties DEF ToSet

\* Whichever it is, the keys are the same ones and k.
LEMMA ToFrontProps ==
  ASSUME NEW S, NEW s \in Seq(S), NEW k \in S, NoDup(s)
  PROVE  /\ ToFront(s, k) \in Seq(S)
         /\ NoDup(ToFront(s, k))
         /\ ToSet(ToFront(s, k)) = ToSet(s) \cup {k}
<1> DEFINE t == ToFront(s, k)
<1>0. Len(s) \in Nat /\ ToSet(s) = {s[i] : i \in 1 .. Len(s)}
  BY LenProperties, ToSetProps
<1>1. CASE k \notin ToSet(s)
  <2>1. /\ t \in Seq(S) /\ Len(t) = Len(s) + 1 /\ t[1] = k
        /\ \A j \in 2 .. Len(s) + 1 : t[j] = s[j - 1]
        /\ NoDup(t)
    BY <1>1, ToFrontNew
  <2>2. ToSet(t) = {t[j] : j \in 1 .. Len(t)}
    BY <2>1, ToSetProps
  <2> HIDE DEF t
  <2>3. \A j \in 1 .. Len(t) : t[j] \in ToSet(s) \cup {k}
    <3> SUFFICES ASSUME NEW j \in 1 .. Len(t) PROVE t[j] \in ToSet(s) \cup {k}
      OBVIOUS
    <3>1. j # 1 => j - 1 \in 1 .. Len(s) /\ t[j] = s[j - 1]
      BY <1>0, <2>1
    <3> QED BY <1>0, <2>1, <3>1
  <2>4. \A i \in 1 .. Len(s) : s[i] \in ToSet(t)
    <3> SUFFICES ASSUME NEW i \in 1 .. Len(s) PROVE s[i] \in ToSet(t)
      OBVIOUS
    <3>1. i + 1 \in 1 .. Len(t) /\ t[i + 1] = s[i]
      BY <1>0, <2>1
    <3> QED BY <2>2, <3>1
  <2>5. k \in ToSet(t)
    <3>1. 1 \in 1 .. Len(t)
      BY <1>0, <2>1
    <3> QED BY <2>1, <2>2, <3>1
  <2>6. ToSet(t) = ToSet(s) \cup {k}
    BY <1>0, <2>2, <2>3, <2>4, <2>5
  <2> QED BY <2>1, <2>6 DEF t
<1>2. CASE k \in ToSet(s)
  <2>1. PICK i \in 1 .. Len(s) : s[i] = k
    BY <1>0, <1>2
  <2>2. /\ t \in Seq(S) /\ Len(t) = Len(s) /\ t[1] = k
        /\ \A j \in 2 .. Len(s) : t[j] = IF j <= i THEN s[j - 1] ELSE s[j]
        /\ NoDup(t)
    BY <2>1, ToFrontOld
  <2>3. ToSet(t) = {t[j] : j \in 1 .. Len(t)}
    BY <2>2, ToSetProps
  <2> HIDE DEF t
  <2>4. \A j \in 1 .. Len(t) : t[j] \in ToSet(s)
    <3> SUFFICES ASSUME NEW j \in 1 .. Len(t) PROVE t[j] \in ToSet(s)
      OBVIOUS
    <3>1. CASE j = 1
      BY <1>2, <2>2, <3>1
    <3>2. CASE j # 1
      <4>1. j - 1 \in 1 .. Len(s) /\ j \in 2 .. Len(s) /\ j \in 1 .. Len(s)
        BY <1>0, <2>2, <3>2
      <4> QED BY <1>0, <2>2, <4>1
    <3> QED BY <3>1, <3>2
  <2>5. \A x \in 1 .. Len(s) : s[x] \in ToSet(t)
    <3> SUFFICES ASSUME NEW x \in 1 .. Len(s) PROVE s[x] \in ToSet(t)
      OBVIOUS
    <3>1. CASE x = i
      <4>1. 1 \in 1 .. Len(t)
        BY <1>0, <2>2
      <4> QED BY <2>1, <2>2, <2>3, <3>1, <4>1
    <3>2. CASE x < i
      <4>1. x + 1 \in 1 .. Len(t) /\ t[x + 1] = s[x]
        BY <1>0, <2>2, <3>2
      <4> QED BY <2>3, <4>1
    <3>3. CASE x > i
      <4>1. x \in 1 .. Len(t) /\ t[x] = s[x]
        BY <1>0, <2>2, <3>3
      <4> QED BY <2>3, <4>1
    <3> QED BY <3>1, <3>2, <3>3
  <2>6. ToSet(t) = ToSet(s) \cup {k}
    BY <1>0, <1>2, <2>3, <2>4, <2>5
  <2> QED BY <2>2, <2>6 DEF t
<1> QED BY <1>1, <1>2

\* Popping the back.
LEMMA FrontProps ==
  ASSUME NEW S, NEW s \in Seq(S), s # <<>>, NoDup(s)
  PROVE  /\ Front(s) \in Seq(S) /\ Len(Front(s)) = Len(s) - 1
         /\ \A j \in 1 .. Len(s) - 1 : Front(s)[j] = s[j]
         /\ NoDup(Front(s))
         /\ ToSet(Front(s)) = ToSet(s) \ {Last(s)}
<1> DEFINE f == Front(s)
<1>0. Len(s) \in Nat \ {0} /\ \A j \in 1 .. Len(s) : s[j] \in S
  BY LenProperties, EmptySeq
<1>1. f \in Seq(S) /\ Len(f) = Len(s) - 1 /\ \A j \in 1 .. Len(s) - 1 : f[j] = s[j]
  <2>1. PICK n \in Nat : n = Len(s) - 1
    BY <1>0
  <2>2. \A j \in 1 .. n : s[j] \in S
    BY <1>0, <2>1
  <2>3. f = SubSeq(s, 1, n)
    BY <2>1 DEF Front
  <2> HIDE DEF f
  <2>4. /\ f \in Seq(S)
        /\ Len(f) = IF 1 <= n THEN n - 1 + 1 ELSE 0
        /\ \A j \in 1 .. n - 1 + 1 : f[j] = s[1 + j - 1]
    BY <2>2, <2>3, SubSeqProperties
  <2>5. Len(f) = n /\ \A j \in 1 .. n : f[j] = s[j]
    BY <2>4
  <2> QED BY <2>1, <2>4, <2>5
<1> HIDE DEF f
<1>2. NoDup(f)
  BY <1>0, <1>1 DEF NoDup
<1>3. ToSet(f) = ToSet(s) \ {Last(s)}
  <2>1. ToSet(f) = {f[j] : j \in 1 .. Len(f)} /\ ToSet(s) = {s[j] : j \in 1 .. Len(s)}
    BY <1>1, ToSetProps
  <2>2. \A j \in 1 .. Len(f) : j \in 1 .. Len(s) /\ j # Len(s) /\ f[j] = s[j]
    BY <1>0, <1>1
  <2>3. \A j \in 1 .. Len(s) : s[j] # Last(s) => j \in 1 .. Len(f)
    BY <1>0, <1>1 DEF Last
  <2>4. Len(s) \in 1 .. Len(s)
    BY <1>0
  <2>5. \A j \in 1 .. Len(f) : s[j] # Last(s)
    BY <2>2, <2>4 DEF NoDup, Last
  <2> QED BY <2>1, <2>2, <2>3, <2>5
<1> QED BY <1>1, <1>2, <1>3 DEF f

-----------------------------------------------------------------------------
(* Get and Put                                                             *)

\* A cache in use: no key is twice in the deque, and it and the map have the same keys.
LRUOK(c, K, capacity) ==
  /\ c = [dq |-> c.dq, map |-> c.map]
  /\ c.dq \in Seq(K) /\ NoDup(c.dq) /\ Len(c.dq) <= capacity
  /\ DOMAIN c.map = ToSet(c.dq)

LEMMA EmptyLRUOK ==
  ASSUME NEW K, NEW capacity \in Nat
  PROVE  LRUOK(EmptyLRU, K, capacity) /\ DOMAIN EmptyLRU.map = {}
<1>1. EmptyLRU.dq = <<>> /\ EmptyLRU.map = <<>> /\ EmptyLRU = [dq |-> <<>>, map |-> <<>>]
  BY DEF EmptyLRU
<1>2. <<>> \in Seq(K) /\ Len(<<>>) = 0 /\ ToSet(<<>>) = {} /\ DOMAIN <<>> = {} /\ NoDup(<<>>)
  BY DEF ToSet, NoDup
<1> QED BY <1>1, <1>2 DEF LRUOK

LEMMA LRUGetKeeps ==
  ASSUME NEW K, NEW capacity \in Nat, NEW c, LRUOK(c, K, capacity), NEW k
  PROVE  LRUOK(LRUGet(c, k), K, capacity) /\ LRUGet(c, k).map = c.map
<1>1. CASE ~Has(c, k)
  BY <1>1 DEF LRUGet
<1>2. CASE Has(c, k)
  <2> DEFINE d == c.dq
             t == ToFront(d, k)
  <2>1. d \in Seq(K) /\ NoDup(d) /\ ToSet(d) = {d[i] : i \in 1 .. Len(d)} /\ k \in ToSet(d)
    BY <1>2, ToSetProps DEF LRUOK, Has
  <2>2. PICK i \in 1 .. Len(d) : d[i] = k
    BY <2>1
  <2>3. t \in Seq(K) /\ Len(t) = Len(d) /\ NoDup(t)
    BY <2>1, <2>2, ToFrontOld
  <2>4. k \in K
    BY <2>1, <2>2, LenProperties
  <2>5. ToSet(t) = ToSet(d)
    <3>1. d \in Seq(K) /\ NoDup(d)
      BY <2>1
    <3> HIDE DEF d
    <3>2. ToSet(t) = ToSet(d) \cup {k}
      BY <2>4, <3>1, ToFrontProps
    <3> HIDE DEF t
    <3> QED BY <2>1, <3>2
  <2>6. LRUGet(c, k) = [dq |-> t, map |-> c.map]
    BY <1>2 DEF LRUGet, LRUOK
  <2> HIDE DEF t
  <2> QED BY <2>3, <2>5, <2>6 DEF LRUOK
<1> QED BY <1>1, <1>2

\* The first m keys of the deque are those in S.
Leads(dq, S, m) == m \in 0 .. Len(dq) /\ S = {dq[i] : i \in 1 .. m}

LEMMA LRUPutValue ==
  ASSUME NEW c, NEW capacity, NEW k, NEW v, NEW e, e = LRUPut(c, capacity, k, v)
  PROVE  e.map[k] = v
  BY DEF LRUPut

LEMMA LRUPutOthers ==
  ASSUME NEW c, NEW capacity, NEW k, NEW v, NEW e, e = LRUPut(c, capacity, k, v)
  PROVE  \A x \in DOMAIN e.map : x # k => x \in DOMAIN c.map /\ e.map[x] = c.map[x]
  BY DEF LRUPut

\* Put puts the key in front, whichever key has to leave: the first keys, fewer than there
\* is room for, stay the first, behind it.
LEMMA LRUPutLeads ==
  ASSUME NEW K, NEW capacity \in Nat, NEW c, LRUOK(c, K, capacity), NEW k \in K, NEW v,
         NEW S, NEW m \in Nat, Leads(c.dq, S, m), m < capacity, k \notin S,
         NEW e, e = LRUPut(c, capacity, k, v)
  PROVE  /\ LRUOK(e, K, capacity) /\ Leads(e.dq, S \cup {k}, m + 1)
<1> DEFINE d == c.dq
           full == ~Has(c, k) /\ Len(d) = capacity
           gone == IF full THEN {Last(d)} ELSE {}
           f == IF full THEN Front(d) ELSE d
           t == ToFront(f, k)
           n == [x \in (DOMAIN c.map \ gone) \cup {k} |-> IF x = k THEN v ELSE c.map[x]]
<1>1. e = [dq |-> t, map |-> n]
  BY DEF LRUPut
<1>2. /\ d \in Seq(K) /\ NoDup(d) /\ Len(d) \in Nat /\ Len(d) <= capacity /\ m <= Len(d)
      /\ DOMAIN c.map = ToSet(d) /\ S = {d[i] : i \in 1 .. m}
      /\ ToSet(d) = {d[i] : i \in 1 .. Len(d)}
  BY LenProperties, ToSetProps DEF LRUOK, Leads
<1>3. /\ f \in Seq(K) /\ NoDup(f) /\ ToSet(f) = ToSet(d) \ gone
      /\ t \in Seq(K) /\ Len(t) <= capacity /\ NoDup(t) /\ m + 1 <= Len(t)
      /\ t[1] = k /\ \A j \in 2 .. m + 1 : t[j] = d[j - 1]
  <2>1. CASE k \in ToSet(d)
    <3>1. ~full /\ f = d /\ gone = {}
      BY <1>2, <2>1 DEF Has
    <3>2. PICK i \in 1 .. Len(d) : d[i] = k
      BY <1>2, <2>1
    <3>3. /\ t \in Seq(K) /\ Len(t) = Len(d) /\ t[1] = k /\ NoDup(t)
          /\ \A j \in 2 .. Len(d) : t[j] = IF j <= i THEN d[j - 1] ELSE d[j]
      BY <1>2, <3>1, <3>2, ToFrontOld
    <3>4. i \in Nat /\ m < i /\ i <= Len(d)
      BY <1>2, <3>2
    <3> HIDE DEF t, d, f, gone, full
    <3>5. \A j \in 2 .. m + 1 : t[j] = d[j - 1]
      BY <1>2, <3>3, <3>4
    <3>6. m + 1 <= Len(t)
      BY <1>2, <3>3, <3>4
    <3> QED BY <1>2, <3>1, <3>3, <3>5, <3>6
  <2>2. CASE k \notin ToSet(d)
    <3>1. /\ f \in Seq(K) /\ NoDup(f) /\ ToSet(f) = ToSet(d) \ gone
          /\ Len(f) \in Nat /\ Len(f) + 1 <= capacity /\ m <= Len(f)
          /\ \A j \in 1 .. Len(f) : f[j] = d[j]
      <4>1. CASE Len(d) = capacity
        <5>1. full
          BY <1>2, <2>2, <4>1 DEF Has
        <5>2. d # <<>>
          BY <1>2, <4>1, EmptySeq
        <5>3. /\ Front(d) \in Seq(K) /\ Len(Front(d)) = Len(d) - 1
              /\ \A j \in 1 .. Len(d) - 1 : Front(d)[j] = d[j]
              /\ NoDup(Front(d))
              /\ ToSet(Front(d)) = ToSet(d) \ {Last(d)}
          BY <1>2, <5>2, FrontProps
        <5>4. f = Front(d) /\ gone = {Last(d)}
          BY <5>1
        <5> HIDE DEF f, d, gone, full
        <5> QED BY <1>2, <4>1, <5>3, <5>4
      <4>2. CASE Len(d) # capacity
        <5>1. f = d /\ gone = {}
          BY <4>2
        <5> HIDE DEF f, d, gone, full
        <5> QED BY <1>2, <4>2, <5>1
      <4> QED BY <4>1, <4>2
    <3>2. k \notin ToSet(f)
      BY <2>2, <3>1
    <3> HIDE DEF f
    <3>3. /\ t \in Seq(K) /\ Len(t) = Len(f) + 1 /\ t[1] = k /\ NoDup(t)
          /\ \A j \in 2 .. Len(f) + 1 : t[j] = f[j - 1]
      BY <3>1, <3>2, ToFrontNew
    <3> HIDE DEF t, d, gone, full
    <3>4. \A j \in 2 .. m + 1 : j - 1 \in 1 .. Len(f) /\ j \in 2 .. Len(f) + 1
      BY <3>1
    <3> QED BY <3>1, <3>3, <3>4
  <2> QED BY <2>1, <2>2
<1> HIDE DEF f
<1>4. ToSet(t) = ToSet(f) \cup {k}
  <2>1. f \in Seq(K) /\ NoDup(f)
    BY <1>3
  <2> QED BY <2>1, ToFrontProps
<1> HIDE DEF t, d, gone, full
<1>5. LRUOK(e, K, capacity)
  <2>1. DOMAIN n = ToSet(t)
    BY <1>2, <1>3, <1>4
  <2> HIDE DEF n
  <2> QED BY <1>1, <1>3, <2>1 DEF LRUOK
<1>6. Leads(e.dq, S \cup {k}, m + 1)
  <2>1. \A i \in 1 .. m : i + 1 \in 1 .. m + 1 /\ t[i + 1] = d[i]
    BY <1>3
  <2>2. \A j \in 1 .. m + 1 : j = 1 \/ (j - 1 \in 1 .. m /\ t[j] = d[j - 1])
    BY <1>3
  <2>3. {t[j] : j \in 1 .. m + 1} = {d[i] : i \in 1 .. m} \cup {k}
    <3>1. \A j \in 1 .. m + 1 : t[j] \in {d[i] : i \in 1 .. m} \cup {k}
      BY <1>3, <2>2
    <3>2. \A i \in 1 .. m : d[i] \in {t[j] : j \in 1 .. m + 1}
      BY <2>1
    <3>3. 1 \in 1 .. m + 1
      OBVIOUS
    <3>4. k \in {t[j] : j \in 1 .. m + 1}
      BY <1>3, <3>3
    <3> QED BY <3>1, <3>2, <3>4
  <2>4. m + 1 \in 0 .. Len(t)
    BY <1>3, LenProperties
  <2>5. e.dq = t
    BY <1>1
  <2>6. S \cup {k} = {t[j] : j \in 1 .. m + 1}
    BY <1>2, <2>3
  <2> QED BY <2>4, <2>5, <2>6 DEF Leads
<1> QED BY <1>5, <1>6

-----------------------------------------------------------------------------
(* Induction.  A set of numbers that is not empty has a least one; so a    *)
(* fact that passes from k to k + 1 has no least exception.                *)

LEMMA LeastNumber ==
  ASSUME NEW T, T \subseteq Nat, T # {}
  PROVE  \E x \in T : \A y \in T : x <= y
<1> DEFINE R == OpToRel(<, Nat)
<1>1. IsWellFoundedOn(R, Nat)
  BY NatLessThanWellFounded
<1>2. \A x, y \in Nat : <<x, y>> \in R <=> x < y
  BY DEF OpToRel
<1> HIDE DEF R
<1>3. PICK x \in T : \A y \in T : ~(<<y, x>> \in R)
  BY <1>1, WFMin
<1>4. \A y \in T : x <= y
  <2> SUFFICES ASSUME NEW y \in T PROVE x <= y
    OBVIOUS
  <2>1. x \in Nat /\ y \in Nat /\ ~(<<y, x>> \in R)
    BY <1>3
  <2>2. ~(y < x)
    BY <1>2, <2>1
  <2> QED BY <2>1, <2>2
<1> QED BY <1>3, <1>4

LEMMA InductiveSet ==
  ASSUME NEW T, 0 \in T, \A k \in Nat : k \in T => k + 1 \in T
  PROVE  Nat \subseteq T
<1> SUFFICES ASSUME Nat \ T # {} PROVE FALSE
  OBVIOUS
<1>1. PICK x \in Nat \ T : \A y \in Nat \ T : x <= y
  BY LeastNumber
<1>2. x # 0 /\ x - 1 \in Nat /\ ~(x <= x - 1)
  BY <1>1
<1>3. x - 1 \in T
  BY <1>1, <1>2
<1>4. (x - 1) + 1 \in T
  BY <1>2, <1>3
<1> QED BY <1>1, <1>4
=============================================================================
