--------------------------- MODULE ClientsProofs ---------------------------
(***************************************************************************)
(* For every trace, timestamps and sizes, socket buffer and way of taking  *)
(* data apart: flows leave at their timestamps (OnTime), every byte is     *)
(* given to the socket once before the one Close (TcpExact), and the       *)
(* statistics are those of the packets (StatsAgree).                       *)
(***************************************************************************)
EXTENDS Clients, FiniteSetTheorems, TLAPS

(* Why TcpExact is inductive: a connection is marked open exactly while it *)
(* is, a cached packet is no longer than one send, and what is buffered is *)
(* part of what was taken, so that the first send always fits.             *)
AppInv(a, size) ==
  /\ a \in App
  /\ a.stream = a.totBytes
  /\ size > 0 => a.stream + a.unsent <= size
  /\ a.closes = IF a.state = "closed" THEN 1 ELSE 0
  /\ a.state = "closed" => a.stream = size /\ a.unsent = 0
  /\ a.connected <=> a.state = "open"
  /\ a.sending => a.connected
  /\ a.unsent <= SendSize
  /\ a.buffered <= a.stream /\ a.buffered <= BufferSize

(* Why OnTime is: the next flow is scheduled for its own timestamp, which  *)
(* has not passed, and none follows it that is earlier.                    *)
Timing ==
  /\ \A i, j \in Idx : i <= j => flows[i].ts <= flows[j].ts
  /\ \A i \in Idx : flows[i].ts <= LastTs
  /\ now <= StopTime /\ currentIdx <= Lines + 1
  /\ \A i \in Idx : departed[i] = IF i < currentIdx THEN flows[i].ts ELSE Never
  /\ running = "before" => now = 0 /\ currentIdx = 1 /\ sendEvent = Never
  /\ running = "yes" =>
       IF currentIdx <= Lines
       THEN sendEvent = flows[currentIdx].ts /\ now <= flows[currentIdx].ts
       ELSE sendEvent = Never
  /\ running = "no" => currentIdx = Lines + 1 /\ sendEvent = Never

\* Applications are installed one after the other.
Absent == \A i \in Idx : i >= currentIdx => apps[i].state = "absent"

IInv == TypeOK /\ Timing /\ Absent /\ \A i \in Idx : AppInv(apps[i], flows[i].size)

USE TcpAssumption DEF TcpAssumption

-----------------------------------------------------------------------------
(* The operators of TcpClientApp                                           *)

\* A new application satisfies the invariant.
LEMMA NoAppOK ==
  ASSUME NEW size \in Nat
  PROVE  AppInv(NoApp, size)
BY DEF AppInv, NoApp, App, SocketState

\* Installing, starting and failing to connect touch neither data nor calls of Close.
LEMMA QuietOK ==
  ASSUME NEW a, NEW size \in Nat, AppInv(a, size), a.state \in {"absent", "installed", "connecting"}
  PROVE  /\ AppInv(Install(a), size)
         /\ AppInv(StartApplication(a), size)
         /\ AppInv(ConnectionFailed(a), size)
BY DEF AppInv, App, SocketState, Install, StartApplication, ConnectionFailed

\* ConnectionSucceeded opens.
LEMMA ConnectedOK ==
  ASSUME NEW a, NEW size \in Nat, AppInv(a, size), a.state = "connecting"
  PROVE  AppInv(ConnectionSucceeded(a), size)
BY DEF AppInv, App, SocketState, ConnectionSucceeded

\* An acknowledgement restarts the loop only on an open connection.
LEMMA DataSendOK ==
  ASSUME NEW a, NEW size \in Nat, AppInv(a, size), NEW k \in 1 .. a.buffered
  PROVE  AppInv(DataSend(a, k), size)
<1> DEFINE b == DataSend(a, k)
<1>1. a.connected \in BOOLEAN /\ a.buffered \in Nat
  BY DEF AppInv, App
<1>2. b = [a EXCEPT !.buffered = @ - k, !.sending = a.connected]
  BY DEF DataSend
<1>3. a.buffered - k \in Nat /\ a.buffered - k <= a.buffered
  BY <1>1
<1>4. b \in App
  BY <1>1, <1>2, <1>3 DEF AppInv, App
<1>5. /\ b.state = a.state /\ b.connected = a.connected /\ b.totBytes = a.totBytes
      /\ b.unsent = a.unsent /\ b.stream = a.stream /\ b.closes = a.closes
      /\ b.buffered = a.buffered - k /\ b.sending = a.connected
  BY <1>2 DEF AppInv, App
<1> HIDE DEF b
<1>6. b.sending => b.connected
  BY <1>5
<1>7. b.connected <=> b.state = "open"
  BY <1>5 DEF AppInv
<1>8. b.buffered <= b.stream /\ b.buffered <= BufferSize
  BY <1>1, <1>3, <1>5 DEF AppInv, App
<1>9. AppInv(b, size)
  BY <1>4, <1>5, <1>6, <1>7, <1>8 DEF AppInv
<1> QED
  BY <1>9 DEF b

\* The end of SendData closes only when nothing is cached.
LEMMA SendDoneOK ==
  ASSUME NEW a, NEW size \in Nat, AppInv(a, size), a.totBytes = size => a.unsent = 0
  PROVE  AppInv(SendDone(a, size), size)
<1>1. CASE a.totBytes = size /\ a.connected
  <2> DEFINE b == [a EXCEPT !.sending = FALSE, !.state = "closed", !.connected = FALSE,
                            !.closes = @ + 1]
  <2>1. SendDone(a, size) = b
    BY <1>1 DEF SendDone
  <2>2. a.closes = 0
    BY <1>1 DEF AppInv
  <2>3. b \in App
    <3>1. a \in App
      BY DEF AppInv
    <3>2. "closed" \in SocketState /\ a.closes + 1 \in Nat
      BY <2>2 DEF SocketState
    <3> QED
      BY <3>1, <3>2 DEF App
  <2>4. /\ b.state = "closed" /\ b.connected = FALSE /\ b.totBytes = a.totBytes
        /\ b.unsent = a.unsent /\ b.stream = a.stream /\ b.closes = 1
        /\ b.buffered = a.buffered /\ b.sending = FALSE
    BY <2>2 DEF AppInv, App
  <2> HIDE DEF b
  <2>5. AppInv(b, size)
    BY <1>1, <2>3, <2>4 DEF AppInv
  <2> QED
    BY <2>1, <2>5
<1>2. CASE ~(a.totBytes = size /\ a.connected)
  <2> DEFINE b == [a EXCEPT !.sending = FALSE]
  <2>1. SendDone(a, size) = b
    BY <1>2 DEF SendDone
  <2>2. b \in App
    <3>1. a \in App
      BY DEF AppInv
    <3> QED
      BY <3>1 DEF App
  <2>3. /\ b.state = a.state /\ b.connected = a.connected /\ b.totBytes = a.totBytes
        /\ b.unsent = a.unsent /\ b.stream = a.stream /\ b.closes = a.closes
        /\ b.buffered = a.buffered /\ b.sending = FALSE
    BY DEF AppInv, App
  <2> HIDE DEF b
  <2>4. AppInv(b, size)
    BY <2>2, <2>3 DEF AppInv
  <2> QED
    BY <2>1, <2>4
<1> QED
  BY <1>1, <1>2

\* The packet offered to the socket lies within the flow.
LEMMA ToSendOK ==
  ASSUME NEW a, NEW size \in Nat, AppInv(a, size), MoreToSend(a, size)
  PROVE  /\ ToSend(a, size) \in 1 .. SendSize
         /\ size > 0 => a.totBytes + ToSend(a, size) <= size
BY DEF AppInv, App, ToSend, MoreToSend

\* What the socket takes is not more than it was offered and has room for; the first
\* packet is taken whole.
LEMMA SendResultsOK ==
  ASSUME NEW a, NEW size \in Nat, AppInv(a, size), NEW n \in 1 .. SendSize,
         NEW r \in SendResults(a, n)
  PROVE  /\ r \in Int /\ Taken(r) \in 0 .. n
         /\ a.buffered + Taken(r) <= BufferSize
         /\ r # n => Taken(r) < n
         /\ r # n => a.totBytes + Taken(r) > 0
BY DEF AppInv, App, SendResults, Taken

\* A round of the loop keeps the stream exact.
LEMMA SendOK ==
  ASSUME NEW a, NEW size \in Nat, AppInv(a, size), MoreToSend(a, size), a.sending,
         NEW r \in SendResults(a, ToSend(a, size))
  PROVE  AppInv(Send(a, size, r), size)
<1> DEFINE n == ToSend(a, size)
           t == Taken(r)
           b == [a EXCEPT !.totBytes = @ + t, !.stream = @ + t, !.buffered = @ + t,
                          !.unsent = n - t]
<1>1. n \in 1 .. SendSize /\ (size > 0 => a.totBytes + n <= size)
  BY ToSendOK
<1>2. /\ r \in Int /\ t \in 0 .. n /\ a.buffered + t <= BufferSize
      /\ r # n => t < n
      /\ r # n => a.totBytes + t > 0
  BY <1>1, SendResultsOK
<1>3. Send(a, size, r) = IF r = n THEN b ELSE SendDone(b, size)
  BY DEF Send
<1> HIDE DEF n, t
<1>4. a.state = "open"
  BY DEF AppInv
<1>5. AppInv(b, size)
  <2>1. b \in App
    <3>1. a \in App
      BY DEF AppInv
    <3>2. a.totBytes + t \in Nat /\ a.stream + t \in Nat /\ a.buffered + t \in Nat /\ n - t \in Nat
      BY <1>1, <1>2, <3>1 DEF App
    <3> QED
      BY <3>1, <3>2 DEF App
  <2>2. /\ b.state = a.state /\ b.connected = a.connected /\ b.closes = a.closes
        /\ b.sending = a.sending /\ b.totBytes = a.totBytes + t /\ b.unsent = n - t
        /\ b.stream = a.stream + t /\ b.buffered = a.buffered + t
    BY DEF AppInv, App
  <2> HIDE DEF b
  <2>3. b.connected <=> b.state = "open"
    BY <2>2 DEF AppInv
  <2>4. b.sending => b.connected
    BY <2>2 DEF AppInv
  <2>5. /\ b.stream = b.totBytes
        /\ size > 0 => b.stream + b.unsent <= size
        /\ b.unsent <= SendSize
        /\ b.buffered <= b.stream /\ b.buffered <= BufferSize
    BY <1>1, <1>2, <2>2 DEF AppInv, App
  <2>6. b.closes = IF b.state = "closed" THEN 1 ELSE 0
    BY <2>2 DEF AppInv
  <2> QED
    BY <1>4, <2>1, <2>2, <2>3, <2>4, <2>5, <2>6 DEF AppInv
<1>6. CASE r = n
  BY <1>3, <1>5, <1>6
<1>7. CASE r # n
  <2>1. b.totBytes = a.totBytes + t /\ b.unsent = n - t
    BY DEF AppInv, App
  <2>2. b.totBytes # size
    BY <1>1, <1>2, <1>7, <2>1 DEF AppInv, App
  <2>3. AppInv(SendDone(b, size), size)
    BY <1>5, <2>2, SendDoneOK
  <2> QED
    BY <1>3, <1>7, <2>3
<1> QED
  BY <1>6, <1>7

-----------------------------------------------------------------------------
(* The invariant of the composed system                                    *)

\* The trace after parsing is sorted and ends by LastTs.
LEMMA ParsedOK ==
  ASSUME NEW s \in Parsed
  PROVE  /\ s \in [Idx -> Line]
         /\ \A i, j \in Idx : i <= j => s[i].ts <= s[j].ts
         /\ \A i \in Idx : s[i].ts <= LastTs
<1>1. PICK p \in Injection(Idx, Idx) : s = [i \in Idx |-> Trace[p[i]]]
  BY DEF Parsed
<1>2. p \in [Idx -> Idx]
  BY DEF Injection
<1>3. \A i, j \in Idx : i <= j => s[i].ts <= s[j].ts
  BY DEF Parsed
<1> QED
  BY <1>1, <1>2, <1>3, ClientsAssumption DEF ClientsAssumption

\* The initial state satisfies the invariant.
LEMMA InitIInv == Init => IInv
<1> SUFFICES ASSUME Init PROVE IInv
  OBVIOUS
<1>1. /\ flows \in [Idx -> Line]
      /\ \A i, j \in Idx : i <= j => flows[i].ts <= flows[j].ts
      /\ \A i \in Idx : flows[i].ts <= LastTs
  BY ParsedOK DEF Init
<1>2. \A i \in Idx : AppInv(apps[i], flows[i].size)
  BY <1>1, NoAppOK DEF Init, Line
<1>3. NoApp \in App
  BY DEF NoApp, App, SocketState
<1>4. TypeOK
  BY <1>1, <1>3 DEF Init, TypeOK
<1>5. Timing
  BY <1>1, ClientsAssumption DEF Init, Timing, ClientsAssumption, Idx, StopTime
<1>6. Absent
  BY DEF Init, Absent, NoApp
<1> QED
  BY <1>2, <1>4, <1>5, <1>6 DEF IInv

\* A step that leaves the client's timing alone may change one application.
LEMMA AppStepOK ==
  ASSUME IInv, NEW i \in Idx, NEW a, AppStep(i, a), AppInv(a, flows[i].size),
         apps[i].state # "absent"
  PROVE  IInv'
<1>1. apps' = [apps EXCEPT ![i] = a] /\ UNCHANGED <<udpMode, flows, now, client>>
  BY DEF AppStep
<1>2. a \in App
  BY DEF AppInv
<1>3. TypeOK'
  BY <1>1, <1>2 DEF IInv, TypeOK, client
<1>4. Timing'
  BY <1>1 DEF IInv, Timing, client
<1>5. \A j \in Idx : AppInv(apps'[j], flows'[j].size)
  <2>1. ASSUME NEW j \in Idx PROVE apps'[j] = IF j = i THEN a ELSE apps[j]
    BY <1>1 DEF IInv, TypeOK
  <2>2. flows' = flows
    BY <1>1
  <2> QED
    BY <2>1, <2>2 DEF IInv
<1>6. Absent'
  BY <1>1 DEF IInv, TypeOK, Absent, client
<1> QED
  BY <1>3, <1>4, <1>5, <1>6 DEF IInv, AppInv

\* So does a step that changes neither.
LEMMA OthersOK ==
  ASSUME IInv, UNCHANGED <<udpMode, flows, now, client, apps>>
  PROVE  IInv'
BY DEF IInv, TypeOK, Timing, Absent, client, AppInv, StopTime

\* SendPacket runs at the timestamp of its line and schedules the next one for its own.
LEMMA NextFlowOK ==
  ASSUME IInv, NextFlow
  PROVE  /\ Timing' /\ flows' = flows /\ currentIdx \in Idx
         /\ UNCHANGED <<udpMode, now, running>> /\ currentIdx' \in Nat \ {0}
         /\ sendEvent' \in Nat \cup {Never} /\ departed' \in [Idx -> Nat \cup {Never}]
<1> USE ClientsAssumption DEF ClientsAssumption
<1>1. /\ sendEvent = now /\ currentIdx' = currentIdx + 1
      /\ departed' = [departed EXCEPT ![currentIdx] = now]
      /\ sendEvent' = IF currentIdx < Lines THEN ScheduleNext(currentIdx + 1) ELSE Never
      /\ UNCHANGED <<udpMode, flows, now, running>>
  BY DEF NextFlow
<1>2. now \in Nat /\ sendEvent # Never /\ currentIdx \in Nat \ {0} /\ flows \in [Idx -> Line]
  BY <1>1 DEF IInv, TypeOK
<1>3. running = "yes" /\ currentIdx <= Lines /\ now = flows[currentIdx].ts
  BY <1>1, <1>2 DEF IInv, TypeOK, Timing
<1>4. currentIdx \in Idx
  BY <1>2, <1>3 DEF Idx
<1>5. ASSUME currentIdx < Lines
      PROVE  /\ currentIdx + 1 \in Idx
             /\ ScheduleNext(currentIdx + 1) = flows[currentIdx + 1].ts
             /\ now <= flows[currentIdx + 1].ts
  <2>1. currentIdx + 1 \in Idx
    BY <1>2, <1>5 DEF Idx
  <2>2. flows[currentIdx].ts <= flows[currentIdx + 1].ts
    BY <1>2, <1>4, <2>1 DEF IInv, Timing
  <2>3. flows[currentIdx].ts \in Nat /\ flows[currentIdx + 1].ts \in Nat
    BY <1>2, <1>4, <2>1 DEF Line
  <2>4. currentIdx + 1 # 1 /\ (currentIdx + 1) - 1 = currentIdx
    BY <1>2
  <2> QED
    BY <1>3, <2>1, <2>2, <2>3, <2>4 DEF ScheduleNext
<1>6. flows[currentIdx].ts \in Nat
  BY <1>2, <1>4 DEF Line
<1>7. \A i \in Idx : departed'[i] = IF i < currentIdx' THEN flows'[i].ts ELSE Never
  <2>1. ASSUME NEW i \in Idx
        PROVE  departed'[i] = IF i < currentIdx' THEN flows'[i].ts ELSE Never
    <3>1. departed[i] = IF i < currentIdx THEN flows[i].ts ELSE Never
      BY DEF IInv, Timing
    <3>2. departed'[i] = IF i = currentIdx THEN now ELSE departed[i]
      BY <1>1 DEF IInv, TypeOK
    <3>3. i < currentIdx' <=> i < currentIdx \/ i = currentIdx
      BY <1>1, <1>2 DEF Idx
    <3>4. flows' = flows
      BY <1>1
    <3> QED
      BY <1>2, <1>3, <3>1, <3>2, <3>3, <3>4 DEF Idx
  <2> QED
    BY <2>1
<1>8. IF currentIdx' <= Lines
      THEN sendEvent' = flows'[currentIdx'].ts /\ now' <= flows'[currentIdx'].ts
      ELSE sendEvent' = Never
  BY <1>1, <1>2, <1>3, <1>5
<1>9. currentIdx' <= Lines + 1
  BY <1>1, <1>2, <1>3
<1>10. Timing'
  BY <1>1, <1>3, <1>7, <1>8, <1>9 DEF IInv, Timing, StopTime
<1>11. sendEvent' \in Nat \cup {Never}
  BY <1>1, <1>2, <1>5 DEF Line
<1>12. departed' \in [Idx -> Nat \cup {Never}]
  BY <1>1, <1>2 DEF IInv, TypeOK
<1> QED
  BY <1>1, <1>2, <1>4, <1>10, <1>11, <1>12

\* Every step keeps the invariant.
LEMMA NextIInv == IInv /\ [Next]_vars => IInv'
<1> USE ClientsAssumption DEF ClientsAssumption
<1> SUFFICES ASSUME IInv, [Next]_vars PROVE IInv'
  OBVIOUS
<1>1. ASSUME NEW i \in Idx PROVE AppInv(apps[i], flows[i].size) /\ flows[i].size \in Nat
  BY DEF IInv, TypeOK, Line
<1>2. CASE UNCHANGED vars
  BY <1>2, OthersOK DEF vars, client
<1>3. ASSUME NEW i \in Idx, SendRound(i) PROVE IInv'
  <2>1. PICK r \in SendResults(apps[i], ToSend(apps[i], flows[i].size)) :
          AppStep(i, Send(apps[i], flows[i].size, r))
    BY <1>3 DEF SendRound
  <2>2. AppInv(Send(apps[i], flows[i].size, r), flows[i].size)
    BY <1>1, <1>3, SendOK DEF SendRound
  <2>3. apps[i].state # "absent"
    BY <1>1, <1>3 DEF AppInv, SendRound
  <2> QED
    BY <2>1, <2>2, <2>3, AppStepOK
<1>4. ASSUME NEW i \in Idx, SendEnds(i) PROVE IInv'
  <2>1. flows[i].size > 0 /\ ~(apps[i].totBytes < flows[i].size)
    BY <1>1, <1>4 DEF SendEnds, MoreToSend
  <2>2. apps[i].unsent = 0
    BY <1>1, <2>1 DEF AppInv, App
  <2>3. AppInv(SendDone(apps[i], flows[i].size), flows[i].size)
    BY <1>1, <2>2, SendDoneOK
  <2>4. apps[i].state # "absent"
    BY <1>1, <1>4 DEF AppInv, SendEnds
  <2> QED
    BY <1>4, <2>3, <2>4, AppStepOK DEF SendEnds
<1>5. CASE Start
  <2>1. 1 \in Idx /\ flows \in [Idx -> Line] /\ flows[1].ts \in Nat
    BY DEF Idx, IInv, TypeOK, Line
  <2>2. now = 0 /\ currentIdx = 1
    BY <1>5 DEF Start, IInv, Timing
  <2>3. ScheduleNext(1) = flows[1].ts
    BY <2>1, <2>2 DEF ScheduleNext
  <2>4. TypeOK'
    BY <1>5, <2>1, <2>3 DEF Start, IInv, TypeOK
  <2>5. Timing'
    BY <1>5, <2>1, <2>2, <2>3 DEF Start, IInv, TypeOK, Timing, StopTime
  <2>6. apps' = apps /\ flows' = flows
    BY <1>5 DEF Start
  <2> QED
    BY <1>5, <2>4, <2>5, <2>6 DEF Start, IInv, Absent, AppInv
<1>6. CASE SendPacketUdp
  <2>1. NextFlow /\ apps' = apps
    BY <1>6 DEF SendPacketUdp
  <2>2. TypeOK'
    BY <2>1, NextFlowOK DEF IInv, TypeOK
  <2>3. Absent'
    BY <2>1 DEF NextFlow, IInv, TypeOK, Absent, Idx
  <2> QED
    BY <2>1, <2>2, <2>3, NextFlowOK DEF IInv, AppInv
<1>7. CASE SendPacketTcp
  <2>1. NextFlow /\ apps' = [apps EXCEPT ![currentIdx] = Install(@)]
    BY <1>7 DEF SendPacketTcp
  <2>2. currentIdx \in Idx /\ flows' = flows
    BY <2>1, NextFlowOK
  <2>3. AppInv(apps[currentIdx], flows[currentIdx].size) /\ flows[currentIdx].size \in Nat
    BY <1>1, <2>2
  <2>4. apps[currentIdx].state = "absent"
    BY <2>2 DEF IInv, Absent, Idx
  <2>5. AppInv(Install(apps[currentIdx]), flows[currentIdx].size)
    BY <2>3, <2>4, QuietOK
  <2>6. TypeOK'
    BY <2>1, <2>2, <2>5, NextFlowOK DEF IInv, TypeOK, AppInv
  <2>7. ASSUME NEW i \in Idx
        PROVE  apps'[i] = IF i = currentIdx THEN Install(apps[currentIdx]) ELSE apps[i]
    BY <2>1 DEF IInv, TypeOK
  <2>8. \A i \in Idx : AppInv(apps'[i], flows'[i].size)
    BY <1>1, <2>2, <2>5, <2>7
  <2>9. Absent'
    BY <2>1, <2>2, <2>7 DEF NextFlow, IInv, TypeOK, Absent, Idx
  <2> QED
    BY <2>1, <2>6, <2>8, <2>9, NextFlowOK DEF IInv, AppInv
<1>8. CASE Stop
  <2>1. currentIdx = Lines + 1
    <3>1. ~(currentIdx <= Lines)
      <4>1. SUFFICES ASSUME currentIdx <= Lines PROVE FALSE
        OBVIOUS
      <4>2. currentIdx \in Idx
        BY <4>1 DEF IInv, TypeOK, Idx
      <4>3. now <= flows[currentIdx].ts /\ flows[currentIdx].ts <= LastTs
        BY <1>8, <4>1, <4>2 DEF Stop, IInv, Timing
      <4>4. flows[currentIdx].ts \in Nat
        BY <4>2 DEF IInv, TypeOK, Line
      <4> QED
        BY <1>8, <4>3, <4>4 DEF Stop, StopTime
    <3> QED
      BY <3>1 DEF IInv, TypeOK, Timing
  <2>2. TypeOK'
    BY <1>8 DEF Stop, IInv, TypeOK
  <2>3. Timing'
    BY <1>8, <2>1 DEF Stop, IInv, Timing, StopTime
  <2>4. apps' = apps /\ flows' = flows
    BY <1>8 DEF Stop
  <2> QED
    BY <1>8, <2>2, <2>3, <2>4 DEF Stop, IInv, Absent, AppInv
<1>9. ASSUME NEW i \in Idx,
             StartTcp(i) \/ Connected(i) \/ Refused(i) \/ Acknowledged(i)
      PROVE  IInv'
  <2>1. CASE StartTcp(i)
    BY <1>1, <2>1, QuietOK, AppStepOK DEF StartTcp
  <2>2. CASE Connected(i)
    BY <1>1, <2>2, ConnectedOK, AppStepOK DEF Connected
  <2>3. CASE Refused(i)
    BY <1>1, <2>3, QuietOK, AppStepOK DEF Refused
  <2>4. CASE Acknowledged(i)
    BY <1>1, <2>4, DataSendOK, AppStepOK DEF Acknowledged
  <2> QED
    BY <1>9, <2>1, <2>2, <2>3, <2>4
<1>10. ASSUME NEW i \in Idx, Segment(i) \/ Disorder(i) PROVE IInv'
  BY <1>10, OthersOK DEF Segment, Disorder, client
<1>11. CASE Reply \/ Arrive \/ Drop \/ DropOther \/ Done
  BY <1>11, OthersOK DEF Reply, Arrive, Drop, DropOther, Done, vars, client
<1>12. CASE Tick
  <2>1. now' = now + 1 /\ UNCHANGED <<udpMode, flows, client, apps>>
    BY <1>12 DEF Tick
  <2>2. TypeOK'
    BY <2>1 DEF IInv, TypeOK, client
  <2>3. running = "yes" /\ now + 1 <= StopTime
    BY <1>12 DEF Tick, IInv, TypeOK, StopTime
  <2>4. currentIdx <= Lines => now + 1 <= flows[currentIdx].ts
    <3>1. SUFFICES ASSUME currentIdx <= Lines PROVE now + 1 <= flows[currentIdx].ts
      OBVIOUS
    <3>2. currentIdx \in Idx
      BY <3>1 DEF IInv, TypeOK, Idx
    <3>3. flows[currentIdx].ts \in Nat /\ now \in Nat
      BY <3>2 DEF IInv, TypeOK, Line
    <3>4. sendEvent = flows[currentIdx].ts /\ now <= flows[currentIdx].ts /\ sendEvent # now
      BY <1>12, <2>3, <3>1 DEF Tick, IInv, Timing
    <3> QED
      BY <3>3, <3>4
  <2>5. Timing'
    BY <2>1, <2>3, <2>4 DEF IInv, Timing, client, StopTime
  <2> QED
    BY <2>1, <2>2, <2>5 DEF IInv, Absent, AppInv, client
<1> QED
  BY <1>2, <1>3, <1>4, <1>5, <1>6, <1>7, <1>8, <1>9, <1>10, <1>11, <1>12
     DEF Next, Event, TcpHandler

-----------------------------------------------------------------------------
\* The inductive invariant holds in every reachable state.
THEOREM Invariance == Spec => []IInv
<1>1. Init => IInv
  BY InitIInv
<1>2. IInv /\ [Next]_vars => IInv'
  BY NextIInv
<1> QED
  BY <1>1, <1>2, PTL DEF Spec

\* Every flow of every trace leaves at its timestamp: the chain of ScheduleNext adds up,
\* and StopApplication cancels none.
THEOREM FlowsOnTime == Spec => []OnTime
<1>1. IInv => OnTime
  <2> SUFFICES ASSUME IInv, NEW i \in Idx
               PROVE  /\ departed[i] \in {Never, flows[i].ts}
                      /\ now > flows[i].ts \/ running = "no" => departed[i] # Never
    BY DEF OnTime
  <2>1. departed[i] = IF i < currentIdx THEN flows[i].ts ELSE Never
    BY DEF IInv, Timing
  <2>2. /\ flows[i].ts \in Nat /\ now \in Nat /\ currentIdx \in Nat /\ Lines \in Nat
        /\ running \in {"before", "yes", "no"} /\ Never \notin Nat
    BY ClientsAssumption DEF IInv, TypeOK, Line, ClientsAssumption
  <2>3. ASSUME running = "no" PROVE i < currentIdx
    BY <2>2, <2>3 DEF IInv, Timing, Idx
  <2>4. ASSUME now > flows[i].ts, ~(i < currentIdx) PROVE FALSE
    <3>1. currentIdx \in Idx /\ currentIdx <= i
      BY <2>2, <2>4 DEF IInv, TypeOK, Idx
    <3>2. flows[currentIdx].ts <= flows[i].ts /\ flows[currentIdx].ts \in Nat
      BY <3>1 DEF IInv, Timing, TypeOK, Line
    <3>3. CASE running = "before"
      BY <2>2, <2>4, <3>3 DEF IInv, Timing
    <3>4. CASE running = "yes"
      <4>1. now <= flows[currentIdx].ts
        BY <2>2, <3>1, <3>4 DEF IInv, Timing, Idx
      <4> QED
        BY <2>2, <2>4, <3>2, <4>1
    <3>5. CASE running = "no"
      BY <2>3, <2>4, <3>5
    <3> QED
      BY <2>2, <3>3, <3>4, <3>5
  <2> QED
    BY <2>1, <2>2, <2>3, <2>4
<1> QED
  BY <1>1, Invariance, PTL

\* Whatever part of a packet the socket takes at a time, it is given every byte of a flow
\* once and is closed once, after the last.
THEOREM StreamExact == Spec => []TcpExact
<1>1. IInv => TcpExact
  BY DEF IInv, TcpExact, AppInv
<1> QED
  BY <1>1, Invariance, PTL

-----------------------------------------------------------------------------
(* Statistics                                                              *)

LEMMA MinIs ==
  ASSUME NEW S \in SUBSET Int, NEW x \in S, \A y \in S : x <= y
  PROVE  Min(S) = x
<1>1. \A z \in S : (\A y \in S : z =< y) => z = x
  OBVIOUS
<1> QED BY <1>1 DEF Min

LEMMA MaxIs ==
  ASSUME NEW S \in SUBSET Int, NEW x \in S, \A y \in S : y <= x
  PROVE  Max(S) = x
<1>1. \A y \in S : x >= y
  OBVIOUS
<1>2. \A z \in S : (\A y \in S : z >= y) => z = x
  OBVIOUS
<1> QED BY <1>1, <1>2 DEF Max

LEMMA MinMaxOfTwo ==
  ASSUME NEW a \in Int, NEW b \in Int
  PROVE  /\ Min({a, b}) = IF a <= b THEN a ELSE b
         /\ Max({a, b}) = IF a <= b THEN b ELSE a
<1>1. {a, b} \in SUBSET Int /\ a \in {a, b} /\ b \in {a, b}
  OBVIOUS
<1>2. CASE a <= b
  <2>1. (\A y \in {a, b} : a <= y) /\ (\A y \in {a, b} : y <= b)
    BY <1>2
  <2> QED BY <1>1, <1>2, <2>1, MinIs, MaxIs
<1>3. CASE ~(a <= b)
  <2>1. (\A y \in {a, b} : b <= y) /\ (\A y \in {a, b} : y <= a)
    BY <1>3
  <2> QED BY <1>1, <1>3, <2>1, MinIs, MaxIs
<1> QED BY <1>2, <1>3

\* An entry of m_flowStats.
Entry == [firstTx : Nat, firstRx : Nat, lastTx : Nat, lastRx : Nat, count : Nat, disorder : Nat]

\* The entry s says what it should of a flow whose packets were sent at the times X and
\* arrived at the times R.
Summary(s, X, R) ==
  /\ s \in Entry
  /\ s.firstTx \in X /\ \A x \in X : s.firstTx <= x
  /\ s.firstRx \in R \cup {StopTime} /\ \A x \in R \cup {StopTime} : s.firstRx <= x
  /\ s.lastRx \in R \cup {s.firstTx} /\ \A x \in R \cup {s.firstTx} : x <= s.lastRx

\* The entry RecordTx makes, and the one RecordRx makes of s.
NewEntry(t) ==
  [firstTx |-> t, firstRx |-> StopTime, lastTx |-> t, lastRx |-> t, count |-> 0, disorder |-> 0]

Received(s, tx, t) ==
  [firstTx |-> Min({s.firstTx, tx}), firstRx |-> Min({s.firstRx, t}),
   lastTx  |-> Max({s.lastTx, tx}),  lastRx  |-> Max({s.lastRx, t}),
   count   |-> s.count + 1,          disorder |-> s.disorder]

LEMMA StopTimeType == StopTime \in Nat
  BY ClientsAssumption DEF ClientsAssumption, StopTime

LEMMA FirstSent ==
  ASSUME NEW t \in Nat, t <= StopTime
  PROVE  Summary(NewEntry(t), {t}, {})
  BY StopTimeType DEF Summary, NewEntry, Entry

LEMMA SentAgain ==
  ASSUME NEW s, NEW X, NEW R, NEW t \in Nat, Summary(s, X, R), s.firstTx <= t
  PROVE  Summary(s, X \cup {t}, R)
  BY DEF Summary

\* Neither a late packet nor a reply changes when the flow began.
LEMMA OneReceived ==
  ASSUME NEW s, NEW X, NEW R \in SUBSET Nat, NEW tx \in Nat, NEW t \in Nat,
         Summary(s, X, R), s.firstTx <= tx, s.firstTx <= t, t <= StopTime
  PROVE  /\ Summary(Received(s, tx, t), X, R \cup {t})
         /\ Received(s, tx, t).firstTx = s.firstTx
         /\ Received(s, tx, t).count = s.count + 1
         /\ Received(s, tx, t).disorder = s.disorder
<1> DEFINE r == Received(s, tx, t)
<1>0. /\ s.firstTx \in Nat /\ s.firstRx \in Nat /\ s.lastTx \in Nat /\ s.lastRx \in Nat
      /\ s.count \in Nat /\ s.disorder \in Nat
  BY DEF Summary, Entry
<1>1. /\ r.firstTx = s.firstTx
      /\ r.firstRx = IF s.firstRx <= t THEN s.firstRx ELSE t
      /\ r.lastTx = IF s.lastTx <= tx THEN tx ELSE s.lastTx
      /\ r.lastRx = IF s.lastRx <= t THEN t ELSE s.lastRx
      /\ r.count = s.count + 1 /\ r.disorder = s.disorder
  <2>1. /\ Min({s.firstTx, tx}) = s.firstTx
        /\ Min({s.firstRx, t}) = IF s.firstRx <= t THEN s.firstRx ELSE t
        /\ Max({s.lastTx, tx}) = IF s.lastTx <= tx THEN tx ELSE s.lastTx
        /\ Max({s.lastRx, t}) = IF s.lastRx <= t THEN t ELSE s.lastRx
    <3>1. tx \in Int /\ t \in Int /\ s.firstTx \in Int /\ s.firstRx \in Int
          /\ s.lastTx \in Int /\ s.lastRx \in Int
      BY <1>0
    <3> QED BY <3>1, MinMaxOfTwo
  <2> QED BY <2>1 DEF Received
<1>2. r = [firstTx |-> r.firstTx, firstRx |-> r.firstRx, lastTx |-> r.lastTx,
           lastRx |-> r.lastRx, count |-> r.count, disorder |-> r.disorder]
  BY DEF Received
<1> HIDE DEF r
<1>3. /\ r.firstTx \in Nat /\ r.firstRx \in Nat /\ r.lastTx \in Nat /\ r.lastRx \in Nat
      /\ r.count \in Nat /\ r.disorder \in Nat
  BY <1>0, <1>1
<1>4. r \in Entry
  BY <1>2, <1>3 DEF Entry
<1>5. r.firstTx \in X /\ \A x \in X : r.firstTx <= x
  BY <1>1 DEF Summary
<1>6. /\ r.firstRx \in R \cup {t} \cup {StopTime}
      /\ \A x \in R \cup {t} \cup {StopTime} : r.firstRx <= x
  <2>1. \A x \in R \cup {StopTime} : x \in Nat /\ s.firstRx <= x
    BY StopTimeType DEF Summary
  <2>2. s.firstRx \in R \cup {StopTime}
    BY DEF Summary
  <2> QED BY <1>0, <1>1, <2>1, <2>2
<1>7. /\ r.lastRx \in R \cup {t} \cup {r.firstTx}
      /\ \A x \in R \cup {t} \cup {r.firstTx} : x <= r.lastRx
  <2>1. \A x \in R \cup {s.firstTx} : x \in Nat /\ x <= s.lastRx
    BY <1>0 DEF Summary
  <2>2. s.lastRx \in R \cup {s.firstTx}
    BY DEF Summary
  <2> QED BY <1>0, <1>1, <2>1, <2>2
<1> QED BY <1>1, <1>4, <1>5, <1>6, <1>7 DEF Summary, r

\* The flows of the packets T, and those of flow g: when they were sent, which have
\* arrived, and when.
Flows(T)        == {p.flowId : p \in T}
SentAt(T, g)    == {p.tx : p \in {q \in T : q.flowId = g}}
Of(A, g)        == {q \in A : q.flowId = g}
ArrivedAt(A, g) == {p.rx : p \in Of(A, g)}

StatTypes ==
  /\ network \subseteq [n : Nat, flowId : FlowId, tx : Nat, reply : BOOLEAN]
  /\ arrived \subseteq [n : Nat, flowId : FlowId, tx : Nat, reply : BOOLEAN, rx : Nat]
  /\ transmitted \subseteq [flowId : FlowId, tx : Nat]
  /\ disorders \in [FlowId -> Nat]
  /\ sentPackets \in Nat /\ receivedPackets \in Nat

\* The counters agree with the packets, which are told apart by their numbers.
Counted ==
  /\ IsFiniteSet(network) /\ IsFiniteSet(arrived)
  /\ receivedPackets = Cardinality({p \in arrived : p.flowId # 0})
  /\ Cardinality(network) + Cardinality(arrived) <= sentPackets
  /\ \A p \in network \cup arrived : p.n <= sentPackets
  /\ \A p \in network : \A q \in arrived : p.n # q.n
  /\ \A p, q \in network : p.n = q.n => p = q

\* The entries agree with the packets: whatever is under way of a flow was sent after
\* the packet that made the flow's entry, and a flow without one has no disorders.
Told ==
  /\ DOMAIN flowStats = Flows(transmitted) \ {0}
  /\ \A p \in network \cup arrived : p.flowId \in Flows(transmitted)
  /\ \A g \in FlowId : g \notin Flows(transmitted) => disorders[g] = 0
  /\ \A g \in DOMAIN flowStats :
       /\ Summary(flowStats[g], SentAt(transmitted, g), ArrivedAt(arrived, g))
       /\ flowStats[g].firstTx <= now
       /\ flowStats[g].count = Cardinality(Of(arrived, g))
       /\ flowStats[g].disorder = disorders[g]
  /\ \A p \in network : p.flowId # 0 => flowStats[p.flowId].firstTx <= p.tx

\* A connection is open, or was, only if its flow has sent a packet.
OpenFlows ==
  \A i \in Idx :
    /\ flows[i].flowId \in FlowId
    /\ apps[i].state \in {"open", "closed"} => flows[i].flowId \in Flows(transmitted)

StatInv == StatTypes /\ Counted /\ Told /\ OpenFlows

\* One element more in a finite set.
LEMMA OneMore ==
  ASSUME NEW S, NEW x, x \notin S, IsFiniteSet(S)
  PROVE  /\ IsFiniteSet(S \cup {x}) /\ Cardinality(S \cup {x}) = Cardinality(S) + 1
         /\ Cardinality(S) \in Nat
  BY FS_AddElement, FS_CardinalityType

LEMMA OneLess ==
  ASSUME NEW S, NEW x \in S, IsFiniteSet(S)
  PROVE  /\ IsFiniteSet(S \ {x}) /\ Cardinality(S \ {x}) + 1 = Cardinality(S)
         /\ Cardinality(S \ {x}) \in Nat
<1>1. IsFiniteSet(S \ {x}) /\ Cardinality(S \ {x}) = Cardinality(S) - 1 /\ Cardinality(S) \in Nat
  BY FS_RemoveElement, FS_CardinalityType
<1>2. Cardinality(S \ {x}) \in Nat
  BY <1>1, FS_CardinalityType
<1> QED BY <1>1, <1>2

\* A packet is sent.
LEMMA TransmitOK ==
  ASSUME IInv, StatInv, NEW id \in FlowId, NEW reply \in BOOLEAN,
         reply => id \in Flows(transmitted), Transmit(id, reply), now' = now
  PROVE  /\ StatTypes' /\ Counted' /\ Told'
         /\ Flows(transmitted) \subseteq Flows(transmitted')
<1> DEFINE e == [n |-> sentPackets + 1, flowId |-> id, tx |-> now, reply |-> reply]
           x == [flowId |-> id, tx |-> now]
           F == Flows(transmitted)
<1>0. /\ now \in Nat /\ now <= StopTime /\ sentPackets \in Nat
  BY DEF IInv, TypeOK, Timing, StatInv, StatTypes
<1>1. /\ sentPackets' = sentPackets + 1 /\ network' = network \cup {e}
      /\ transmitted' = IF reply THEN transmitted ELSE transmitted \cup {x}
      /\ UNCHANGED <<receivedPackets, arrived, disorders>>
  BY DEF Transmit, RecordTx
<1>2. /\ e \in [n : Nat, flowId : FlowId, tx : Nat, reply : BOOLEAN]
      /\ e.n = sentPackets + 1 /\ e.flowId = id /\ e.tx = now
      /\ x \in [flowId : FlowId, tx : Nat] /\ x.flowId = id /\ x.tx = now
  BY <1>0
<1> HIDE DEF e, x
<1>3. StatTypes'
  <2>1. transmitted' \subseteq [flowId : FlowId, tx : Nat]
    BY <1>1, <1>2 DEF StatInv, StatTypes
  <2>2. sentPackets' \in Nat
    BY <1>0, <1>1
  <2>3. network' \subseteq [n : Nat, flowId : FlowId, tx : Nat, reply : BOOLEAN]
    BY <1>1, <1>2 DEF StatInv, StatTypes
  <2> QED BY <1>1, <2>1, <2>2, <2>3 DEF StatInv, StatTypes
<1>4. \A p \in network \cup arrived : p.n \in Nat /\ p.n < e.n /\ p.n <= sentPackets
  BY <1>0, <1>2 DEF StatInv, StatTypes, Counted
<1>5. Counted'
  <2>1. e \notin network
    BY <1>4
  <2>2. /\ IsFiniteSet(network') /\ Cardinality(network') = Cardinality(network) + 1
        /\ Cardinality(network) \in Nat
    BY <1>1, <2>1, OneMore DEF StatInv, Counted
  <2>3. Cardinality(arrived) \in Nat
    BY FS_CardinalityType DEF StatInv, Counted
  <2>4. Cardinality(network') + Cardinality(arrived') <= sentPackets'
    <3>1. Cardinality(network) + Cardinality(arrived) <= sentPackets
      BY DEF StatInv, Counted
    <3>2. Cardinality(arrived') = Cardinality(arrived)
      BY <1>1
    <3> QED BY <1>0, <1>1, <2>2, <2>3, <3>1, <3>2
  <2>5. \A p \in network' \cup arrived' : p.n <= sentPackets'
    BY <1>0, <1>1, <1>2, <1>4
  <2>6. /\ \A p \in network' : \A q \in arrived' : p.n # q.n
        /\ \A p, q \in network' : p.n = q.n => p = q
    BY <1>0, <1>1, <1>2, <1>4 DEF StatInv, Counted
  <2>7. IsFiniteSet(arrived') /\ receivedPackets' = Cardinality({p \in arrived' : p.flowId # 0})
    BY <1>1 DEF StatInv, Counted
  <2> QED BY <2>2, <2>4, <2>5, <2>6, <2>7 DEF Counted
<1>6. Flows(transmitted') = F \cup {id}
  BY <1>1, <1>2 DEF Flows
<1>7. /\ \A g : g # id => SentAt(transmitted', g) = SentAt(transmitted, g)
      /\ \/ SentAt(transmitted', id) = SentAt(transmitted, id)
         \/ SentAt(transmitted', id) = SentAt(transmitted, id) \cup {now}
      /\ id \notin F => SentAt(transmitted', id) = {now}
  <2>1. \A g : g # id => SentAt(transmitted', g) = SentAt(transmitted, g)
    BY <1>1, <1>2 DEF SentAt
  <2>2. /\ reply => SentAt(transmitted', id) = SentAt(transmitted, id)
        /\ ~reply => SentAt(transmitted', id) = SentAt(transmitted, id) \cup {now}
    BY <1>1, <1>2 DEF SentAt
  <2>3. id \notin F => SentAt(transmitted, id) = {} /\ ~reply
    BY DEF SentAt, Flows
  <2> QED BY <2>1, <2>2, <2>3
<1>8. \A g : g \notin F => ArrivedAt(arrived, g) = {} /\ Of(arrived, g) = {}
  BY DEF ArrivedAt, Of, StatInv, Told
<1>9. \A g \in DOMAIN flowStats : g \in DOMAIN flowStats' /\ flowStats'[g] = flowStats[g]
  BY DEF Transmit, RecordTx
<1>10. ASSUME id # 0, id \notin F
       PROVE  DOMAIN flowStats' = DOMAIN flowStats \cup {id} /\ flowStats'[id] = NewEntry(now)
  <2>1. ~reply /\ id \notin DOMAIN flowStats
    BY <1>10 DEF StatInv, Told
  <2> QED BY <1>10, <2>1 DEF Transmit, RecordTx, NewEntry
<1>11. DOMAIN flowStats' = (F \cup {id}) \ {0}
  <2>1. CASE id = 0 \/ id \in F
    <3>1. flowStats' = flowStats
      BY <2>1 DEF Transmit, RecordTx, StatInv, Told
    <3> QED BY <2>1, <3>1 DEF StatInv, Told
  <2>2. CASE id # 0 /\ id \notin F
    BY <1>10, <2>2 DEF StatInv, Told
  <2> QED BY <2>1, <2>2
<1>12. ASSUME NEW g \in DOMAIN flowStats'
       PROVE  /\ Summary(flowStats'[g], SentAt(transmitted', g), ArrivedAt(arrived', g))
              /\ flowStats'[g].firstTx <= now'
              /\ flowStats'[g].count = Cardinality(Of(arrived', g))
              /\ flowStats'[g].disorder = disorders'[g]
  <2>0. arrived' = arrived /\ disorders' = disorders
    BY <1>1
  <2>1. CASE g \in DOMAIN flowStats
    <3>1. /\ Summary(flowStats[g], SentAt(transmitted, g), ArrivedAt(arrived, g))
          /\ flowStats[g].firstTx <= now
          /\ flowStats[g].count = Cardinality(Of(arrived, g))
          /\ flowStats[g].disorder = disorders[g]
      BY <2>1 DEF StatInv, Told
    <3>2. Summary(flowStats[g], SentAt(transmitted', g), ArrivedAt(arrived, g))
      <4>1. \/ SentAt(transmitted', g) = SentAt(transmitted, g)
            \/ SentAt(transmitted', g) = SentAt(transmitted, g) \cup {now}
        BY <1>7
      <4> QED BY <1>0, <3>1, <4>1, SentAgain
    <3> QED BY <1>9, <2>0, <2>1, <3>1, <3>2
  <2>2. CASE g \notin DOMAIN flowStats
    <3>1. g = id /\ id # 0 /\ id \notin F
      BY <1>11, <2>2 DEF StatInv, Told
    <3>2. flowStats'[g] = NewEntry(now)
      BY <1>10, <3>1
    <3>3. Summary(NewEntry(now), SentAt(transmitted', g), ArrivedAt(arrived, g))
      BY <1>0, <1>7, <1>8, <3>1, FirstSent
    <3>4. Cardinality(Of(arrived, g)) = 0
      BY <1>8, <3>1, FS_EmptySet
    <3>5. disorders[g] = 0
      BY <3>1 DEF StatInv, Told
    <3> QED BY <1>0, <2>0, <3>2, <3>3, <3>4, <3>5 DEF NewEntry
  <2> QED BY <2>1, <2>2
<1>13. \A p \in network' : p.flowId # 0 => flowStats'[p.flowId].firstTx <= p.tx
  <2> SUFFICES ASSUME NEW p \in network', p.flowId # 0
               PROVE  flowStats'[p.flowId].firstTx <= p.tx
    OBVIOUS
  <2>1. CASE p \in network
    <3>1. p.flowId \in DOMAIN flowStats
      BY <2>1 DEF StatInv, Told
    <3> QED BY <1>9, <2>1, <3>1 DEF StatInv, Told
  <2>2. CASE p = e
    <3>1. id \in DOMAIN flowStats'
      BY <1>2, <1>11, <2>2
    <3> QED BY <1>2, <1>12, <2>2, <3>1
  <2> QED BY <1>1, <2>1, <2>2
<1>14. Told'
  <2>1. \A p \in network' \cup arrived' : p.flowId \in Flows(transmitted')
    BY <1>1, <1>2, <1>6 DEF StatInv, Told
  <2>2. \A g \in FlowId : g \notin Flows(transmitted') => disorders'[g] = 0
    BY <1>1, <1>6 DEF StatInv, Told
  <2>3. DOMAIN flowStats' = Flows(transmitted') \ {0}
    BY <1>6, <1>11
  <2> QED BY <1>12, <1>13, <2>1, <2>2, <2>3 DEF Told, Flows, SentAt, Of, ArrivedAt
<1> QED BY <1>3, <1>5, <1>6, <1>14

\* A packet reaches its socket.
LEMMA ArriveOK ==
  ASSUME IInv, StatInv, Arrive
  PROVE  StatTypes' /\ Counted' /\ Told'
<1>1. PICK p \in network :
        /\ network' = network \ {p}
        /\ arrived' = arrived \cup {[n |-> p.n, flowId |-> p.flowId, tx |-> p.tx,
                                     reply |-> p.reply, rx |-> now]}
        /\ IF p.flowId \in DOMAIN flowStats THEN RecordRx(p)
           ELSE UNCHANGED <<receivedPackets, totalPacketLatency, flowStats>>
        /\ UNCHANGED <<now, sentPackets, transmitted, disorders>>
  BY DEF Arrive
<1> DEFINE a == [n |-> p.n, flowId |-> p.flowId, tx |-> p.tx, reply |-> p.reply, rx |-> now]
           g == p.flowId
<1>0. now \in Nat /\ now <= StopTime
  BY DEF IInv, TypeOK, Timing
<1>2. /\ p.n \in Nat /\ p.flowId \in FlowId /\ p.tx \in Nat /\ p.reply \in BOOLEAN
      /\ \A q \in arrived : q.rx \in Nat
  BY DEF StatInv, StatTypes
<1>3. /\ a \in [n : Nat, flowId : FlowId, tx : Nat, reply : BOOLEAN, rx : Nat]
      /\ a.n = p.n /\ a.flowId = g /\ a.rx = now
  BY <1>0, <1>2
<1>4. network' = network \ {p} /\ arrived' = arrived \cup {a}
  BY <1>1
<1> HIDE DEF a
<1>5. a \notin arrived
  BY <1>3 DEF StatInv, Counted
<1>6. g # 0 <=> g \in DOMAIN flowStats
  BY DEF StatInv, Told
<1>7. /\ \A f : f # g => Of(arrived', f) = Of(arrived, f) /\ ArrivedAt(arrived', f) = ArrivedAt(arrived, f)
      /\ Of(arrived', g) = Of(arrived, g) \cup {a}
      /\ ArrivedAt(arrived', g) = ArrivedAt(arrived, g) \cup {now}
      /\ a \notin Of(arrived, g) /\ ArrivedAt(arrived, g) \subseteq Nat
  <2>1. /\ \A f : f # g => Of(arrived', f) = Of(arrived, f)
        /\ Of(arrived', g) = Of(arrived, g) \cup {a}
        /\ a \notin Of(arrived, g)
    BY <1>3, <1>4, <1>5 DEF Of
  <2>2. ArrivedAt(arrived', g) = ArrivedAt(arrived, g) \cup {now}
    BY <1>3, <2>1 DEF ArrivedAt
  <2>3. ArrivedAt(arrived, g) \subseteq Nat
    BY <1>2 DEF ArrivedAt, Of
  <2> QED BY <2>1, <2>2, <2>3 DEF ArrivedAt
<1>8. \A f : IsFiniteSet(Of(arrived, f)) /\ Cardinality(Of(arrived, f)) \in Nat
  <2> SUFFICES ASSUME NEW f
               PROVE  IsFiniteSet(Of(arrived, f)) /\ Cardinality(Of(arrived, f)) \in Nat
    OBVIOUS
  <2>1. Of(arrived, f) \in SUBSET arrived /\ IsFiniteSet(arrived)
    BY DEF Of, StatInv, Counted
  <2> QED BY <2>1, FS_Subset, FS_CardinalityType
<1>9. Cardinality(Of(arrived', g)) = Cardinality(Of(arrived, g)) + 1
  BY <1>7, <1>8, OneMore
<1>10. StatTypes'
  <2>1. arrived' \subseteq [n : Nat, flowId : FlowId, tx : Nat, reply : BOOLEAN, rx : Nat]
    BY <1>3, <1>4 DEF StatInv, StatTypes
  <2>2. receivedPackets' \in Nat
    BY <1>1 DEF RecordRx, StatInv, StatTypes
  <2> QED BY <1>1, <2>1, <2>2 DEF StatInv, StatTypes
<1>11. Counted'
  <2> DEFINE R == {q \in arrived : q.flowId # 0}
             S == {q \in arrived' : q.flowId # 0}
  <2>1. /\ IsFiniteSet(network') /\ Cardinality(network') + 1 = Cardinality(network)
        /\ Cardinality(network') \in Nat
    BY <1>4, OneLess DEF StatInv, Counted
  <2>2. /\ IsFiniteSet(arrived') /\ Cardinality(arrived') = Cardinality(arrived) + 1
        /\ Cardinality(arrived) \in Nat
    BY <1>4, <1>5, OneMore DEF StatInv, Counted
  <2>3. Cardinality(network') + Cardinality(arrived') <= sentPackets'
    <3>1. /\ Cardinality(network) + Cardinality(arrived) <= sentPackets
          /\ sentPackets \in Nat
      BY DEF StatInv, StatTypes, Counted
    <3>2. sentPackets' = sentPackets
      BY <1>1
    <3> QED BY <2>1, <2>2, <3>1, <3>2
  <2>4. receivedPackets' = Cardinality(S)
    <3>1. receivedPackets = Cardinality(R) /\ IsFiniteSet(R)
      <4>1. R \in SUBSET arrived /\ IsFiniteSet(arrived)
        BY DEF StatInv, Counted
      <4> QED BY <4>1, FS_Subset DEF StatInv, Counted
    <3>2. CASE g # 0
      <4>1. S = R \cup {a} /\ a \notin R
        BY <1>3, <1>4, <1>5, <3>2
      <4>2. receivedPackets' = receivedPackets + 1
        BY <1>1, <1>6, <3>2 DEF RecordRx
      <4> HIDE DEF R, S
      <4> QED BY <3>1, <4>1, <4>2, OneMore
    <3>3. CASE g = 0
      <4>1. S = R
        BY <1>3, <1>4, <3>3
      <4>2. receivedPackets' = receivedPackets
        BY <1>1, <1>6, <3>3
      <4> QED BY <3>1, <4>1, <4>2
    <3> QED BY <3>2, <3>3
  <2>5. \A q \in network' \cup arrived' : q.n <= sentPackets'
    BY <1>1, <1>3, <1>4 DEF StatInv, Counted
  <2>6. \A q \in network' : \A r \in arrived' : q.n # r.n
    BY <1>3, <1>4 DEF StatInv, Counted
  <2>7. \A q, r \in network' : q.n = r.n => q = r
    BY <1>4 DEF StatInv, Counted
  <2> QED BY <2>1, <2>2, <2>3, <2>4, <2>5, <2>6, <2>7 DEF Counted
<1>12. ASSUME g \in DOMAIN flowStats
       PROVE  /\ flowStats' = [flowStats EXCEPT ![g] = Received(flowStats[g], p.tx, now)]
              /\ Summary(Received(flowStats[g], p.tx, now), SentAt(transmitted, g), ArrivedAt(arrived', g))
              /\ Received(flowStats[g], p.tx, now).firstTx = flowStats[g].firstTx
              /\ Received(flowStats[g], p.tx, now).count = flowStats[g].count + 1
              /\ Received(flowStats[g], p.tx, now).disorder = flowStats[g].disorder
  <2>1. flowStats' = [flowStats EXCEPT ![g] = Received(flowStats[g], p.tx, now)]
    BY <1>1, <1>12 DEF RecordRx, Received
  <2>2. /\ Summary(flowStats[g], SentAt(transmitted, g), ArrivedAt(arrived, g))
        /\ flowStats[g].firstTx <= now /\ flowStats[g].firstTx <= p.tx
    BY <1>6, <1>12 DEF StatInv, Told
  <2> QED BY <1>0, <1>2, <1>7, <2>1, <2>2, OneReceived
<1>13. DOMAIN flowStats' = DOMAIN flowStats
  <2>1. CASE g \in DOMAIN flowStats
    BY <1>12, <2>1
  <2>2. CASE g \notin DOMAIN flowStats
    BY <1>1, <2>2
  <2> QED BY <2>1, <2>2
<1>14. ASSUME NEW f \in DOMAIN flowStats
       PROVE  /\ Summary(flowStats'[f], SentAt(transmitted', f), ArrivedAt(arrived', f))
              /\ flowStats'[f].firstTx = flowStats[f].firstTx
              /\ flowStats'[f].firstTx <= now'
              /\ flowStats'[f].count = Cardinality(Of(arrived', f))
              /\ flowStats'[f].disorder = disorders'[f]
  <2>0. transmitted' = transmitted /\ disorders' = disorders /\ now' = now
    BY <1>1
  <2>1. /\ Summary(flowStats[f], SentAt(transmitted, f), ArrivedAt(arrived, f))
        /\ flowStats[f].firstTx <= now
        /\ flowStats[f].count = Cardinality(Of(arrived, f))
        /\ flowStats[f].disorder = disorders[f]
    BY DEF StatInv, Told
  <2>2. CASE f = g
    <3>1. flowStats'[f] = Received(flowStats[g], p.tx, now)
      BY <1>12, <2>2
    <3> QED BY <1>9, <1>12, <2>0, <2>1, <2>2, <3>1
  <2>3. CASE f # g
    <3>1. flowStats'[f] = flowStats[f]
      <4>1. CASE g \in DOMAIN flowStats
        BY <1>12, <2>3, <4>1
      <4>2. CASE g \notin DOMAIN flowStats
        BY <1>1, <4>2
      <4> QED BY <4>1, <4>2
    <3> QED BY <1>7, <2>0, <2>1, <2>3, <3>1
  <2> QED BY <2>2, <2>3
<1>15. Told'
  <2>0. transmitted' = transmitted /\ disorders' = disorders
    BY <1>1
  <2>1. \A q \in network' \cup arrived' : q.flowId \in Flows(transmitted')
    BY <1>3, <1>4, <2>0 DEF StatInv, Told
  <2>2. \A f \in FlowId : f \notin Flows(transmitted') => disorders'[f] = 0
    BY <2>0 DEF StatInv, Told
  <2>3. DOMAIN flowStats' = Flows(transmitted') \ {0}
    BY <1>13, <2>0 DEF StatInv, Told
  <2>4. \A q \in network' : q.flowId # 0 => flowStats'[q.flowId].firstTx <= q.tx
    BY <1>4, <1>14 DEF StatInv, Told
  <2> QED BY <1>13, <1>14, <2>1, <2>2, <2>3, <2>4 DEF Told, Flows, SentAt, Of, ArrivedAt
<1> QED BY <1>10, <1>11, <1>15

\* A packet is lost.
LEMMA DropOK ==
  ASSUME StatInv, Drop
  PROVE  StatTypes' /\ Counted' /\ Told'
<1>1. PICK p \in network :
        /\ network' = network \ {p}
        /\ UNCHANGED <<now, stats>>
  BY DEF Drop
<1>2. /\ IsFiniteSet(network') /\ Cardinality(network') + 1 = Cardinality(network)
      /\ Cardinality(network') \in Nat /\ Cardinality(arrived) \in Nat
  BY <1>1, OneLess, FS_CardinalityType DEF StatInv, Counted
<1>3. UNCHANGED <<now, flowStats, sentPackets, receivedPackets, transmitted, arrived, disorders>>
  BY <1>1 DEF stats
<1>4. StatTypes'
  BY <1>1, <1>3 DEF StatInv, StatTypes
<1>5. Counted'
  <2>1. Cardinality(network') + Cardinality(arrived') <= sentPackets'
    <3>1. /\ Cardinality(network) + Cardinality(arrived) <= sentPackets
          /\ sentPackets \in Nat
      BY DEF StatInv, StatTypes, Counted
    <3>2. sentPackets' = sentPackets /\ Cardinality(arrived') = Cardinality(arrived)
      BY <1>3
    <3> QED BY <1>1, <1>2, <3>1, <3>2
  <2>2. IsFiniteSet(arrived') /\ receivedPackets' = Cardinality({q \in arrived' : q.flowId # 0})
    BY <1>3 DEF StatInv, Counted
  <2>3. /\ \A q \in network' \cup arrived' : q.n <= sentPackets'
        /\ \A q \in network' : \A r \in arrived' : q.n # r.n
        /\ \A q, r \in network' : q.n = r.n => q = r
    BY <1>1, <1>3 DEF StatInv, Counted
  <2> QED BY <1>2, <2>1, <2>2, <2>3 DEF Counted
<1>6. Told'
  <2>1. /\ DOMAIN flowStats' = Flows(transmitted') \ {0}
        /\ \A q \in network' \cup arrived' : q.flowId \in Flows(transmitted')
        /\ \A g \in FlowId : g \notin Flows(transmitted') => disorders'[g] = 0
    BY <1>1, <1>3 DEF StatInv, Told
  <2>2. \A g \in DOMAIN flowStats' :
          /\ Summary(flowStats'[g], SentAt(transmitted', g), ArrivedAt(arrived', g))
          /\ flowStats'[g].firstTx <= now'
          /\ flowStats'[g].count = Cardinality(Of(arrived', g))
          /\ flowStats'[g].disorder = disorders'[g]
    BY <1>3 DEF StatInv, Told
  <2>3. \A q \in network' : q.flowId # 0 => flowStats'[q.flowId].firstTx <= q.tx
    BY <1>1, <1>3 DEF StatInv, Told
  <2> QED BY <2>1, <2>2, <2>3 DEF Told, Flows, SentAt, Of, ArrivedAt
<1> QED BY <1>4, <1>5, <1>6

\* Segments of a flow are out of order.
LEMMA DisorderOK ==
  ASSUME StatInv, NEW i \in Idx, Disorder(i)
  PROVE  StatTypes' /\ Counted' /\ Told'
<1> DEFINE id == flows[i].flowId
<1>1. /\ disorders' = [disorders EXCEPT ![id] = @ + 1]
      /\ flowStats' = IF id # 0 /\ id \in DOMAIN flowStats
                      THEN [flowStats EXCEPT ![id].disorder = @ + 1] ELSE flowStats
      /\ UNCHANGED <<now, network, sentPackets, receivedPackets, transmitted,
                     arrived>>
      /\ apps[i].state \in {"open", "closed"}
  BY DEF Disorder
<1>2. id \in Flows(transmitted) /\ id \in FlowId
  BY <1>1 DEF StatInv, OpenFlows
<1> HIDE DEF id
<1>3. disorders' \in [FlowId -> Nat]
  BY <1>1, <1>2 DEF StatInv, StatTypes
<1>4. StatTypes'
  BY <1>1, <1>3 DEF StatInv, StatTypes
<1>5. Counted'
  BY <1>1 DEF StatInv, Counted
<1>6. DOMAIN flowStats' = DOMAIN flowStats
  BY <1>1
<1>7. ASSUME NEW g \in DOMAIN flowStats
      PROVE  /\ Summary(flowStats'[g], SentAt(transmitted, g), ArrivedAt(arrived, g))
             /\ flowStats'[g].firstTx = flowStats[g].firstTx
             /\ flowStats'[g].count = flowStats[g].count
             /\ flowStats'[g].disorder = disorders'[g]
  <2>1. /\ Summary(flowStats[g], SentAt(transmitted, g), ArrivedAt(arrived, g))
        /\ flowStats[g].disorder = disorders[g] /\ flowStats[g] \in Entry
        /\ g # 0 /\ disorders \in [FlowId -> Nat]
    BY DEF StatInv, StatTypes, Told, Summary
  <2>2. CASE g = id
    <3>1. flowStats'[g] = [flowStats[g] EXCEPT !.disorder = @ + 1]
      BY <1>1, <2>1, <2>2
    <3>2. disorders'[g] = disorders[g] + 1
      BY <1>1, <1>2, <2>1, <2>2
    <3>3. /\ flowStats'[g] \in Entry
          /\ flowStats'[g].firstTx = flowStats[g].firstTx
          /\ flowStats'[g].firstRx = flowStats[g].firstRx
          /\ flowStats'[g].lastRx = flowStats[g].lastRx
          /\ flowStats'[g].count = flowStats[g].count
          /\ flowStats'[g].disorder = flowStats[g].disorder + 1
      BY <2>1, <3>1 DEF Entry
    <3>4. Summary(flowStats'[g], SentAt(transmitted, g), ArrivedAt(arrived, g))
      BY <2>1, <3>3 DEF Summary
    <3> QED BY <2>1, <3>2, <3>3, <3>4
  <2>3. CASE g # id
    <3>1. flowStats'[g] = flowStats[g]
      BY <1>1, <2>3
    <3>2. disorders'[g] = disorders[g]
      <4>1. g \in FlowId
        BY DEF StatInv, StatTypes, Told, Flows
      <4> QED BY <1>1, <2>1, <2>3, <4>1
    <3> QED BY <2>1, <3>1, <3>2
  <2> QED BY <2>2, <2>3
<1>8. Told'
  <2>1. \A g \in FlowId : g \notin Flows(transmitted') => disorders'[g] = 0
    BY <1>1, <1>2 DEF StatInv, StatTypes, Told
  <2>2. \A p \in network' \cup arrived' : p.flowId \in Flows(transmitted')
    BY <1>1 DEF StatInv, Told
  <2>3. \A g \in DOMAIN flowStats' :
          /\ Summary(flowStats'[g], SentAt(transmitted', g), ArrivedAt(arrived', g))
          /\ flowStats'[g].firstTx <= now'
          /\ flowStats'[g].count = Cardinality(Of(arrived', g))
          /\ flowStats'[g].disorder = disorders'[g]
    BY <1>1, <1>6, <1>7 DEF StatInv, Told
  <2>4. \A p \in network' : p.flowId # 0 => flowStats'[p.flowId].firstTx <= p.tx
    BY <1>1, <1>7 DEF StatInv, Told
  <2>5. DOMAIN flowStats' = Flows(transmitted') \ {0}
    BY <1>1, <1>6 DEF StatInv, Told
  <2> QED BY <2>1, <2>2, <2>3, <2>4, <2>5 DEF Told, Flows, SentAt, Of, ArrivedAt
<1> QED BY <1>4, <1>5, <1>8

\* Nothing happens to a packet.
LEMMA QuietStats ==
  ASSUME StatInv, IInv, UNCHANGED <<network, stats>>,
         now' \in Nat, now <= now'
  PROVE  StatTypes' /\ Counted' /\ Told'
<1>1. /\ UNCHANGED <<network, flowStats, sentPackets, receivedPackets>>
      /\ UNCHANGED <<transmitted, arrived, disorders>>
  BY DEF stats
<1>2. StatTypes' /\ Counted'
  BY <1>1 DEF StatInv, StatTypes, Counted
<1>3. \A g \in DOMAIN flowStats : flowStats[g].firstTx <= now'
  <2> SUFFICES ASSUME NEW g \in DOMAIN flowStats PROVE flowStats[g].firstTx <= now'
    OBVIOUS
  <2>1. flowStats[g].firstTx \in Nat /\ flowStats[g].firstTx <= now /\ now \in Nat
    BY DEF StatInv, Told, Summary, Entry, IInv, TypeOK
  <2> QED BY <2>1
<1>4. Told'
  <2>1. /\ DOMAIN flowStats' = Flows(transmitted') \ {0}
        /\ \A q \in network' \cup arrived' : q.flowId \in Flows(transmitted')
        /\ \A g \in FlowId : g \notin Flows(transmitted') => disorders'[g] = 0
    BY <1>1 DEF StatInv, Told
  <2>2. \A g \in DOMAIN flowStats' :
          /\ Summary(flowStats'[g], SentAt(transmitted', g), ArrivedAt(arrived', g))
          /\ flowStats'[g].firstTx <= now'
          /\ flowStats'[g].count = Cardinality(Of(arrived', g))
          /\ flowStats'[g].disorder = disorders'[g]
    BY <1>1, <1>3 DEF StatInv, Told
  <2>3. \A q \in network' : q.flowId # 0 => flowStats'[q.flowId].firstTx <= q.tx
    BY <1>1 DEF StatInv, Told
  <2> QED BY <2>1, <2>2, <2>3 DEF Told, Flows, SentAt, Of, ArrivedAt
<1> QED BY <1>2, <1>4

\* Only ConnectionSucceeded opens a connection, and only an open one is closed.
LEMMA AppStepStats ==
  ASSUME IInv, StatInv, NEW i \in Idx, NEW a, AppStep(i, a),
         a.state \in {"open", "closed"} => flows[i].flowId \in Flows(transmitted)
  PROVE  StatInv'
<1>1. /\ apps' = [apps EXCEPT ![i] = a] /\ UNCHANGED <<flows, now>>
      /\ UNCHANGED <<network, stats>>
  BY DEF AppStep
<1>2. StatTypes' /\ Counted' /\ Told'
  <2>1. now' \in Nat /\ now <= now'
    BY <1>1 DEF IInv, TypeOK
  <2> QED BY <1>1, <2>1, QuietStats
<1>3. transmitted' = transmitted
  BY <1>1 DEF stats
<1>4. \A j \in Idx : apps'[j] = IF j = i THEN a ELSE apps[j]
  BY <1>1 DEF IInv, TypeOK
<1>5. OpenFlows'
  BY <1>1, <1>3, <1>4 DEF StatInv, OpenFlows, Flows
<1> QED BY <1>2, <1>5 DEF StatInv

LEMMA StatNext == IInv /\ StatInv /\ [Next]_vars => StatInv'
<1> SUFFICES ASSUME IInv, StatInv, [Next]_vars PROVE StatInv'
  OBVIOUS
<1>0. now \in Nat /\ apps \in [Idx -> App] /\ flows \in [Idx -> Line]
  BY DEF IInv, TypeOK
<1>1. ASSUME NEW i \in Idx
      PROVE  /\ AppInv(apps[i], flows[i].size)
             /\ flows[i].flowId \in FlowId
             /\ apps[i].state \in {"open", "closed"} => flows[i].flowId \in Flows(transmitted)
  BY DEF IInv, StatInv, OpenFlows
<1>2. ASSUME StatTypes', Counted', Told', UNCHANGED <<flows, apps>>,
             Flows(transmitted) \subseteq Flows(transmitted')
      PROVE  StatInv'
  <2>1. OpenFlows'
    BY <1>2 DEF StatInv, OpenFlows, Flows
  <2> QED BY <1>2, <2>1 DEF StatInv
<1>3. ASSUME UNCHANGED <<flows, apps, network, stats>>, now' \in Nat, now <= now'
      PROVE  StatInv'
  <2>1. StatTypes' /\ Counted' /\ Told'
    BY <1>3, QuietStats
  <2>2. transmitted' = transmitted
    BY <1>3 DEF stats
  <2> QED BY <1>2, <1>3, <2>1, <2>2
<1>4. ASSUME NEW reply \in BOOLEAN, NEW id \in FlowId,
             reply => id \in Flows(transmitted), Transmit(id, reply),
             UNCHANGED <<now, flows, apps>>
      PROVE  StatInv'
  BY <1>2, <1>4, TransmitOK
<1>5. ASSUME NEW i \in Idx, TcpHandler(i) PROVE StatInv'
  <2>1. apps[i] \in App /\ apps[i].sending /\ apps[i].state = "open"
    BY <1>0, <1>1, <1>5 DEF TcpHandler, SendRound, SendEnds, AppInv
  <2>2. PICK a : AppStep(i, a)
    BY <1>5 DEF TcpHandler, SendRound, SendEnds
  <2> QED BY <1>1, <2>1, <2>2, AppStepStats
<1>6. CASE Start \/ Stop
  BY <1>0, <1>3, <1>6 DEF Start, Stop
<1>7. CASE SendPacketUdp
  <2>1. NextFlow /\ Transmit(flows[currentIdx].flowId, FALSE) /\ apps' = apps
    BY <1>7 DEF SendPacketUdp
  <2>2. currentIdx \in Idx /\ flows' = flows /\ now' = now
    BY <2>1, NextFlowOK
  <2>3. flows[currentIdx].flowId \in FlowId
    BY <1>1, <2>2
  <2> QED BY <1>4, <2>1, <2>2, <2>3
<1>8. CASE SendPacketTcp
  <2>1. /\ NextFlow /\ apps' = [apps EXCEPT ![currentIdx] = Install(@)]
        /\ UNCHANGED <<network, stats>>
    BY <1>8 DEF SendPacketTcp
  <2>2. currentIdx \in Idx /\ flows' = flows /\ now' = now
    BY <2>1, NextFlowOK
  <2>3. StatTypes' /\ Counted' /\ Told'
    BY <1>0, <2>1, <2>2, QuietStats
  <2>4. Install(apps[currentIdx]).state = "installed"
    BY <1>0, <2>2 DEF Install, App
  <2>5. \A j \in Idx : apps'[j] = IF j = currentIdx THEN Install(apps[currentIdx]) ELSE apps[j]
    BY <1>0, <2>1
  <2>6. transmitted' = transmitted
    BY <2>1 DEF stats
  <2>7. OpenFlows'
    BY <1>1, <2>2, <2>4, <2>5, <2>6 DEF OpenFlows, Flows
  <2> QED BY <2>3, <2>7 DEF StatInv
<1>9. ASSUME NEW i \in Idx, StartTcp(i) \/ Connected(i) \/ Refused(i) \/ Acknowledged(i)
      PROVE  StatInv'
  <2>0. apps[i] \in App
    BY <1>0
  <2>1. CASE StartTcp(i)
    <3>1. StartApplication(apps[i]).state = "connecting"
      BY <2>0 DEF StartApplication, App
    <3> QED BY <2>1, <3>1, AppStepStats DEF StartTcp
  <2>2. CASE Connected(i)
    <3>1. flows[i].flowId \in Flows(transmitted)
      BY <2>2 DEF Connected, Flows
    <3> QED BY <2>2, <3>1, AppStepStats DEF Connected
  <2>3. CASE Refused(i)
    <3>1. ConnectionFailed(apps[i]).state = "failed"
      BY <2>0 DEF ConnectionFailed, App
    <3> QED BY <2>3, <3>1, AppStepStats DEF Refused
  <2>4. CASE Acknowledged(i)
    <3>1. flows[i].flowId \in Flows(transmitted)
      BY <1>1, <2>4 DEF Acknowledged
    <3> QED BY <2>4, <3>1, AppStepStats DEF Acknowledged
  <2> QED BY <1>9, <2>1, <2>2, <2>3, <2>4
<1>10. ASSUME NEW i \in Idx, Segment(i) PROVE StatInv'
  <2>1. Transmit(flows[i].flowId, FALSE) /\ UNCHANGED <<now, flows, apps>>
    BY <1>10 DEF Segment
  <2> QED BY <1>1, <1>4, <2>1
<1>11. ASSUME NEW i \in Idx, Disorder(i) PROVE StatInv'
  <2>1. UNCHANGED <<flows, apps, transmitted>>
    BY <1>11 DEF Disorder
  <2> QED BY <1>2, <1>11, <2>1, DisorderOK
<1>12. CASE Reply
  <2>1. PICK p \in arrived : Transmit(p.flowId, TRUE) /\ UNCHANGED <<now, flows, apps>>
    BY <1>12 DEF Reply
  <2>2. p.flowId \in FlowId /\ p.flowId \in Flows(transmitted)
    BY DEF StatInv, StatTypes, Told
  <2> QED BY <1>4, <2>1, <2>2
<1>13. CASE Arrive
  <2>1. UNCHANGED <<flows, apps, transmitted>>
    BY <1>13 DEF Arrive
  <2> QED BY <1>2, <1>13, <2>1, ArriveOK
<1>14. CASE Drop
  <2>1. UNCHANGED <<flows, apps, transmitted>>
    BY <1>14 DEF Drop, stats
  <2> QED BY <1>2, <1>14, <2>1, DropOK
<1>15. CASE Tick
  <2>1. now' \in Nat /\ now <= now'
    BY <1>0, <1>15 DEF Tick
  <2> QED BY <1>3, <1>15, <2>1 DEF Tick
<1>16. CASE Done \/ UNCHANGED vars
  BY <1>0, <1>3, <1>16 DEF Done, vars, stats
<1>17. CASE DropOther
  BY <1>0, <1>3, <1>17 DEF DropOther
<1> QED
  BY <1>5, <1>6, <1>7, <1>8, <1>9, <1>10, <1>11, <1>12, <1>13, <1>14, <1>15, <1>16,
     <1>17 DEF Next, Event

LEMMA InitStat == Init => StatInv
<1> SUFFICES ASSUME Init PROVE StatInv
  OBVIOUS
<1>1. \A i \in Idx : flows[i].flowId \in FlowId
  <2>1. PICK p \in Injection(Idx, Idx) : flows = [i \in Idx |-> Trace[p[i]]]
    BY DEF Init, Parsed
  <2>2. p \in [Idx -> Idx]
    BY DEF Injection
  <2> QED BY <2>1, <2>2 DEF FlowId
<1>2. OpenFlows
  BY <1>1 DEF Init, OpenFlows, NoApp
<1>3. StatTypes
  BY DEF Init, StatTypes
<1>4. Counted
  <2>1. {p \in arrived : p.flowId # 0} = {}
    BY DEF Init
  <2> QED BY <2>1, FS_EmptySet DEF Init, Counted
<1>5. Told
  BY DEF Init, Told, Flows
<1> QED BY <1>2, <1>3, <1>4, <1>5 DEF StatInv

\* In whatever order packets and their replies arrive or are lost, and however often a
\* loss is reported, the statistics of a flow are those of its first and last packets,
\* every arrival is counted once and was counted when it was sent (trace-sim.cc:145-155,
\* 228-315).
THEOREM StatisticsAgree == Spec => []StatsAgree
<1>1. IInv /\ StatInv => StatsAgree
  <2> SUFFICES ASSUME IInv, StatInv PROVE StatsAgree
    OBVIOUS
  <2>1. ASSUME NEW g \in DOMAIN flowStats
        PROVE  LET start == Min({p.tx : p \in {q \in transmitted : q.flowId = g}})
                   got   == {q \in arrived : q.flowId = g}
               IN  /\ Fpl(g) = Min({p.rx : p \in got} \cup {StopTime}) - start
                   /\ Fct(g) = Max({p.rx : p \in got} \cup {start}) - start
                   /\ flowStats[g].count = Cardinality(got)
                   /\ flowStats[g].disorder = disorders[g]
    <3> DEFINE X == SentAt(transmitted, g)
               R == ArrivedAt(arrived, g)
               s == flowStats[g]
    <3>1. X \in SUBSET Int /\ R \in SUBSET Int /\ StopTime \in Int
      BY StopTimeType DEF StatInv, StatTypes, SentAt, ArrivedAt, Of
    <3>2. /\ Summary(s, X, R) /\ s.count = Cardinality(Of(arrived, g))
          /\ s.disorder = disorders[g]
      BY DEF StatInv, Told
    <3> HIDE DEF X, R, s
    <3>3. s.firstTx \in Int
      BY <3>2 DEF Summary, Entry
    <3>4. Min(X) = s.firstTx
      BY <3>1, <3>2, MinIs DEF Summary
    <3>5. Min(R \cup {StopTime}) = s.firstRx
      <4>1. R \cup {StopTime} \in SUBSET Int
        BY <3>1
      <4> QED BY <3>2, <4>1, MinIs DEF Summary
    <3>6. Max(R \cup {s.firstTx}) = s.lastRx
      <4>1. R \cup {s.firstTx} \in SUBSET Int
        BY <3>1, <3>3
      <4> QED BY <3>2, <4>1, MaxIs DEF Summary
    <3>7. /\ X = {p.tx : p \in {q \in transmitted : q.flowId = g}}
          /\ R = {p.rx : p \in {q \in arrived : q.flowId = g}}
          /\ Of(arrived, g) = {q \in arrived : q.flowId = g}
      BY DEF X, R, SentAt, ArrivedAt, Of
    <3> QED BY <3>2, <3>4, <3>5, <3>6, <3>7 DEF Fpl, Fct, s
  <2>2. DOMAIN flowStats = {p.flowId : p \in transmitted} \ {0}
    BY DEF StatInv, Told, Flows
  <2> QED BY <2>1, <2>2 DEF StatsAgree, StatInv, Counted
<1>2. IInv /\ StatInv /\ [Next]_vars => StatInv'
  BY StatNext
<1> QED
  BY <1>1, <1>2, InitStat, Invariance, PTL DEF Spec
=============================================================================
