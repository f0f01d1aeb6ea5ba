---------------------------- MODULE TcpClientApp ----------------------------
(***************************************************************************)
(* TcpClientApp (switchv2p/tcp-client-app.cc): sends the bytes of one flow *)
(* through a TCP socket and closes it.  An application and its socket are  *)
(* one record; the operators say what a call makes of it.                  *)
(*                                                                         *)
(*   state       "absent" until ClientApp installs the application, then   *)
(*               "installed", and from StartApplication on the state of    *)
(*               the socket                                                *)
(*   connected, totBytes    m_connected, m_totBytes                        *)
(*   unsent      size of m_unsentPacket, 0 if there is none                *)
(*   sending     the loop of SendData is running                           *)
(*   stream      bytes the socket has taken, buffered of them not yet      *)
(*               acknowledged                                              *)
(*   closes      calls of Close                                            *)
(*                                                                         *)
(* The socket is ns-3's, modelled from how the application uses it.        *)
(***************************************************************************)
EXTENDS Integers

CONSTANTS
  SendSize,      \* m_sendSize
  BufferSize     \* bytes the socket holds until they are acknowledged

ASSUME TcpAssumption ==
  /\ SendSize \in Nat \ {0}
  /\ BufferSize \in Nat /\ SendSize <= BufferSize

SocketState == {"absent", "installed", "connecting", "open", "failed", "closed"}

App == [state : SocketState, connected : BOOLEAN, totBytes : Nat, unsent : Nat,
        sending : BOOLEAN, stream : Nat, buffered : Nat, closes : Nat]

NoApp == [state |-> "absent", connected |-> FALSE, totBytes |-> 0, unsent |-> 0,
          sending |-> FALSE, stream |-> 0, buffered |-> 0, closes |-> 0]

\* What Socket::Send may return for n bytes: all of them if they fit, else -1 or a part.
SendResults(a, n) ==
  IF a.buffered + n <= BufferSize THEN {n} ELSE {-1} \cup 1 .. (BufferSize - a.buffered)

Taken(r) == IF r = -1 THEN 0 ELSE r

Install(a) == [a EXCEPT !.state = "installed"]

\* StartApplication: connects; m_connected is still false when it is tested.
StartApplication(a) == [a EXCEPT !.state = "connecting"]

\* ConnectionSucceeded calls SendData.
ConnectionSucceeded(a) ==
  [a EXCEPT !.state = "open", !.connected = TRUE, !.sending = TRUE]

ConnectionFailed(a) == [a EXCEPT !.state = "failed"]

\* Mutant: a client whose packet was refused is not woken.
DataSendUnlessRefused(a, k) ==
  [a EXCEPT !.buffered = @ - k, !.sending = a.connected /\ a.unsent = 0]

\* k bytes are acknowledged, and the socket calls DataSend, which calls SendData while
\* the connection is open.
DataSend(a, k) == [a EXCEPT !.buffered = @ - k, !.sending = a.connected]

\* A flow of size 0 has no end.
MoreToSend(a, maxBytes) == maxBytes = 0 \/ a.totBytes < maxBytes

ToSend(a, maxBytes) ==
  IF a.unsent > 0 THEN a.unsent
  ELSE IF maxBytes > 0 /\ maxBytes - a.totBytes < SendSize THEN maxBytes - a.totBytes
  ELSE SendSize

\* The end of SendData.
SendDone(a, maxBytes) ==
  IF a.totBytes = maxBytes /\ a.connected
  THEN [a EXCEPT !.sending = FALSE, !.state = "closed", !.connected = FALSE,
                 !.closes = @ + 1]
  ELSE [a EXCEPT !.sending = FALSE]

\* Mutant: the rest of a split packet is forgotten, not cached.
SendWithoutRest(a, maxBytes, r) ==
  LET n == ToSend(a, maxBytes)
      b == [a EXCEPT !.totBytes = @ + n, !.stream = @ + Taken(r),
                     !.buffered = @ + Taken(r), !.unsent = 0]
  IN  IF r = n THEN b ELSE SendDone(b, maxBytes)

\* One round of the loop, in which Send returns r.  A packet taken in part, or not at
\* all, is cached and ends the loop.
Send(a, maxBytes, r) ==
  LET n == ToSend(a, maxBytes)
      b == [a EXCEPT !.totBytes = @ + Taken(r), !.stream = @ + Taken(r),
                     !.buffered = @ + Taken(r), !.unsent = n - Taken(r)]
  IN  IF r = n THEN b ELSE SendDone(b, maxBytes)
=============================================================================
