CONSTANTS
  SendSize = 2
  BufferSize = 2
  Lines = 3
  Trace <- MCTrace
  LastTs = 1
  Minute = 1
  Never = Never
  MaxSegments = 2
  MaxOpen = 1
  MaxStream = 2
  MaxDisorder = 1
  MaxDropped = 2
SPECIFICATION FairSpec
INVARIANTS OnTime TcpExact StatsAgree
PROPERTIES TcpEnds
