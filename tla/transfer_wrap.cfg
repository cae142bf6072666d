SPECIFICATION Spec
CONSTANTS
  a = a
  b = b
  Socks <- MCSocks
  Peer <- MCPeer
  SENDER_MSG_BUFFER = 4
  RECEIVER_MSG_BUFFER = 3
  MaxSeq = 6
  RcvBuf = 2
  Overtake = 0
  MaxMsgs <- Seven
INVARIANTS
  TypeOK
  ReceiveRingOK
  SendRingOK
  InOrderDelivery
  NoLossAfterAck
  NoStaleNumberAccepted
  WindowFitsReceiver
  ClosedWindowIsProbed
PROPERTIES
  RightEdgeNeverRetreats
\* The programs send a bounded number of messages, then nothing is left to do.
CHECK_DEADLOCK FALSE
