\* The programs close their sockets and open new ones.
SPECIFICATION ReuseSpec
CONSTANTS
  a = a
  b = b
  Socks <- MCSocks
  Peer <- MCPeer
  SENDER_MSG_BUFFER = 3
  RECEIVER_MSG_BUFFER = 2
  MaxSeq = 4
  RcvBuf = 2
  Overtake = 0
  MaxMsgs <- Three
INVARIANT
  NoLossAfterAck
\* The programs send a bounded number of messages, then nothing is left to do.
CHECK_DEADLOCK FALSE
