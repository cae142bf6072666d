\* Callers that take turns, on a full table, with descriptors running out.
CONSTANTS
  user1 = user1
  user2 = user2
  user3 = user3
  Procs = {user1, user2, user3}
  MAX_MTP_SOCKETS = 2
  Fds <- MCFds
  Requests <- MCRequests
  Calls <- AllCalls
  OneAtATime = TRUE
  KilledInCalls = FALSE
  NOBODY = NOBODY
SPECIFICATION FairSpec
INVARIANTS
  TypeOK
  SocketIsOwn
  BoundAsAsked
  HandshakeAtRest
PROPERTIES
  OnlyCloseLeaks
  CallsReturn
  ImplementsTable
CHECK_DEADLOCK FALSE
