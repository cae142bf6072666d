\* A program is killed in the middle of a call.
CONSTANTS
  user1 = user1
  user2 = user2
  user3 = user3
  Procs = {user1, user2, user3}
  MAX_MTP_SOCKETS = 2
  Fds <- MCFds
  Requests <- MCRequests
  Calls <- AllCalls
  OneAtATime = TRUE
  KilledInCalls = TRUE
  NOBODY = NOBODY
SPECIFICATION Spec
INVARIANTS
  SocketIsOwn
CHECK_DEADLOCK FALSE
