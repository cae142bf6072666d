\* Two programs call m_socket at the same time.
CONSTANTS
  user1 = user1
  user2 = user2
  user3 = user3
  Procs = {user1, user2}
  MAX_MTP_SOCKETS = 2
  Fds <- MCFds
  Requests <- MCRequests
  Calls <- AllCalls
  OneAtATime = FALSE
  KilledInCalls = FALSE
  NOBODY = NOBODY
SPECIFICATION Spec
INVARIANTS
  DescriptorsAreOwn
CHECK_DEADLOCK FALSE
