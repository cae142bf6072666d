\* What a program killed in the middle of a call cannot disturb.
CONSTANTS
  user1 = user1
  user2 = user2
  user3 = user3
  Procs = {user1, user2, user3}
  MAX_MTP_SOCKETS = 2
  Fds <- MCFds
  Requests <- OneRequest
  Calls <- AllCalls
  OneAtATime = TRUE
  KilledInCalls = TRUE
  NOBODY = NOBODY
SPECIFICATION Spec
INVARIANTS
  DescriptorsAreOwn
SYMMETRY Symmetry
CHECK_DEADLOCK FALSE
