\* Copies, late replies of two tries, ids that are all in use, restarts.
CONSTANTS
  a = a
  b = b
  c = c
  ip1 = ip1
  ip2 = ip2
  Queries <- MCQueries
  Address <- MCAddress
  NO_IP = NO_IP
  DROPPED = DROPPED
  RETRIES = 2
  IdSpace = 3
  Capacity = 4
  MaxQueries = 3
  MaxNoise = 1
  EarlyRestart = FALSE
SPECIFICATION FairSpec
INVARIANTS
  TypeOK
  AnswersAreRight
PROPERTIES
  QueryEnds
  ImplementsResolver
CHECK_DEADLOCK FALSE
