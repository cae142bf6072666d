\* A mailclient and another program, one process at a time in a mailbox.
CONSTANTS
  alice = alice
  c1 = c1
  m1 = m1
  m2 = m2
  Clients = {c1}
  Others = {o1}
  Children = {k1, k2}
  Users = {alice}
  Mails = {m1, m2}
  NOBODY = NOBODY
  Old = {m2}
  To <- ToAlice
  Login <- AsAlice
  OneAtATime = TRUE
  Faults = {"kill"}
SPECIFICATION FairSpec
INVARIANTS
  TypeOK
  NoMailLost
  DeletedStaysDeleted
PROPERTIES
  SentIsStored
  OrphansEnd
  ImplementsMailbox
