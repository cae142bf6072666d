\* One mailclient alone, no faults, and nobody keeps the servers apart.
CONSTANTS
  alice = alice
  c1 = c1
  m1 = m1
  m2 = m2
  Clients = {c1}
  Others = {}
  Children = {k1, k2}
  Users = {alice}
  Mails = {m1, m2}
  NOBODY = NOBODY
  Old = {}
  To <- ToAlice
  Login <- AsAlice
  OneAtATime = FALSE
  Faults = {}
SPECIFICATION Spec
INVARIANT
  SentNotLost
