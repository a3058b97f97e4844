\* One opening, a client that fits and one that does not, interrupted waits
\* and crashes.
SPECIFICATION FairSpec
CONSTANTS
  o1 = o1
  o2 = o2
  c1 = c1
  c2 = c2
  Owners <- OneOwner
  Clients <- TwoClients
  Misfits <- Second
  Length = 1
  MaxOpens = 1
  MaxSegments = 2
  MaxCalls = 2
  MaxSkips = 1
  MayCrash = TRUE
  Interrupts = TRUE
INVARIANTS
  NothingReceived
PROPERTIES
  LockedUnlessLost
\* Processes may wait for ever, and the model stops at a race.
CHECK_DEADLOCK FALSE
