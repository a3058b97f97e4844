\* Owners that open and close in turn, two clients.
SPECIFICATION Spec
CONSTANTS
  o1 = o1
  o2 = o2
  c1 = c1
  c2 = c2
  Owners <- TwoOwners
  Clients <- TwoClients
  Misfits <- Nobody
  Length = 1
  MaxOpens = 2
  MaxSegments = 2
  MaxCalls = 2
  MaxSkips = 0
  MayCrash = FALSE
  Interrupts = FALSE
SYMMETRY Symmetry
INVARIANTS
  MutexAccounted
  OpenRingOwnSemaphores
  NoSlotTwice
  OpenRingIsFound
\* Processes may wait for ever, and the model stops at a race.
CHECK_DEADLOCK FALSE
