\* No host ever sends.
SPECIFICATION Spec
CONSTANTS
  HostLen = 2
  Talks <- Silent
  Broadcasters <- Nobody
  Blockers <- Nobody
  Alarmed <- Nobody
  Capacity = 1
  MaxCalls = 0
  MaxServerCasts = 0
  Routes <- NoRoute
  MayFail = FALSE
  MayDelete = TRUE
  Interrupts = FALSE
INVARIANTS
  HostsEndBeforeFree
\* Finitely many calls; hosts may wait for ever afterwards.
CHECK_DEADLOCK FALSE
