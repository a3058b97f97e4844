\* A host sends to an earlier one of the list.
SPECIFICATION FairSpec
CONSTANTS
  HostLen = 2
  Talks <- Backward
  Broadcasters <- Nobody
  Blockers <- Nobody
  Alarmed <- Nobody
  Capacity = 1
  MaxCalls = 1
  MaxServerCasts = 0
  Routes <- NoRoute
  MayFail = FALSE
  MayDelete = TRUE
  Interrupts = FALSE
PROPERTIES
  DeleteReturns
\* Finitely many calls; hosts may wait for ever afterwards.
CHECK_DEADLOCK FALSE
