\* Hosts may wait in circles.
SPECIFICATION FairSpec
CONSTANTS
  HostLen = 2
  Talks <- Partly
  Broadcasters <- Nobody
  Blockers <- First
  Alarmed <- Second
  Capacity = 1
  MaxCalls = 1
  MaxServerCasts = 1
  Routes <- NoRoute
  MayFail = FALSE
  MayDelete = TRUE
  Interrupts = FALSE
PROPERTIES
  SendsReturnUnlessDoomed
  HostsEndUnlessDoomed
  ArrivalsHandledUnlessDoomed
\* Finitely many calls; hosts may wait for ever afterwards.
CHECK_DEADLOCK FALSE
