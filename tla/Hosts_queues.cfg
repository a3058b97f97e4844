\* Two hosts with one slot each, that send to each other and to themselves,
\* while signals interrupt waits.
SPECIFICATION Spec
CONSTANTS
  HostLen = 2
  Talks <- Everybody
  Broadcasters <- Nobody
  Blockers <- FirstTwo
  Alarmed <- Nobody
  Capacity = 1
  MaxCalls = 1
  MaxServerCasts = 0
  Routes <- NoRoute
  MayFail = FALSE
  MayDelete = TRUE
  Interrupts = TRUE
INVARIANTS
  AcksAccounted
PROPERTIES
  QueuesAreFifos
\* Finitely many calls; hosts may wait for ever afterwards.
CHECK_DEADLOCK FALSE
