\* A host joins a route.
SPECIFICATION Spec
CONSTANTS
  HostLen = 2
  Talks <- Silent
  Broadcasters <- Nobody
  Blockers <- Nobody
  Alarmed <- Nobody
  Capacity = 1
  MaxCalls = 1
  MaxServerCasts = 0
  Routes <- OneRoute
  MayFail = FALSE
  MayDelete = FALSE
  Interrupts = FALSE
INVARIANTS
  MembersAreRouted
\* Finitely many calls; hosts may wait for ever afterwards.
CHECK_DEADLOCK FALSE
