\* Three hosts, two of which broadcast while the router is deleted.
SPECIFICATION Spec
CONSTANTS
  HostLen = 3
  Talks <- SilentThree
  Broadcasters <- FirstTwo
  Blockers <- Nobody
  Alarmed <- First
  Capacity = 1
  MaxCalls = 1
  MaxServerCasts = 0
  Routes <- OneRoute
  MayFail = TRUE
  MayDelete = TRUE
  Interrupts = FALSE
INVARIANTS
  EndsWhenTold
  IInv
  BroadcastReachesOthers
\* Finitely many calls; hosts may wait for ever afterwards.
CHECK_DEADLOCK FALSE
