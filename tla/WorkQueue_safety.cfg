\* Two senders that may block, a ring of two, close, no interrupts.
SPECIFICATION Spec
CONSTANTS
  s1 = s1
  s2 = s2
  Senders <- TwoSenders
  BlockingSenders <- TwoSenders
  Length = 2
  MaxSends = 2
  SendTimes <- FiniteOrInfinite
  RecvTimes <- FiniteOrInfinite
  MayClose = TRUE
  Interrupts = FALSE
INVARIANTS
  HeldMessageIntact
  RingHoldsQueue
  EveryMessageAnnounced
  EverySlotAccounted
  EveryAckComes
PROPERTIES
  DrainLeavesOnlyUnposted
  EarlyReturnsAreExchanged
  FifoSpec
\* Finitely many sends; afterwards the receiver may wait INFINITE for ever.
CHECK_DEADLOCK FALSE
