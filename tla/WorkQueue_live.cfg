\* Nobody closes the queue and the receiver keeps receiving.
SPECIFICATION FairSpec
CONSTANTS
  s1 = s1
  s2 = s2
  Senders <- TwoSenders
  BlockingSenders <- TwoSenders
  Length = 2
  MaxSends = 2
  SendTimes <- Infinite
  RecvTimes <- FiniteOrInfinite
  MayClose = FALSE
  Interrupts = FALSE
PROPERTIES
  EverySendReturns
  EveryMessageDelivered
  FifoFairSpec
\* Finitely many sends; afterwards the receiver may wait INFINITE for ever.
CHECK_DEADLOCK FALSE
