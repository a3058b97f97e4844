\* Two senders block: one returns on the acknowledgement of the other.
SPECIFICATION Spec
CONSTANTS
  s1 = s1
  s2 = s2
  Senders <- TwoSenders
  BlockingSenders <- TwoSenders
  Length = 1
  MaxSends = 2
  SendTimes <- FiniteOrInfinite
  RecvTimes <- FiniteOrInfinite
  MayClose = FALSE
  Interrupts = FALSE
PROPERTIES
  SynchronousSend
\* Finitely many sends; afterwards the receiver may wait INFINITE for ever.
CHECK_DEADLOCK FALSE
