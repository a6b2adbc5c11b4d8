SPECIFICATION FairSpec
CONSTANTS
  RX_BUF = 4
  HDR = 2
  MAX_CT = 2
  DRAIN_MAX = 2
  Preemptible = TRUE
INVARIANTS RxBufferInBounds TransportAssertions NoLostWakeup OneWriteInFlight SuccessMeansCompleted
PROPERTY CommandReturns
