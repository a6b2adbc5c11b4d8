SPECIFICATION Spec
CONSTANTS
  RX_BUF = 5
  HDR = 2
  MAX_CT = 2
  DRAIN_MAX = 2
  Preemptible = FALSE
PROPERTY ResetDiscardsNothing
