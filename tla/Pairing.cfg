SPECIFICATION FairSpec
CONSTANTS
  RX_BUF = 6
  HDR = 1
  STATUS_LEN = 2
  ERROR_LEN = 3
  KEY_LEN = 3
  AUTH_ID_LEN = 4
  FRAME_MAX = 5
  MAX_SESSIONS = 2
  MAX_FAULTS = 2
  Preemptible = TRUE
INVARIANTS CredentialsAgree ReportedPairingSurvives RecvWithinBuffers
PROPERTIES PairReturns AnswersNotDiscarded
