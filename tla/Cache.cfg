SPECIFICATION FairSpec
CONSTANTS
  CoopThreads = {"poll", "uart"}
  MAX_RETRIES = 3
  MAX_VER = 3
INVARIANTS RetryBurstBounded AnswerIsPushedState
PROPERTIES CacheNeverGoesBackwards PollerKeepsPolling ImplementsBridge
