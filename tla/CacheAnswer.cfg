SPECIFICATION Spec
CONSTANTS
  CoopThreads = {"poll", "uart"}
  MAX_RETRIES = 3
  MAX_VER = 2
INVARIANT SuccessCarriesState
