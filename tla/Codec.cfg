SPECIFICATION Spec
CONSTANTS
  FRAME_MAX = 10
  BLOCK = 4
  PAD = 2
  MAX_MSG = 16
  CTR_BASE = 2
  CTR_LEN = 3
  LIMBS = 3
  Commands <- SampleCommands
  AuthIds = {2}
  Payloads <- SamplePayloads
  Damages <- SampleDamages
  Reports <- SampleReports
  Lengths = {0, 12, 13, 18, 19, 20}
  Ages = {0, 900, 70000}
  Key = 1
  WrongKey = 2
  Nonces <- SampleNonces
  CoreKeys <- SampleCoreKeys
  CoreInputs <- SampleCoreInputs
  PolyKeys <- SamplePolyKeys
  PolyMsgs <- SamplePolyMsgs
INVARIANTS FramesParseBack BurstsRejected DamagedFramesRejected CrcIsRemainder BoxOpensOnlyIntact KeystreamOnce CoreIsSalsa20 PolyIsArithmetic KnownAnswers StateReachesLoxone
