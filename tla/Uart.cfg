SPECIFICATION Spec
CONSTANTS
  MAX_PAYLOAD = 2
  QUEUE_CAP = 2
  SOF_REQ = 165
  SendCmds = {1, 4, 7}
  PayloadBytes = {1, 165}
  NoiseBytes = {0, 2, 3, 165}
INVARIANTS PayloadWriteInBounds FramingTransparent ResyncBounded EveryFrameAccounted PoliteSenderNeverDropped
