CONSTANTS
  MaxFrame = 18
  SeqWrap = 3
  MsgType <- Types
  Payload <- Payloads
  Crc <- CrcBytes
  NoiseBytes = {77, 78, 0, 1}
  MaxFaults = 2
SPECIFICATION Spec
INVARIANTS TypeOK StaysInBuffer CleanFrameIsAccepted NothingInvented
PROPERTY Resynchronises
