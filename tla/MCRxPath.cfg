\* Frames of five to seven bytes, chunks that hold up to two of them.
SPECIFICATION Spec
CONSTANTS
  Bytes = {0, 1, 2, 3, 4}
  Sync1 = 3
  Sync2 = 4
  HeaderSize = 4
  CrcSize = 1
  MaxPayload = 2
  Chunk = 10
  QueueSize = 2
INVARIANTS
  BufferFits
  AcknowledgedIsServed
  LossIsBounded
