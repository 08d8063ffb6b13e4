\* One worker, one write of a buffer and a half.
SPECIFICATION TestSpec
CONSTANTS
  Workers = {w1}
  ResultBuffers = {b1, b2, b3}
  BufferSize = 2
  WriteSizes = {3}
  UserSize = 3
  MaxBytes = 3
  MaxBlocks = 3
  NoTask = NoTask
  NoBuffer = NoBuffer
PROPERTY RoundPasses
\* stop() never returns.
CHECK_DEADLOCK FALSE
