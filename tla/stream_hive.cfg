\* One worker, buffers of two bytes, writes that fit and writes that do not.
SPECIFICATION StreamSpec
CONSTANTS
  Workers = {w1}
  ResultBuffers = {b1, b2, b3}
  BufferSize = 2
  WriteSizes = {2, 3}
  UserSize = 3
  MaxBytes = 5
  MaxBlocks = 4
  NoTask = NoTask
  NoBuffer = NoBuffer
SYMMETRY Symmetry
INVARIANTS
  TypeOK
  SinkIsStream
  BytesAccounted
  PutAreaInBounds
  OneHolder
\* stop() never returns.
CHECK_DEADLOCK FALSE
