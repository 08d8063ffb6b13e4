\* Two workers, every buffer is cut in two: the pieces come back separately.
SPECIFICATION Spec
CONSTANTS
  Workers = {w1, w2}
  BufferSize = 4
  WriteSizes = {3}
  UserSize = 3
  MaxBytes = 10
  MaxBlocks = 4
  NoTask = NoTask
INVARIANT OutputIsInput
CHECK_DEADLOCK FALSE
