\* Two workers: stop() while tasks are in hand.
SPECIFICATION Spec
CONSTANTS
  Workers = {w1, w2}
  ResultBuffers = {b1, b2, b3, b4}
  Batches = {2}
  MaxTasks = 2
  WriteId0 = 0
  NoTask = NoTask
  NoBuffer = NoBuffer
INVARIANT WriterDrainsBeforeExit
CHECK_DEADLOCK FALSE
