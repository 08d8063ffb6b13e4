\* Two workers, one task more than there are result buffers.
SPECIFICATION FairStreamSpec
CONSTANTS
  Workers = {w1, w2}
  ResultBuffers = {b1, b2, b3, b4}
  Batches = {2, 3}
  MaxTasks = 5
  WriteId0 = 0
  NoTask = NoTask
  NoBuffer = NoBuffer
PROPERTY DeliveredUnlessExhausted
\* The hive rests when all submitted tasks are written, or at the standstill.
CHECK_DEADLOCK FALSE
