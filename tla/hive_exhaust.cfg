\* Two workers, one task more than there are result buffers.
SPECIFICATION FairStreamSpec
CONSTANTS
  Workers = {w1, w2}
  ResultBuffers = {b1, b2, b3, b4}
  Batches = {2, 3}
  MaxTasks = 5
  WriteId0 = 0
  NoTask = NoTask
  NoBuffer = NoBuffer
PROPERTY EveryTaskDelivered
CHECK_DEADLOCK FALSE
