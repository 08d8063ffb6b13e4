\* Two workers: stop() and the writer sleep on one condition variable.
SPECIFICATION FairStopSpec
CONSTANTS
  Workers = {w1, w2}
  ResultBuffers = {b1, b2, b3, b4}
  Batches = {2}
  MaxTasks = 2
  WriteId0 = 0
  NoTask = NoTask
  NoBuffer = NoBuffer
PROPERTY WriterNoticesResult
CHECK_DEADLOCK FALSE
