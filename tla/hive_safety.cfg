\* Two workers, four result buffers, up to five tasks, stop() at any time.
SPECIFICATION Spec
CONSTANTS
  Workers = {w1, w2}
  ResultBuffers = {b1, b2, b3, b4}
  Batches = {2, 3}
  MaxTasks = 5
  WriteId0 = 0
  NoTask = NoTask
  NoBuffer = NoBuffer
SYMMETRY Symmetry
INVARIANTS
  TypeOK
  OutInOrder
  TaskConservation
  BufferOwnership
  LossBoundedByWorkers
  IInv
  NoLostWakeup
  StallOnlyByExhaustion
PROPERTY PipeSpec
\* stop() may wait for ever in each of its waits and in join.
CHECK_DEADLOCK FALSE
