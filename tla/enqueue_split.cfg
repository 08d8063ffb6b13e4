\* All buffers of up to 13 bytes, and of 17, cut for up to 6 threads.
SPECIFICATION FairSpec
CONSTANTS
  ThreadCounts = {1, 2, 3, 4, 5, 6}
  Lengths = {1, 2, 3, 4, 5, 6, 7, 8, 9, 10, 11, 12, 13, 17}
  QueueMemory = 17
  FirstId = 3
INVARIANTS
  TypeOK
  CutIntoPieces
PROPERTY EndsAsSizesSay
\* The call ends by returning or by throwing.
CHECK_DEADLOCK FALSE
