\* One or three threads, a put area of three bytes, four bytes written; used
\* directly, with up to two continuous writers.
SPECIFICATION FairSpec
CONSTANTS
  ThreadCounts = {1, 3}
  BufferSizes = {3}
  WriteSizes = {2, 4}
  MaxBytes = 4
  MaxWriters = 2
  NoTask = NoTask
INVARIANTS
  AllTypeOK
  WrittenInOrder
  
  WriterAlone
  
PROPERTIES
  
  JoinEndsOrSleeps
  
\* The caller may wait for ever.
CHECK_DEADLOCK FALSE
