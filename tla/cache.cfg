\* Two threads: up to three buffers each of one cache with a stock of two, or
\* the programs of the unit tests.
SPECIFICATION Spec
CONSTANTS
  Threads = {1, 2}
  NumCaches = 3
  CtorThreads = 1
  MaxLocal = 2
  MaxHeld = 3
  MaxBuffers = 11
INVARIANTS
  TypeOK
  OneOwner
  ThreadFootprint
  FootprintBounded
  AssertsHold
\* The threads of the stress test work for ever.
CHECK_DEADLOCK FALSE
