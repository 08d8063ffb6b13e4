\* Inputs of 0 to 5 bytes in chunks of 2, up to 4 bytes more of output.
SPECIFICATION FairSpec
CONSTANTS
  Chunk = 2
  Lengths = {0, 1, 2, 3, 4, 5}
  Overhead = 4
INVARIANTS
  TypeOK
  Complete
  DefAsserts
PROPERTY Ends
\* The call ends.
CHECK_DEADLOCK FALSE
