\* Two rounds of two dispatches, three reads, or two local ones, of a file that
\* arrives in three parts.
CONSTANTS
  MaxRounds = 2
  Tries = 2
  Reads = 3
  LocalReads = 2
  Parts = 3
SPECIFICATION Spec
INVARIANTS
  AgreedIsWhole
\* The role may have returned for good.
CHECK_DEADLOCK FALSE
