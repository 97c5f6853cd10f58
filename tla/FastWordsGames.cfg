SPECIFICATION GameSpec
CONSTANTS
  WORD_COUNT = 2
  Length <- OneAndTwo
  Seconds <- TwoAndThree
  MAX_INPUT = 3
  MaxWait = 4
  MaxWords = 5
CONSTRAINT Bounded
INVARIANTS Tally WordAlive
\* The player leaves: nothing follows Quit.
CHECK_DEADLOCK FALSE
