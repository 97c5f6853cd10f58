SPECIFICATION Spec
CONSTANTS
  Commands = {c1, c2}
  Output = {a}
  MAX_TERM_LOGS = 3
  MAX_READ = 2
  MaxBusy = 2
INVARIANTS QuietShowsTail InBounds
\* Once a line is written past the array nothing more is known.
CHECK_DEADLOCK FALSE
