SPECIFICATION BootSpec
CONSTANTS
  Ttys = {tty1, ttyS0}
  Anonymous = TRUE
INVARIANT OneShellPerTty
PROPERTIES ShellComesBack BootFinishes NetworkRetried
\* If every fork of main failed nothing is left but PID 1's sleep(10).
CHECK_DEADLOCK FALSE
