\* maxAllowedRestarts as in restart.go; the application is launched with
\* no arguments and never asks for a restart, so every restart is a crash
\* restart counted from 0.
CONSTANTS
  MaxAllowedRestarts = 10
  MaxRequests = 0
  MaxValue = 0
  MaxArgs = 0
  PositionalArgs = FALSE

SPECIFICATION Spec

INVARIANT CrashRestartsWithinBudget

\* Every process of the chain has exited: the chain has ended.
CHECK_DEADLOCK FALSE
