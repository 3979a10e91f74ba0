\* maxAllowedRestarts as in restart.go; only crashes restart the
\* application; it is launched with at most one argument, which may be a
\* positional one.
CONSTANTS
  MaxAllowedRestarts = 10
  MaxRequests = 0
  MaxValue = 0
  MaxArgs = 1
  PositionalArgs = TRUE

SPECIFICATION Spec

INVARIANT CrashRestartsBounded

\* Every process of the chain has exited: the chain has ended.
CHECK_DEADLOCK FALSE
