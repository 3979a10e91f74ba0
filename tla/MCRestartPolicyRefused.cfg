\* maxAllowedRestarts as in restart.go; the application asks for one restart.
CONSTANTS
  MaxAllowedRestarts = 10
  MaxRequests = 1
  MaxValue = 0
  MaxArgs = 0
  PositionalArgs = FALSE

SPECIFICATION Spec

INVARIANT NoRestartRefused

\* Every process of the chain has exited: the chain has ended.
CHECK_DEADLOCK FALSE
