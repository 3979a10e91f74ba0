\* maxAllowedRestarts as in restart.go; the application asks for up to two
\* restarts; the command line of the launch has up to five arguments, all
\* of them flags and flag values.
CONSTANTS
  MaxAllowedRestarts = 10
  MaxRequests = 2
  MaxValue = 2
  MaxArgs = 5
  PositionalArgs = FALSE

SPECIFICATION Spec

INVARIANT NoCrashRestartRefused
INVARIANT RestartCountAdvances

\* Every process of the chain has exited: the chain has ended.
CHECK_DEADLOCK FALSE
