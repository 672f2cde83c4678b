SPECIFICATION Spec
CONSTANTS
  Fd = {f1, f2}
  NoFd = NoFd
  Threaded = TRUE
  Reconnect = TRUE
  Proxy = FALSE
  MaxAttempts = 2
INVARIANTS
  ActiveConnectionSecure
\* A caller that waits for a mode on a closed socket waits for ever.
CHECK_DEADLOCK FALSE
