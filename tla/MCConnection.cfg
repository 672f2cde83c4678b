SPECIFICATION MCSpec
CONSTANTS
  Stored <- MCStored
  Samples <- MCSamples
  Typed <- MCTyped
  Forms <- MCForms
  LUNAME_SIZE = 2
  Fd = {f1, f2}
  NoFd = NoFd
  Threaded = FALSE
  Reconnect = TRUE
  Proxy = TRUE
  MaxAttempts = 2
  Ports = {"p1", "p2", "none"}
  LineMax = 6
  MaxCalls = 2
  Specs <- MCSpecs
  LUs = {"lu"}
  PRINTER_BUF = 3
  MaxStarts = 2
INVARIANTS
  OneSocket
  WatchedWhileConnected
  OneReconnectTimer
  SecureMeansTls
  ServicesKept
  NamesKept
PROPERTIES
  AttemptSparesSession
  ReconnectionTried
\* A caller that waits for a mode on a closed socket waits for ever.
CHECK_DEADLOCK FALSE
