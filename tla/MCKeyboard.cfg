SPECIFICATION FairSpec
CONSTANTS
  OerrLock = TRUE
  Typeahead = TRUE
  UnlockDelay = TRUE
  As400 = TRUE
  MaxTypeahead = 2
INVARIANTS
  LockMatchesConnection
  DeferredHasTimer
  NoReplayAcrossSessions
  AidHoldsLock
PROPERTIES
  OnlyUndrainedHandlersStrand
  DeferredUnlockComes
\* Free() may end the process.
CHECK_DEADLOCK FALSE
