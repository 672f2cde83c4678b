SPECIFICATION MCSpec
CONSTANTS
  Models <- MCModels
  Oversizes <- MCOversizes
  Standard <- MCStandard
  Screens <- MCScreens
  High = 3
  Wide = 3
  Texts <- MCTexts
  Pointer <- MCPointer
  MaxActs = 5
  Files <- MCFiles
  MaxFiles = 2
  ShowTiming = TRUE
  LUCommand = TRUE
  MaxTime = 1
  MaxTimers = 1
  MaxWindow = 1
  MaxMixed = 1
  Others = {}
  Default = TRUE
  MaxStarts = 1
INVARIANTS
  WindowShows
  UiBuilt
  
PROPERTIES
  SelectionKept
  TogglesTrue
\* The selection's bounded run of actions ends.
CHECK_DEADLOCK FALSE
