SPECIFICATION MCSpec
CONSTANTS
    Selector <- MCSelector
    Conv <- MCConv
    Contents <- MCContents
    UpMax = 3
    DftMax = 3
    MaxTransfers = 2
    Fields <- MCFields
    Rests <- MCRests
    MaxFields = 2
    Environments <- MCEnvironments
    VersionLength = 20
INVARIANTS TransferCorrect FieldsAnswered
PROPERTIES AbortStopsData TransferEnds
CHECK_DEADLOCK FALSE
