CONSTANT Task = "START_RECORDING"
SPECIFICATION FairSpec
INVARIANTS
    TypeOK
    HandedOverOnce
    PanicOnlyWhileClosing
PROPERTIES
    SinkReleased
    CloseEnds
    NothingOutlivesClose
    FailureIsReported
    SessionSpec
