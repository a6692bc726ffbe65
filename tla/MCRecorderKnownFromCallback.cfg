CONSTANT Task = "START_RECORDING"
SPECIFICATION Spec
INVARIANT KnownFromCallback
