CONSTANT Task = "START_RECORDING"
SPECIFICATION Spec
PROPERTY RawFileComplete
