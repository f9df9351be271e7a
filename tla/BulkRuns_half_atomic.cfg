\* One atomic run of two targets whose process is lost once.
SPECIFICATION Spec
CONSTANTS
    N = 2
    Depth = 1
    Modes = {"atomic"}
    HALT_CONSECUTIVE = 2
    HALT_FAILURE_SHARE = 50
    MaxEvents = 1
CHECK_DEADLOCK FALSE
PROPERTIES
    AtomicNotHalf
