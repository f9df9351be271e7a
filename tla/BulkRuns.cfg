\* The three kinds of run, an undo, and one of: a lost process, a resume, a
\* change by somebody else.  The halt limits are small enough to be met with two
\* targets.  A family whose runs are all over and undone stops, so no deadlock.
SPECIFICATION FairSpec
CONSTANTS
    N = 2
    Depth = 2
    Modes = {"local", "atomic", "external"}
    HALT_CONSECUTIVE = 2
    HALT_FAILURE_SHARE = 50
    MaxEvents = 1
CHECK_DEADLOCK FALSE
INVARIANTS
    OneWriter
    CarriedOutOnce
    SentWithinMax
    UndoneIsGone
    RollbackLeavesNothing
PROPERTIES
    OpenRunEnds
