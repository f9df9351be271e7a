\* Two bodies at one trigger, two processes that may overlap and stall, one
\* write at a run's end that fails; the queue holds one.
SPECIFICATION Spec
CONSTANTS
    Events = {e1, e2}
    Triggers = {t1}
    Procs = {p1, p2}
    Null = Null
    MaxWaiting = 1
    MaxFaults = 1
    MaxStalls = 2
SYMMETRY Symmetry
INVARIANTS
    RunsOnce
    OneRunPerTrigger
    ToldOnce
    QueueBounded
PROPERTIES
    UnknownOnlyIfLost
    StartsInOrder
