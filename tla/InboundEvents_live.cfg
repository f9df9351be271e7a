\* Fair: two bodies, two processes one of which may be lost, every write at a
\* run's end succeeding.
SPECIFICATION FairSpec
CONSTANTS
    Events = {e1, e2}
    Triggers = {t1}
    Procs = {p1, p2}
    Null = Null
    MaxWaiting = 1
    MaxFaults = 0
    MaxStalls = 0
PROPERTIES
    EventLeaves
    EndIsTold
    LostIsToldIfAccepting
