\* One worker loop at a time, two processes one after the other (a stopped
\* one's runs may outlive it), one trigger of every kind, one lost record.
\* Fair: a process that is lost is replaced.
SPECIFICATION FairSpec
CONSTANTS
    Procs = {e1, e2}
    Triggers = {t1}
    Null = Null
    LeaseTTL = 2
    Delay = 1
    MaxRetries = 0
    MaxTickers = 1
    MaxFaults = 1
INVARIANTS
    LeaseHeldWhileRunning
    AttemptsBounded
PROPERTIES
    LostRunSettles
