\* Fair: one entry, two processes.
SPECIFICATION FairSpec
CONSTANTS
    s1 = s1
    s2 = s2
    r1 = r1
    f1 = f1
    Entries = {e1}
    Mails = {s1, s2, r1}
    Families = {f1}
    Family <- MCFamily
    Procs = {p1, p2}
    Null = Null
    Keyed = TRUE
    MaxAttempts = 3
    MaxPending = 2
    SendLimit = 1
PROPERTIES
    EntryEnds
