\* Two entries and two processes, two mails of one family and a reply, a limit
\* of one send; every try may be lost, slow or unclear.
SPECIFICATION Spec
CONSTANTS
    s1 = s1
    s2 = s2
    r1 = r1
    f1 = f1
    Entries = {e1, e2}
    Mails = {s1, s2, r1}
    Families = {f1}
    Family <- MCFamily
    Procs = {p1, p2}
    Null = Null
    Keyed = TRUE
    MaxAttempts = 2
    MaxPending = 2
    SendLimit = 1
SYMMETRY Symmetry
INVARIANTS
    NoSecondMail
    SendLimitKept
PROPERTIES
    KeepsConsent

