\* No failing write; the owner starts the trigger by hand once its question is
\* answered, before a tick has seen the answer.
SPECIFICATION Spec
CONSTANTS
    Prompts = {p1}
    Sessions = {s1}
    Triggers = {t1}
    Null = Null
    TTL = 1
    MaxTime = 1
    MaxRetries = 0
    MaxBoots = 2
    MaxFaults = 0
INVARIANTS
    AnsweredWaitRearms
