\* One trigger of either kind, two questions in one thread, two processes one
\* after the other; one write fails, or one crash falls between two writes.  A
\* question asked at 0 can lapse and another be asked after it.
SPECIFICATION FairSpec
CONSTANTS
    Prompts = {p1, p2}
    Sessions = {s1}
    Triggers = {t1}
    Null = Null
    TTL = 1
    MaxTime = 1
    MaxRetries = 0
    MaxBoots = 2
    MaxFaults = 1
INVARIANTS
    QuestionHasAudience
    DeliveredOncePerProcess
PROPERTIES
    ShutdownKeepsQuestion
    StopSticks
    AnswerNotThrownAway
    StoreSpec
    TriggerWaitEnds
