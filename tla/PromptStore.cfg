\* Two questions, two threads (so that two runs wait at once), one trigger, one
\* grant; the clock can lapse a question asked at 0.  One of the callers'
\* reasons, and the one (timed_out) that is both a caller's and the store's own.
\* No symmetry: three of the properties are liveness.
SPECIFICATION FairSpec
CONSTANTS
    Prompts = {p1, p2}
    Sessions = {s1, s2}
    Triggers = {t1}
    Mandates = {m1}
    PromptReasons = {"run_stopped"}
    TriggerReasons = {"timed_out"}
    Null = Null
    TTL = 1
    MaxTime = 1
INVARIANTS
    OutcomeMatchesRow
PROPERTIES
    SettledIsFinal
    WaitEnds
    AnsweredPointerBounded
    PendingCloses
