\* An agent and a workflow, each started by the schedule or by hand, a chat and
\* a judge beside them, under a daily and a monthly cap that two runs exhaust;
\* one run whose cost is never booked.
SPECIFICATION Spec
CONSTANTS
    Agents = {a1}
    Workflows = {w1}
    DailyCap = 2
    MonthlyCap = 3
    WORKER_MAX_COST_USD = 2
    SessionCeiling = 1
    MIN_VIABLE_RUN_USD = 1
    MaxTurn = 2
    MaxChat = 1
    MaxJudge = 1
    MaxLost = 1
INVARIANTS
    ReservedIsGranted
    SpendBounded
