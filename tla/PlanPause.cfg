\* A mandate's plans, paused and taken over, with the sweep's timer running.
SPECIFICATION FairSpec
CONSTANTS
  p1 = p1
  p2 = p2
  Mandate = {m1}
  Plan = {p1, p2}
  Effects <- MCEffects
  MaxEdits = 2
  MaxTime = 1
  MaxRuns = 1
PROPERTIES
  NoTurnForRenewed
  TakeoverStands
  NoInheritedAnswer
  PausedComesToRest
