SPECIFICATION FairSpec
CHECK_DEADLOCK FALSE
CONSTANTS
  w1 = w1
  w2 = w2
  a1 = a1
  q1 = q1
  Workers = {w1, w2}
  Rules = {a1}
  Requests = {q1}
  Outcomes <- MCOutcomes
  Schedules <- MCSchedules
  MaxTries = 3
  MaxCrashes = 2
INVARIANTS TypeOK AlertOncePerRun AdviceRestsOnEvidence
PROPERTIES AdviceNeverRewritten ReleaseObserved
