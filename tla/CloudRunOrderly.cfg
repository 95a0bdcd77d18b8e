\* Overlapping handlers of one run, but a submission and a sweep meet nobody who could end it.
SPECIFICATION FairOrderlySpec
CONSTANTS
  Runs = {r1}
  MnsRuns = {}
  EciRuns = {}
  Workers = {w1, w2}
  Sessions = {s1, s2, s3}
  MaxAttempts = 3
  TokenRequired = FALSE
  MCAgentWorker = w1
  Agent <- MCAgent
  Local = local
  NoWorker = none
INVARIANTS RunningIsFunded
PROPERTIES ImplementsLifecycle OnlyCurrentLeaseFinalizes RetriesEnd
CHECK_DEADLOCK FALSE
