CONSTANTS
  Enabled <- MCEnabled
  MaxProviderAttempts = 2
  Callers = {"client", "prober"}
  Prober = "prober"
  Latencies = {100, 2000}
  Natures <- MCNatures
  MaxSuccesses = 1
  MaxFailures = 5
SPECIFICATION Spec
INVARIANTS TypeOK FailingFallsBehind LearntRankingServes NoAnswerIsLost
CHECK_DEADLOCK FALSE
