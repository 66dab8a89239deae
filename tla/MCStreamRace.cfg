\* The race of three mirrors: safety, the refinement of StreamOutcome, and,
\* under fair scheduling, that it ends.
CONSTANTS
  mx1 = mx1
  mx2 = mx2
  mx3 = mx3
  Candidates = {mx1, mx2, mx3}
  NoProvider = NoProvider
SPECIFICATION FairSpec
INVARIANTS
  TypeOK
  NoSendAfterClose
  SendNeverBlocks
  NoFalseDefeat
  StatsAreFair
PROPERTIES
  KeepsPromise
  Answered
  NoGoroutineLeaks
