CONSTANTS
  Keys = {k1}
  Threads = {t1, t2}
  None = None
  MaxAttempts = 2
  Life = 2
  MaxDelay = 1
SPECIFICATION FairSpec
INVARIANTS TypeOK GuessesBounded LoneCallPurges
PROPERTY AlwaysPairableAgain
