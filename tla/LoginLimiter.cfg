\* Four attempts for two keys, two open at once.
CONSTANTS
  Attempt = {a1, a2, a3, a4}
  Key = {k1, k2}
  NoKey = NoKey
  MaxAttempts = 2
  Window = 1
  Concurrency = 2
SPECIFICATION FairLimiterSpec
INVARIANTS
  LimiterTypeOK
  OvershootBounded
PROPERTY
  LockoutEnds
