CONSTANTS
  TicksPerMs = 2
  Word = 16
  kWaitMs = 2
  kMinDurationMs = 2
  kMaxDurationMs = 6
  kDurationOffsetMs = 2
  kDisplayIdleSupport = TRUE
  Durations <- MCDurations
SPECIFICATION Spec
INVARIANTS
  TypeOK
  HintFollowsState
  AbortReachesWait
  NoLostWakeup
PROPERTIES
  BoostKeptAsPromised
  ImplementsPromise
  BoostEnds
  ExitReturns
