SPECIFICATION VibratorSpec
CONSTANTS
  Timeouts = {0, 1, 3}
  Effects <- MCEffects
  EffectTicks <- MCEffectTicks
  CpEffects = {"CLICK"}
  CpTicks = 2
  Strengths = {"LIGHT", "other"}
  Amplitudes = {0, 2, 4, 1020}
  UsPerTick = 2
  UsSpan = 6
  WordSpan = 65536
  MaxCalls = 3
INVARIANT NoStaleEffect
PROPERTIES CompleteAfterMotor EveryCallCompletes
