SPECIFICATION Spec
CONSTANTS
  MaxChannel = 3
  LightStates <- MCLightStates
  AdjustR = 2
  AdjustG = 3
  AdjustB = 4
  AdjustOne = 4
  LedBrightness <- MCLedBrightness
  PanelMaxima = {1, 10}
INVARIANTS
  LedShowsLight
  BacklightInRange
