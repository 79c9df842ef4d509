SPECIFICATION Spec
CONSTANTS
  Configs <- MCConfigs
  Expiring <- ExpiringHints
  Modes = {"SUSTAINED_PERFORMANCE", "VR", "LAUNCH", "EXPENSIVE_RENDERING"}
  Boosts = {"CAMERA_LAUNCH"}
  ExtHints = {"CAMERA_STREAMING_MID"}
INVARIANT ModeHintsAgree
PROPERTY RestoresModes
