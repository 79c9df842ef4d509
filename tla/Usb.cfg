SPECIFICATION Spec
CONSTANTS
  MaxUevents = 2
  MaxSpurious = 1
INVARIANTS PartnerSignalNotLost PortTypeOwned SuccessNeedsNews
PROPERTY RoleSwitchReturns
