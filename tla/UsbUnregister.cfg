SPECIFICATION Spec
CONSTANTS
  MaxUevents = 2
  MaxSpurious = 1
PROPERTY UnregisterReturns
