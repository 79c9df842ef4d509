CONSTANTS
  Partners <- MCPartners
  DetectionDisabled = FALSE
  MaxMessages = 1
  MaxChanges = 3
SPECIFICATION PortSpec
INVARIANT StaleIsTemporary
PROPERTY StatusConverges
