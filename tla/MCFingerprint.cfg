SPECIFICATION Spec
CONSTANTS
  Clients = {c1, c2}
  Settings <- MCSettings
  Errors = {3, 999}
  Infos = {1, 1000, 10000, 10001, 20001}
  Samples = {40, 100}
  Results <- MCResults
INVARIANTS OneInstance CallsCurrentClient NoKeyLeftDown
PROPERTY NotifyReturns
