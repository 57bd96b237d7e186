SPECIFICATION Spec
CONSTANTS
  Transfer = {t1, t2}
  FirstPort = 1
  LastPort = 2
  Want <- MCWant
  CountWidth = 256
  MaxFaults = 0
  None = None
  t1 = t1  t2 = t2
INVARIANTS PermitMeansPort
CHECK_DEADLOCK FALSE
