SPECIFICATION Spec
CONSTANTS
  Transfer = {t1, t2, t3}
  FirstPort = 1
  LastPort = 3
  Want <- MCWant
  CountWidth = 256
  MaxFaults = 2
  None = None
  t1 = t1  t2 = t2
INVARIANTS TypeOK RoutedToOwner AdvertisedIsServed PermitsConserved
CHECK_DEADLOCK FALSE
