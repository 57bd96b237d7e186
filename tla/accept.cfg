SPECIFICATION FairSpec
CONSTANTS
  Client = {c1, c2, c3, c4}
  MaxConnections = 2
INVARIANTS TypeOK
PROPERTIES RejectedOnlyWhenFull EventuallyAnswered StopsWhenQuiet
CHECK_DEADLOCK FALSE
