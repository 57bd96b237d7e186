SPECIFICATION Spec
CONSTANTS
  MaxSize = 12
  MaxArg = 18
  Kilo = 6
  Part = 8
  MaxUsize = 12
  Width = 8
  MaxPayload = 6
  Overhead = 1
  MaxChunks = 4
  MaxEdits = 2
INVARIANTS TypeOK CutsAgree NoUnderflow PartsTile  CountIsLimit
CHECK_DEADLOCK FALSE
