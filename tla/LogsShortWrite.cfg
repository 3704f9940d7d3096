SPECIFICATION LogsFairSpec
CONSTANTS
  Loggers = {main, child}
  Loads <- WideFailing
  MaxMessages = 3
CHECK_DEADLOCK FALSE
INVARIANTS
  TextKept
