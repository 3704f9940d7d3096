SPECIFICATION LogsFairSpec
CONSTANTS
  Loggers = {main, child}
  Loads <- MCLoads
  MaxMessages = 3
CHECK_DEADLOCK FALSE
INVARIANTS
  FilesInOrder
  NothingLost
PROPERTIES
  Written
