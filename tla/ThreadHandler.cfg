SPECIFICATION MCSpec
CONSTANTS
  Handlers <- MCHandlers
  PortionedKinds = {"udp"}
  MaximumDataSize = 6
CHECK_DEADLOCK FALSE
INVARIANTS
  StateMatchesDescriptor
  WireInOrder
  PacketsWhole
PROPERTIES
  Reconnects
  OutputDrains
