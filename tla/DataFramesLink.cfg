SPECIFICATION FairSpec
CONSTANTS
  IdLimit = 5
  Garbage <- ANumber
  PlainFrom = {"client", "server"}
  MaxFrames = 2
  MaxPlain = 1
  MaxWire = 2
  MaxSessions = 2
  MaxResets = 1
INVARIANTS
  DiscontinuityExplained
PROPERTIES
  ImplementsTicketChannel
  FrameApplied
