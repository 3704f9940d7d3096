SPECIFICATION MCSpec
CONSTANTS
  Parts = {"packets", "frames", "addresses", "names", "contract", "sums", "device", "registry",
           "factory", "listening", "traffic", "rows",
           "events", "timer", "conversation", "echo"}
  Streams <- MCStreams
  Definitions <- MCDefinitions
  Receivers <- MCReceivers
  Frames <- MCFrames
  MaxBytes = 16
  MaxFrames = 4
  Bits = {"high", "low"}
  Masks <- MCMasks
  Settings <- MCSettings
  Names <- MCNames
  Documents <- MCDocuments
  Types = {"uint8", "string", "single"}
  Blocks <- MCBlocks
  Objects = {"daemon", "child"}
  Daemon = "daemon"
  Interval = 1
  MaxListTime = 3
  MaxRuns = 2
  Delay = 2
  MaxTime = 9
  MaxWakes = 3
INVARIANTS
  ReceivedInOrder
  AllExtracted
  FramesRead
  MaskDecides
  ContractKept
  DamagedRefused
  HeldIfOpen
  SnapshotTrue
  EventsDelivered
  ConversationKept
  ShotSpacing
  FewShotsAfterStop
CHECK_DEADLOCK FALSE
