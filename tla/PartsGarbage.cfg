SPECIFICATION MCSpec
CONSTANTS
  Parts = {"packets"}
  Streams <- MCGarbage
  Definitions <- MCDefinitions
  Receivers <- MCReceivers
  Frames <- MCFrames
  MaxBytes = 16
  MaxFrames = 4
  Bits = {"high", "low"}
  Masks <- MCMasks
  Settings <- MCSettings
  Names <- MCNames
  Documents <- MCDocuments
  Types = {"uint8", "string", "single"}
  Blocks <- MCBlocks
  Objects = {"daemon", "child"}
  Daemon = "daemon"
  Interval = 1
  MaxListTime = 3
  MaxRuns = 2
  Delay = 2
  MaxTime = 9
  MaxWakes = 3
INVARIANTS
  AllExtracted
CHECK_DEADLOCK FALSE
