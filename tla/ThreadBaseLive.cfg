SPECIFICATION FairSpec
CONSTANTS
  Root = Root
  c1 = c1
  c2 = c2
  Nobody = Nobody
  Threads = {Root, c1}
  ParentOf <- Pair
  PipeCapacity = 3
  MaxPosts <- OnePostEach
  PostsTo <- ToFamily
  SelfStopping = {Root, c1}
  LateCallbacks = FALSE
PROPERTIES
  ImplementsMailbox
  StopCompletes
  FinishedCollected
  QueueServed
