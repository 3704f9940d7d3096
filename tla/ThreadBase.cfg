SPECIFICATION Spec
CONSTANTS
  Root = Root
  c1 = c1
  c2 = c2
  Nobody = Nobody
  Threads = {Root, c1, c2}
  ParentOf <- Chain
  PipeCapacity = 2
  MaxPosts <- OnePostEach
  PostsTo <- ToParent
  SelfStopping = {c1}
  LateCallbacks = FALSE
INVARIANTS
  IInv
  NoUseAfterDelete
  NoLostWakeUp
  ShutdownOrder
PROPERTIES
  ImplementsThreadTree
