CONSTANTS
  c1 = c1
  c2 = c2
  c3 = c3
  None = None
  listen_sock = 4
  Fds <- MCFds
  Conns = {c1, c2, c3}
  UnreadCap = 2
SPECIFICATION FairSpec
INVARIANTS
  TypeOK
  WatchedAreOpen
  ReadyIsStillReady
PROPERTIES
  ClosedAreNoticed
  QueuedAreTaken
