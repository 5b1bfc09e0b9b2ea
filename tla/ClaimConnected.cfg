CONSTANTS
  c1 = c1
  c2 = c2
  c3 = c3
  None = None
  max_conn = 2
  max_files = 2
  listen_sock = 4
  Fds <- MCFds
  Conns = {c1, c2}
  V4 = {c1, c2}
  Ids = {0, 1}
  Names <- MCNames
  Padded <- MCNames
  Requests <- LiveRequests
  PublishLimit = 1199
  SearchLimit = 100
  OutCap = 1
SPECIFICATION Spec
INVARIANT WatchedAreConnected
