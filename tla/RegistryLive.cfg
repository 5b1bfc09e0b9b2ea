CONSTANTS
  c1 = c1
  c2 = c2
  c3 = c3
  None = None
  max_files = 2
  listen_sock = 4
  Fds <- MCFds
  Names <- MCNames
  Ids = {0, 1}

  max_conn = 3
  Conns = {c1, c2}
  V4 = {c1, c2}
  Padded <- MCNames
  Requests <- LiveRequests
  PublishLimit = 1199
  SearchLimit = 100
  OutCap = 1
SPECIFICATION FairSpec
PROPERTIES
  RequestsAreRead
  ConnectionsAreTaken
  DeparturesAreNoticed
  SignalStops
