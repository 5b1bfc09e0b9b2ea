CONSTANTS
  c1 = c1
  c2 = c2
  None = None
  max_conn = 3
  max_files = 2
  listen_sock = 4
  Fds <- MCFds
  Conns = {c1, c2}
  V4 = {c1, c2}
  Ids = {0, 1, 2}
  Names <- MCNames
  Padded <- MCNames
  Requests <- MCRequests
  PublishLimit = 8
  SearchLimit = 4
  OutCap = 1
  peer_id <- MCPeerId
  shared_dir <- MCSharedDir
  PublishCap = 9
  commands <- MCCommands
  MaxTyped <- MCMaxTyped
  wanted <- MCWanted
  UpCap = 2
SPECIFICATION FairSession
INVARIANTS
  AnswersInStep
  AnswersAreTruthful
  PublishedWhole
  HangsAreExplained
PROPERTY SearchReturns
