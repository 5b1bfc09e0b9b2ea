CONSTANTS
  f1 = f1
  f2 = f2
  None = None
  Fetchers = {f1, f2}
  Names <- AllNames
  Store <- AllStore
  Buffer = 3
  NameCap = 2
  Window = 2
SPECIFICATION FairSpec
INVARIANTS
  OutputIsFromTheFile
PROPERTIES
  FetchEnds
  ListenerStops
