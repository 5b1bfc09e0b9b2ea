CONSTANTS
  f1 = f1
  f2 = f2
  None = None
  Fetchers = {f1}
  Names <- ShortNames
  Store <- ShortStore
  Buffer = 3
  NameCap = 2
  Window = 2
SPECIFICATION Spec
INVARIANT FetchedIsTheFile
