CONSTANTS
  c1 = c1
  c2 = c2
  Clients = {c1, c2}
  Server = Server
  None = None
  Base = 4
  Width = 1
  WideWidth = 2
  Plus = 2
  Inputs <- MCInputs
  Leftover = {1}
SPECIFICATION FairSpec
INVARIANTS
  InStep
  SumsAreRight
  OnlyCutRepliesKill
PROPERTIES
  WaitsEnd
  NextInTurn
