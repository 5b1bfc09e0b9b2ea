CONSTANTS
  q1 = q1
  q2 = q2
  q0 = q0
  plain = plain
  accent = accent
  long = long
  longer = longer
  None = None
  Owners = {q1, q2, q0}
  Reply <- MCReply
  IdLen = 2
  IpLen = 2
  PortLen = 1
  Names = {plain, accent, long, longer}
  NameLen <- MCNameLen
  EightBit <- MCEightBit
  Dirs <- MCDirs
  DirEightBit <- MCDirEightBit
  IdEightBit = 0
  IdTail = 1
  Content <- MCContent
  MaxTyped = 3
SPECIFICATION FairFetchSpec
INVARIANTS
  FieldsInStep
  ContactsAreNamed
  FileIsThePeers
  PublishIsAdmitted
  WaitsAreExplained
PROPERTIES
  CommandsReturn
