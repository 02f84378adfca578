SPECIFICATION JoinedSpec
CONSTANTS
  c1 = c1
  c2 = c2
  c3 = c3
  Clients = {c1, c2}
  ann = ann
  annLee = annLee
  TypedNames = {ann}
  MaxTexts = 0
  file1 = file1
  file2 = file2
  Files = {}
  QueueLimit = 4
  WireCapacity = 1
  NoClient = NoClient
  NoMessage = NoMessage
  NoFile = NoFile
  NoRequest = NoRequest
  Absent = Absent
  SpaceExtends <- MCSpaceExtends
  Address <- MCAddress
  Blocks <- MCBlocks
  Owned <- MCOwned
  MaxOffset = 3
  Talkers = {}
  Senders = {}
  Namers = {c1, c2}
  Quitters = {}
  MaxRequests = 0
CHECK_DEADLOCK FALSE
INVARIANT UniqueNickNames
