SPECIFICATION MCReceptionSpec
CONSTANTS
  c1 = c1
  c2 = c2
  c3 = c3
  Clients = {c1, c2}
  ann = ann
  annLee = annLee
  TypedNames = {ann}
  MaxTexts = 3
  file1 = file1
  file2 = file2
  Files = {}
  QueueLimit = 9
  WireCapacity = 2
  NoClient = NoClient
  NoMessage = NoMessage
  NoFile = NoFile
  NoRequest = NoRequest
  Absent = Absent
  SpaceExtends <- MCSpaceExtends
  Address <- MCAddress
  Blocks <- MCBlocks
  Owned <- MCOwned
  MaxOffset = 3
  Talkers = {c1}
  Senders = {}
  Namers = {c1}
  Quitters = {c1}
  MaxRequests = 0
CHECK_DEADLOCK FALSE
INVARIANTS MessengerTypeOK ChatInOrder ChatWithoutGaps NamesAgree NobodyThrownOut
PROPERTY ImplementsServer
