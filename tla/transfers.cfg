SPECIFICATION JoiningSpec
CONSTANTS
  c1 = c1
  c2 = c2
  c3 = c3
  Clients = {c1, c2}
  ann = ann
  annLee = annLee
  TypedNames = {}
  MaxTexts = 1
  file1 = file1
  file2 = file2
  Files = {file1}
  QueueLimit = 4
  WireCapacity = 2
  NoClient = NoClient
  NoMessage = NoMessage
  NoFile = NoFile
  NoRequest = NoRequest
  Absent = Absent
  SpaceExtends <- MCSpaceExtends
  Address <- MCAddress
  Blocks <- MCBlocks
  Owned <- MCOwned
  MaxOffset = 3
  Talkers = {c1}
  Senders = {c1}
  Namers = {}
  Quitters = {c2}
  MaxRequests = 3
CHECK_DEADLOCK FALSE
INVARIANTS ReceivedFileComplete NoClientAbort DataForReceiversOnly TransmitterHoldsTransfer
PROPERTIES StartedIsReceived NamedAtLast QuittersLeave
