SPECIFICATION MCSpec
CONSTANTS
  Clients = {c1, c2}
  ann = ann
  annLee = annLee
  file1 = file1
  TypedNames = {ann, annLee}
  MaxTexts = 1
  Files = {file1}
  QueueLimit = 1
  WireCapacity = 1
  NoClient = NoClient
  NoMessage = NoMessage
  SpaceExtends <- MCSpaceExtends
  Address <- MCAddress
  MaxSent = 3
CHECK_DEADLOCK FALSE
INVARIANTS TypeOK ActiveTransferHasSender UnknownOnlyInChanges SessionsHaveThreads
