SPECIFICATION LoopSpec
CONSTANTS
  HeaderSize = 2
  MaxMessageSize = 8
  MessageCount = 5
  MessageEnd <- MCMessageEnd
  QueueLimit = 1
  MaxAccepted = 3
  MaxInterrupts = 1
CHECK_DEADLOCK FALSE
INVARIANTS LoopTypeOK BufferHasRoom InStep DrainsBeforeEnding
PROPERTIES AcceptedIsSent ImplementsReading Implements SessionEnds DisconnectionEnds
