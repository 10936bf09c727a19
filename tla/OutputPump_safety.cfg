CONSTANTS
  Streams = {stdout, stderr}
  None = None
  Window = 2
  MaxPayload = 1
  ChannelSize = 1
  SequenceSpace = 2
  MaxWritten = 2
  ReadErrors = TRUE
  EmptyWrites = TRUE
SPECIFICATION Spec
INVARIANTS TypeOK WindowBound StreamIntact
CHECK_DEADLOCK FALSE
