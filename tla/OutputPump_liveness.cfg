CONSTANTS
  Streams = {stdout, stderr}
  None = None
  Window = 2
  MaxPayload = 1
  ChannelSize = 1
  SequenceSpace = 4
  MaxWritten = 1
  ReadErrors = FALSE
  EmptyWrites = FALSE
SPECIFICATION FairSpec
PROPERTIES OutputArrives SessionEnds
CHECK_DEADLOCK FALSE
