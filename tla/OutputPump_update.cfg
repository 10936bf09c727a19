CONSTANTS
  Streams = {stdout, stderr}
  None = None
  Window = 1
  MaxPayload = 1
  ChannelSize = 1
  SequenceSpace = 4
  MaxWritten = 2
  ReadErrors = FALSE
  EmptyWrites = FALSE
SPECIFICATION FairSpec
PROPERTIES WindowUpdateResumes
CHECK_DEADLOCK FALSE
