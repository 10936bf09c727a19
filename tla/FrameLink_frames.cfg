CONSTANTS
  MaxPayloadSize = 1
  MaxFrameSize = 13
  Samples <- SampleFrames
  NoFrames <- FaultyBytes
  MaxSent = 2
  PipeSize = 6
SPECIFICATION FairSpec
INVARIANTS TypeOK FramesIntact
PROPERTIES FramesArrive
CHECK_DEADLOCK FALSE
