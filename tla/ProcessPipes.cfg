SPECIFICATION Spec
CONSTANTS
  Streams <- MCStreams
  Output <- MCOutput
  PipeSize = 3
  BufSize = 2
INVARIANT OutputRight
PROPERTY CallEnds
