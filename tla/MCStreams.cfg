SPECIFICATION FairSpec
CONSTANTS
  Length = 7
  Loops = {"pipe", "sendall", "client", "write_all", "daemon"}
  BUFSIZE = 2
  PipeCap = 3
  MaxOutput = 5
  BLOCK = 3
  Lengths = {0, 1, 2, 3, 4, 5, 6, 7}
  READ_SIZE = 2
  Letters = {1, 2}
  MaxText = 6
  MaxPattern = 4
  Size = 4
  Values = {1, 2, 3}
INVARIANTS
  WholeBuffer
  BufferFits
  StreamIntact
  PipelineDone
  InputPassedOn
  AlgorithmsExact
PROPERTY StreamsEnd
\* A parent of pipe.c whose child failed may wait for room in the pipe for ever.
CHECK_DEADLOCK FALSE
