\* Writes of 0, 1, 2 and 5 bytes into a buffer of 4.
CONSTANTS
  BufferSize = 4
  Chunks <- MCChunks
  ReadSizes = {0, 1, 3}
  MaxTaken = 6
SPECIFICATION Spec
PROPERTY ImplementsByteQueue
