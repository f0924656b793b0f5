SPECIFICATION Spec
CONSTANTS
  b1 = b1  b2 = b2  Junk = Junk
  Bytes <- TwoBytes
  Chunks <- ShortChunks
  Lengths <- UpTo5
  BUCKET_LENGTH = 1
  MaxLength = 5
INVARIANTS HoldsBytes RoomToPutBack
PROPERTIES ImplementsByteQueue
