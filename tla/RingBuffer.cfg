\* Three slots, two byte values, callers that pass up to four bytes.
SPECIFICATION FairSpec
CONSTANTS
  Byte = {0, 1}
  Unset = Unset
  Size = 3
  MaxChunk = 4
  StatMod = 2
INVARIANTS TypeOK StoredBytesWritten LoopsProgress
PROPERTIES FifoSpec CallsReturn
