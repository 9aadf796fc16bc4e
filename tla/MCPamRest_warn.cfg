CONSTANTS
  t1 = t1
  t2 = t2
  Tokens <- MCTokens
  Garbage = Garbage
  METHOD = "POST"
  URI_SET = TRUE
  BUF_MIN = 16
  AllocCanFail = FALSE
  LineSizes = {3}
  ChunkSizes = {2}
  MaxAttempts = 1
  MaxLines = 4
  MaxChunks = 1
SYMMETRY MCSymmetry
SPECIFICATION Spec
INVARIANT WarnedOnAvailabilityError
