\* Chunks smaller than the first allocation, allocation never fails.
CONSTANTS
  BUF_MIN = 4
  Sizes = {1, 2, 3}
  AllocCanFail = FALSE
  MaxBytes = 64
SPECIFICATION Spec
INVARIANT NoOverflow
