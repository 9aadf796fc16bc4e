\* Small chunks, but malloc and realloc may return NULL.
CONSTANTS
  BUF_MIN = 4
  Sizes = {1, 2, 3}
  AllocCanFail = TRUE
  MaxBytes = 24
SPECIFICATION Spec
INVARIANT NoOverflow
