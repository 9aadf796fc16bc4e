\* A chunk larger than twice the current allocation after a small first one
\* (curl hands onCurlWrite up to CURL_MAX_WRITE_SIZE = 16384 bytes at once).
CONSTANTS
  BUF_MIN = 4
  Sizes = {1, 9}
  AllocCanFail = FALSE
  MaxBytes = 24
SPECIFICATION Spec
INVARIANT NoOverflow
