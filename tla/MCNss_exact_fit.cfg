CONSTANTS
  LOCALUSER = "admin"
  REMOTEUSER = "remoteuser"
  REMOTEUID = 10000
  FileNames = {"admin", "bob"}
  LineLens = {12, 40}
  LineUids = {1000}
  Newlines = {TRUE}
  MaxFileLines = 2
  Requests <- MCRequests
  InitBufs = {6, 11, 64}
  MaxBuf = 128
  BIG = 1024
SPECIFICATION Spec
INVARIANT AnswerIndependentOfBuffer
