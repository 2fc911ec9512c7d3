SPECIFICATION Spec
CONSTANTS
  u1 = u1
  u2 = u2
  d1 = d1
  d2 = d2
  Uploads <- TwoUploads
  Downloads <- TwoDownloads
  Size <- UploadOfTwo
  NoTransfer = NoTransfer
  MaxStarted = 3
SYMMETRY KindSymmetry
INVARIANT TransferTypeOK
INVARIANT UploadIntact
INVARIANT SavedIsOwn
INVARIANT BusyWhileStreaming
CHECK_DEADLOCK FALSE
