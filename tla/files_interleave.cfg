SPECIFICATION Spec
CONSTANTS
  u1 = u1
  u2 = u2
  d1 = d1
  d2 = d2
  Uploads <- TwoUploads
  Downloads <- TwoDownloads
  Size <- UploadOfTwo
  NoTransfer = NoTransfer
  MaxStarted = 2
INVARIANT OneTransferInFlight
CHECK_DEADLOCK FALSE
