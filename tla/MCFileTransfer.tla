---------------------------- MODULE MCFileTransfer ----------------------------
(***************************************************************************)
(* Small instances of FileTransfer for TLC.                                *)
(***************************************************************************)
EXTENDS FileTransfer, TLC

CONSTANTS u1, u2, d1, d2

TwoUploads   == {u1, u2}
TwoDownloads == {d1, d2}
UploadOfTwo == [t \in Transfers |-> IF t \in Uploads THEN 2 ELSE 1]

\* Files of one kind have the same size: transfers of a kind are alike.
KindSymmetry == Permutations(TwoUploads) \cup Permutations(TwoDownloads)
===============================================================================
