---------------------------- MODULE MCDownloadStore ----------------------------
(* Instances of the download store for TLC.                                   *)
EXTENDS DownloadStore, TLC

CONSTANTS v1, v2

Lengths == v1 :> 7 @@ v2 :> 5
ShortLengths == v1 :> 4 @@ v2 :> 3

NoPage == {<<>>}
SomePage == {<<ErrorText>>}

(* Every operation; those that take nothing away before they commit; the one  *)
(* that starts a download again.                                              *)
Anywhere == Operations
Growing == {"Open", "Append", "MarkComplete", "Close", "ExportToVfs"}
Restarting == {"AcceptResponse"}
=============================================================================
