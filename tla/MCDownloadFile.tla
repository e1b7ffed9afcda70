----------------------------- MODULE MCDownloadFile -----------------------------
(* Instances for TLC of the download store with the file it implements.       *)
EXTENDS MCDownloadStore, DownloadFileRefinement

(* The instance is one of those the theorems are about.                       *)
ASSUME InstanceIsCalm == Calm /\ ErrorPages \subseteq {<<>>}
=============================================================================
