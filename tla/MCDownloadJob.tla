----------------------------- MODULE MCDownloadJob -----------------------------
(***************************************************************************)
(* DownloadJob at a size TLC can search: see the README for the bounds.     *)
(***************************************************************************)
EXTENDS DownloadJob
=============================================================================
