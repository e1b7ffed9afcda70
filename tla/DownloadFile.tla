------------------------------ MODULE DownloadFile ------------------------------
(* What the download store promises: a file that is always the beginning of   *)
(* one version of what the server has, that grows, that may be started again  *)
(* while it is incomplete, that is complete only when whole and then stays    *)
(* until it is deleted, and that never needs repair.  Complete is what a      *)
(* response vouched for that gave the length or was chunked; a file that      *)
(* merely ended with its connection is never complete here.                   *)
EXTENDS Naturals, Sequences

CONSTANTS Versions, Length

VARIABLES present, content, complete

vars == <<present, content, complete>>

Beginning(v, n) == [i \in 1..n |-> <<v, i>>]

Init == present = FALSE /\ content = <<>> /\ complete = FALSE

Create ==
    /\ ~present
    /\ present' = TRUE
    /\ UNCHANGED <<content, complete>>

(* The file grows by the version it holds.  It may become complete when       *)
(* nothing is missing, and need not.                                          *)
Grow ==
    /\ present /\ ~complete
    /\ \E v \in Versions :
          /\ content = Beginning(v, Len(content))
          /\ \E n \in Len(content)..Length[v] :
                /\ content' = Beginning(v, n)
                /\ complete' \in {FALSE, n = Length[v]}
    /\ UNCHANGED present

StartAgain ==
    /\ present /\ ~complete
    /\ content' = <<>>
    /\ UNCHANGED <<present, complete>>

Delete ==
    /\ present' = FALSE
    /\ content' = <<>>
    /\ complete' = FALSE

Next == Create \/ Grow \/ StartAgain \/ Delete

Spec == Init /\ [][Next]_vars
=============================================================================
