------------------------- MODULE DownloadFileRefinement -------------------------
(* The download store implements DownloadFile.  An auxiliary variable follows *)
(* the device: the file that the next download would find on it, complete if  *)
(* its record says so on the word of a response that gave the length of the   *)
(* file or was chunked.                                                       *)
EXTENDS DownloadStore

VARIABLE file

FileOn(d) == [present  |-> d.exists,
              content  |-> IF Usable(d) THEN Recovered(d) ELSE None,
              complete |-> Usable(d) /\ RecoveredWhole(d)]

FollowedSpec ==
    /\ Init /\ file = FileOn(device)
    /\ [][Next /\ file' = FileOn(device')]_<<vars, file>>

File == INSTANCE DownloadFile WITH
            present <- file.present,
            content <- file.content,
            complete <- file.complete

(* DownloadStore* keep the promises of DownloadFile: one version at a time,   *)
(* complete on the word of a response only when whole (RecoversTruth says     *)
(* which responses give none), never in need of repair.                       *)
FileSpec == File!Spec

(* The environment in which they do.  The responses name the file alike (a    *)
(* 206 with another name is stored while the data goes on into the old file), *)
(* and none by the empty string, which counts as no name.  A data record can  *)
(* be had (an append counts one before its checksum), and no file is refused  *)
(* that is not open (an export may have left the data in one without a name). *)
(* No reset comes while a download starts again or an entry is deleted: both  *)
(* take the data away before the metadata.                                    *)
NamedAs(n) == IF n = None THEN DefaultName ELSE n

Calm ==
    /\ \A n1, n2 \in Names : NamedAs(n1) = NamedAs(n2)
    /\ NoName \notin Names
    /\ Faults \subseteq {"ShortWrite"}
    /\ ResetDuring \cap {"AcceptResponse", "DeleteUrl", "Delete"} = {}
=============================================================================
