---------------------------- MODULE DownloadTransfer ----------------------------
(***************************************************************************)
(* What the downloader promises of one transfer after another               *)
(* (apps/tls-tester/DOWNLOADER.md, "Event-loop integration"): it connects,  *)
(* sends a request, receives, and stores; a redirect starts it again from   *)
(* the connection, a bounded number of times; and however it ends, it ends  *)
(* with nothing open.                                                       *)
(***************************************************************************)
EXTENDS Naturals

CONSTANTS
    MaxRedirects,  \* DownloadClientConfig.maxRedirects
    Failures       \* the outcomes that may end a transfer at any point

VARIABLES
    phase,    \* where the transfer is
    hops,     \* redirects followed
    open,     \* whether it holds a connection
    outcome   \* how the last one ended

vars == <<phase, hops, open, outcome>>

Phases == {"idle", "connecting", "requesting", "receiving", "storing"}

TypeOK ==
    /\ phase \in Phases
    /\ hops \in 0..MaxRedirects
    /\ open \in BOOLEAN

Init == phase = "idle" /\ hops = 0 /\ ~open /\ outcome = "Ok"

Begin ==
    /\ phase = "idle"
    /\ phase' = "connecting"
    /\ ~open'
    /\ hops' = 0
    /\ outcome' = "None"

(* The application starts again, with no result to show.                    *)
Restart ==
    /\ phase = "idle"
    /\ outcome' = "Ok"
    /\ UNCHANGED <<phase, hops, open>>

(* A transfer that is refused, or has nothing left to do.                   *)
Refuse ==
    /\ phase = "idle"
    /\ hops' = 0
    /\ outcome' \in Failures \cup {"AlreadyComplete", "InvalidUrl"}
    /\ UNCHANGED <<phase, open>>

(* The connection is opened and established.                                *)
Connect ==
    /\ phase = "connecting"
    /\ open'
    /\ phase' \in {"connecting", "requesting"}
    /\ UNCHANGED <<hops, outcome>>

Request ==
    /\ phase = "requesting"
    /\ open
    /\ phase' = "receiving"
    /\ UNCHANGED <<hops, open, outcome>>

Redirect ==
    /\ phase = "receiving"
    /\ hops < MaxRedirects
    /\ hops' = hops + 1
    /\ phase' = "connecting"
    /\ ~open'
    /\ UNCHANGED outcome

Received ==
    /\ phase = "receiving"
    /\ phase' = "storing"
    /\ UNCHANGED <<hops, open, outcome>>

(* Only a transfer that has come this far ends well.                        *)
Store ==
    /\ phase = "storing"
    /\ phase' = "idle"
    /\ ~open'
    /\ outcome' \in {"Ok", "StorageError"}
    /\ hops' = 0

Fail ==
    /\ phase # "idle"
    /\ phase' = "idle"
    /\ ~open'
    /\ outcome' \in Failures
    /\ hops' = 0

Next ==
    \/ Begin \/ Restart \/ Refuse \/ Connect \/ Request \/ Redirect \/ Received
    \/ Store \/ Fail

Spec == Init /\ [][Next]_vars
=============================================================================
