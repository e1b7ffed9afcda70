---------------------------- MODULE PalmResources ----------------------------
(***************************************************************************)
(* The Palm OS managers as the engine loader and the ARMlet adapter use     *)
(* them: everything they acquire from the database, resource and memory     *)
(* managers and from wolfSSL is a thing that is held until it is released,  *)
(* and a thing may stand on another.  Releasing what is not held, releasing *)
(* what something else still stands on, and acquiring a thing twice are     *)
(* misuses, which the ledger remembers.                                     *)
(*                                                                          *)
(* The work database is also a file: it has an identity, outlives a reset,  *)
(* and is deleted by that identity.                                         *)
(***************************************************************************)
EXTENDS Integers

CONSTANTS
    SegmentCount,   \* PALM_TLS_SEGMENT_COUNT
    SlotCount,      \* PALM_TLS_MAX_SESSIONS
    MaxCreated      \* bound on the work databases ever created

ASSUME CountAssumption ==
    /\ SegmentCount \in Nat \ {0}
    /\ SlotCount \in Nat \ {0}
    /\ MaxCreated \in Nat \ {0}

Segments == 0..(SegmentCount - 1)
Slots    == 0..(SlotCount - 1)

(* The last segment is a copy in dynamic memory, the others are resources   *)
(* of the work database.                                                    *)
Stored(s) == s + 1 < SegmentCount

Single(name) == <<name, 0>>

Things ==
    {Single(name) : name \in {"libraryDb", "workDb", "relocation",
                              "relocationLock", "wolfSSL", "armletDb",
                              "armlet", "armletLock", "armletRequest"}}
    \cup ({"resource", "resourceLock", "segment", "segmentLock"} \X Segments)
    \cup ({"context"} \X Slots)

(* What a thing stands on.                                                  *)
Base(x) ==
    CASE x[1] \in {"resource", "relocation"} -> {Single("libraryDb")}
      [] x[1] = "resourceLock"   -> {<<"resource", x[2]>>}
      [] x[1] = "segment"        -> IF Stored(x[2]) THEN {Single("workDb")}
                                    ELSE {}
      [] x[1] = "segmentLock"    -> {<<"segment", x[2]>>}
      [] x[1] = "relocationLock" -> {Single("relocation")}
      [] x[1] = "armlet"         -> {Single("armletDb")}
      [] x[1] = "armletLock"     -> {Single("armlet")}
      [] x[1] = "context"        -> {Single("wolfSSL")}
      [] OTHER                   -> {}

World == [held: SUBSET Things, work: 0..MaxCreated, created: 0..MaxCreated,
          stale: BOOLEAN, misused: BOOLEAN]

EmptyWorld == [held |-> {}, work |-> 0, created |-> 0,
               stale |-> FALSE, misused |-> FALSE]

Acquire(w, x) ==
    [w EXCEPT !.held = @ \cup {x},
              !.misused = @ \/ x \in w.held \/ ~(Base(x) \subseteq w.held)]

Release(w, x) ==
    [w EXCEPT !.held = @ \ {x},
              !.misused = @ \/ x \notin w.held
                            \/ \E y \in w.held : x \in Base(y)]

ReleaseIf(w, held, x) == IF held THEN Release(w, x) ELSE w

(* A loop that releases things of one kind, none of which stands on another. *)
ReleaseAll(w, S) ==
    [w EXCEPT !.held = @ \ S,
              !.misused = @ \/ ~(S \subseteq w.held)
                            \/ \E y \in w.held : Base(y) \cap S # {}]

(* Engine code runs in its segments, which must all be locked.              *)
Enter(w) ==
    [w EXCEPT !.misused = @ \/ \E s \in Segments :
                                   <<"segmentLock", s>> \notin w.held]

CreateWork(w) ==
    [w EXCEPT !.work = w.created + 1, !.created = @ + 1]

(* Deleting an identity that no longer exists fails and changes nothing.    *)
DeleteWork(w, id) ==
    IF id = 0 \/ id # w.work THEN w
    ELSE [w EXCEPT !.work = 0, !.stale = FALSE,
                   !.misused = @ \/ Single("workDb") \in w.held]

(* A soft reset: memory is lost with everything held in it, storage stays.  *)
SoftReset(w) == [w EXCEPT !.held = {}, !.stale = (w.work # 0)]
=============================================================================
