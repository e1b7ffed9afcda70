---------------------------- MODULE ArmletAdapter ----------------------------
(***************************************************************************)
(* The 68K side of the native code (library/src/tls_armlet.c): finding and  *)
(* locking the ARMlet, qualifying it, switching it off, and the table that  *)
(* keeps the AES keys its GCM code is called with.  The operators take the  *)
(* file's statics as one record and return the record they leave behind;    *)
(* the statics live in the engine's data segment, so a freshly loaded       *)
(* engine starts from zeroed ones.                                          *)
(***************************************************************************)
EXTENDS PalmResources

CONSTANTS
    KeySlots,       \* PALM_TLS_ARMLET_AES_KEY_SLOTS
    ShortKeys,      \* 16-byte AES keys
    LongKeys        \* keys of another length

ASSUME KeyAssumption ==
    /\ KeySlots \in Nat
    /\ KeySlots >= 2 * SlotCount      \* two for each session
    /\ ShortKeys \cap LongKeys = {}

Keys == ShortKeys \cup LongKeys

(* wolfSSL's Aes objects: one for each direction of a session, and the one  *)
(* on the self-test's stack.                                                *)
Objects    == Slots \X {"send", "receive"}
TestObject == <<SlotCount, "test">>
Nobody     == <<SlotCount, "none">>

Owners == Objects \cup {TestObject, Nobody}

Statuses == {"Unavailable", "Passed", "Failed"}

(* key is a set: empty in a zeroed entry.                                   *)
KeyEntry == [owner: Owners, key: {{}} \cup {{k} : k \in ShortKeys}]

Adapter == [checked: BOOLEAN, enabled: BOOLEAN, chacha: BOOLEAN,
            status: Statuses, database: BOOLEAN, handle: BOOLEAN,
            entry: BOOLEAN, request: BOOLEAN,
            keys: [1..KeySlots -> KeyEntry]]

FreeEntry == [owner |-> Nobody, key |-> {}]

Zeroed == [checked |-> FALSE, enabled |-> FALSE, chacha |-> FALSE,
           status |-> "Unavailable", database |-> FALSE, handle |-> FALSE,
           entry |-> FALSE, request |-> FALSE,
           keys |-> [i \in 1..KeySlots |-> FreeEntry]]

-----------------------------------------------------------------------------
(* Initialising and shutting down.  A fate says how far the initialisation  *)
(* comes: the processor or the resources are missing, there is no memory    *)
(* for the request, or the known answers run, all of them right, only       *)
(* ChaCha's wrong, or any other wrong.                                      *)

Absent == {"NotArm", "NoDatabase", "NoResource", "NoHandle", "NoLock", "NoMemory"}
Fates  == Absent \cup {"Right", "ChaChaWrong", "Wrong"}

Qualified(a, fate) ==
    [a EXCEPT !.database = TRUE, !.handle = TRUE, !.entry = TRUE,
              !.request = TRUE,
              !.enabled = (fate # "Wrong"),
              !.chacha  = (fate = "Right"),
              !.status  = IF fate = "Wrong" THEN "Failed" ELSE "Passed"]

ArmletInitialize(a, w, fate) ==
    LET found  == [Zeroed EXCEPT !.checked = TRUE, !.keys = a.keys]
        opened == Acquire(w, Single("armletDb"))
        got    == Acquire(opened, Single("armlet"))
        locked == Acquire(got, Single("armletLock"))
        Closed(v)   == Release(v, Single("armletDb"))
        Released(v) == Closed(Release(v, Single("armlet")))
        Left(v)     == [adapter |-> found, world |-> v]
    IN  IF a.checked THEN [adapter |-> a, world |-> w]
        ELSE CASE fate \in {"NotArm", "NoDatabase"}   -> Left(w)
               [] fate \in {"NoResource", "NoHandle"} -> Left(Closed(opened))
               [] fate = "NoLock"                     -> Left(Released(got))
               [] fate = "NoMemory" ->
                      Left(Released(Release(locked, Single("armletLock"))))
               [] OTHER ->
                      [adapter |-> Qualified(found, fate),
                       world   |-> Acquire(locked, Single("armletRequest"))]

ArmletShutdown(a, w) ==
    LET freed    == ReleaseIf(w, a.request, Single("armletRequest"))
        unlocked == ReleaseIf(freed, a.entry, Single("armletLock"))
        released == ReleaseIf(unlocked, a.handle, Single("armlet"))
    IN  [adapter |-> Zeroed,
         world   |-> ReleaseIf(released, a.database, Single("armletDb"))]

ArmletDisable(a) ==
    [a EXCEPT !.status = IF @ = "Unavailable" THEN @ ELSE "Failed",
              !.enabled = FALSE, !.chacha = FALSE]

-----------------------------------------------------------------------------
(* AES-GCM keys.  wolfSSL hands over every key it sets and every object it  *)
(* frees; a record is sealed or opened natively when the object has an      *)
(* entry, and by wolfSSL when it has none.                                  *)

EntriesOf(a, object) == {i \in 1..KeySlots : a.keys[i].owner = object}

FirstOf(S) == CHOOSE i \in S : \A j \in S : i <= j

SetKey(a, object, key) ==
    LET free == EntriesOf(a, Nobody)
        mine == EntriesOf(a, object)
        from == IF mine # {} THEN mine ELSE free
    IN  IF key \notin ShortKeys \/ from = {} THEN a
        ELSE [a EXCEPT !.keys[FirstOf(from)] =
                  [owner |-> object, key |-> {key}]]

(* Mutant of FreeKey: an adapter that is switched off forgets nothing.      *)
FreeKeyEnabled(a, object) ==
    IF ~a.enabled \/ EntriesOf(a, object) = {} THEN a
    ELSE [a EXCEPT !.keys[FirstOf(EntriesOf(a, object))] = FreeEntry]

FreeKey(a, object) ==
    IF EntriesOf(a, object) = {} THEN a
    ELSE [a EXCEPT !.keys[FirstOf(EntriesOf(a, object))] = FreeEntry]

(* The key a record of this object is sealed with natively, if it is.       *)
NativeKey(a, object) ==
    IF a.enabled /\ a.request /\ EntriesOf(a, object) # {}
    THEN a.keys[FirstOf(EntriesOf(a, object))].key
    ELSE {}
=============================================================================
