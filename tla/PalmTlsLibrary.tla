---------------------------- MODULE PalmTlsLibrary ----------------------------
(***************************************************************************)
(* The PalmTLS shared library as its callers see it: the trap layer         *)
(* (library/src/palm_library.c), the engine loader and dispatcher           *)
(* (library/src/tls_loader.c) and the session slots (TlsEngine).            *)
(*                                                                          *)
(* Palm OS serialises traps, so one trap is one action.  Several            *)
(* applications share the library: any call may be followed by any other    *)
(* caller's, with any session ID, its own, a stale one or a stranger's.     *)
(***************************************************************************)
EXTENDS TlsEngine, FiniteSets

CONSTANTS
    MaxSessions,    \* session slots, PALM_TLS_MAX_CONCURRENT_SESSIONS
    Installed,      \* protocol engines packaged in the installed PRC
    ArmDevice,      \* TRUE when the ARM PRC runs on a supported processor
    Requests,       \* the requests callers make
    OptionSets,     \* the option combinations callers pass
    Faults,         \* failures the environment may inject
    MaxOpens        \* bound on outstanding library opens

Slots == 0..(MaxSessions - 1)
SessionIds == 1..MaxSessionId

(* At most two IDs per slot are reserved when NextSessionId runs.           *)
ASSUME SizeAssumption ==
    /\ MaxSessions \in Nat \ {0}
    /\ MaxSessionId \in Nat
    /\ MaxSessionId > 2 * MaxSessions
    /\ MaxOpens \in Nat \ {0}

ASSUME InputAssumption ==
    /\ Installed \subseteq Protocols
    /\ Installed # {}
    /\ ArmDevice \in BOOLEAN
    /\ Requests \subseteq Request
    /\ OptionSets \subseteq SUBSET Options
    /\ Faults \subseteq Statuses

VARIABLES
    openCount,      \* PalmTlsLibraryState.openCount; 0 means no globals
    nextSessionId,  \* PalmTlsLibraryState.nextSessionId
    armStatus,      \* PalmTlsLibraryState.armStatus: last self-test verdict
    engine,         \* the loaded engine and its native-math state
    control,        \* PalmTlsLoadedEngine.controls
    reply           \* what the last trap returned

vars == <<openCount, nextSessionId, armStatus, engine, control, reply>>

ArmStatuses == {"Unavailable", "Passed", "Failed"}

Engine == [loaded: BOOLEAN, protocol: Protocols,
           armStatus: ArmStatuses, hook: BOOLEAN]

Operations == {"LibOpen", "LibClose", "Purge", "SelfTest", "Exchange", "Open",
               "Handshake", "Write", "Read", "Close", "Cancel"}

Reply == [op: Operations, id: 0..MaxSessionId, status: Statuses]

Return(op, id, status) == reply' = [op |-> op, id |-> id, status |-> status]

(* A zeroed engine names protocol 0, which is TLS 1.2.                      *)
NoEngine == [loaded |-> FALSE, protocol |-> "tls12",
             armStatus |-> "Unavailable", hook |-> FALSE]

Init ==
    /\ openCount = 0
    /\ nextSessionId = 0
    /\ armStatus = "Unavailable"
    /\ engine = NoEngine
    /\ control = [s \in Slots |-> ZeroedControl(0)]
    /\ reply = [op |-> "LibClose", id |-> 0, status |-> "Ok"]

-----------------------------------------------------------------------------
(* Session IDs.                                                             *)

(* Mutant of Reserved: closed profiles are forgotten.                       *)
ReservedLive(c) == {c[s].id : s \in Slots}

Reserved(c) ==
    {c[s].id : s \in Slots}
    \cup {c[s].profile.id : s \in {t \in Slots : c[t].profile # None}}

(* How many increments of the wrapping generator lead from n to i.          *)
Distance(n, i) == IF i > n THEN i - n ELSE i + MaxSessionId - n

(* Mutant of NextSessionId: the generator never wraps.                      *)
NextSessionIdUnwrapped(n, c) == n + 1

NextSessionId(n, c) ==
    CHOOSE i \in SessionIds \ Reserved(c) :
        \A j \in SessionIds \ Reserved(c) : Distance(n, i) <= Distance(n, j)

-----------------------------------------------------------------------------
(* Loading and dropping the engine.                                         *)

AnyLive(c) == \E s \in Slots : IsLive(c[s])

(* Mutants of FreeSlots: an opening slot is taken for free; a slot whose    *)
(* closed profile can still be queried is taken for used.                   *)
FreeSlotsOpening(c) == {s \in Slots : c[s].phase # "active"}
FreeSlotsUnprofiled(c) ==
    {s \in Slots : ~IsLive(c[s]) /\ c[s].profile = None}

FreeSlots(c) == {s \in Slots : ~IsLive(c[s])}

FirstOf(S) == CHOOSE s \in S : \A t \in S : s <= t

UnloadedControls(e, c) ==
    [s \in Slots |->
        ZeroedControl(IF e.loaded THEN Shutdown(c[s]).heap ELSE c[s].heap)]

(* A load fails at one of its steps, or ends with a verdict on native math: *)
(* no ARMlet, known answers wrong, or known answers right.                  *)
Verdicts == IF ArmDevice THEN ArmStatuses ELSE {"Unavailable"}

LoadFaults == {"ResourceMissing", "NoMemory", "RelocationFailed",
               "InitializationFailed"} \cap Faults

Loads(protocol) ==
    IF engine.loaded /\ engine.protocol = protocol THEN {"NotNeeded"}
    ELSE IF protocol \notin Installed THEN {"ResourceMissing"}
    ELSE LoadFaults \cup Verdicts

(* Mutant of LoadedEngine: the library's own verdict is not passed on.      *)
LoadedEngineAfresh(protocol, arm, verdict) ==
    [loaded |-> TRUE, protocol |-> protocol, armStatus |-> verdict,
     hook |-> verdict = "Passed"]

LoadedEngine(protocol, arm, verdict) ==
    [loaded |-> TRUE, protocol |-> protocol,
     armStatus |-> IF arm = "Failed" /\ verdict # "Unavailable"
                   THEN "Failed" ELSE verdict,
     hook |-> verdict = "Passed" /\ arm # "Failed"]

ZeroedControls(c) == [s \in Slots |-> ZeroedControl(c[s].heap)]

LoadEngine(c, protocol, arm, load) ==
    IF load \in ArmStatuses
    THEN [ready |-> TRUE, status |-> "Ok",
          engine |-> LoadedEngine(protocol, arm, load),
          control |-> [ZeroedControls(c) EXCEPT ![0].initialized = TRUE]]
    ELSE [ready |-> FALSE, status |-> load,
          engine |-> NoEngine, control |-> ZeroedControls(c)]

(* Mutant of Prepare: an engine in use is replaced all the same.            *)
PrepareUnasked(e, c, protocol, arm, load) ==
    IF e.loaded /\ e.protocol = protocol
    THEN [ready |-> TRUE, status |-> "BadParameter",
          engine |-> e, control |-> c]
    ELSE LoadEngine(UnloadedControls(e, c), protocol, arm, load)

(* The head of PalmTlsExecute.  When it is ready, status is what the        *)
(* command finds in the result if it returns without reaching the engine.   *)
Prepare(e, c, protocol, arm, load) ==
    IF e.loaded /\ e.protocol = protocol
    THEN [ready |-> TRUE, status |-> "BadParameter",
          engine |-> e, control |-> c]
    ELSE IF e.loaded /\ AnyLive(c)
    THEN [ready |-> FALSE, status |-> "Busy", engine |-> e, control |-> c]
    ELSE LoadEngine(UnloadedControls(e, c), protocol, arm, load)

-----------------------------------------------------------------------------
(* Library lifecycle.                                                       *)

LibOpen ==
    /\ openCount < MaxOpens
    /\ openCount' = openCount + 1
    /\ Return("LibOpen", 0, "Ok")
    /\ UNCHANGED <<nextSessionId, armStatus, engine, control>>

LibCloseShared ==
    /\ openCount > 1
    /\ openCount' = openCount - 1
    /\ Return("LibClose", 0, "Ok")
    /\ UNCHANGED <<nextSessionId, armStatus, engine, control>>

(* The last close releases the engine and the globals.                      *)
LibCloseLast ==
    /\ openCount = 1
    /\ openCount' = 0
    /\ nextSessionId' = 0
    /\ armStatus' = "Unavailable"
    /\ engine' = NoEngine
    /\ control' = UnloadedControls(engine, control)
    /\ Return("LibClose", 0, "Ok")

PurgeCache ==
    /\ openCount > 0
    /\ engine' = NoEngine
    /\ control' = UnloadedControls(engine, control)
    /\ Return("Purge", 0, "Ok")
    /\ UNCHANGED <<openCount, nextSessionId, armStatus>>

-----------------------------------------------------------------------------
(* Opening a session, and the one-shot exchange.                            *)

Acquire(c) == [c EXCEPT !.initialized = TRUE]

SetupFaults == {"NoMemory", "ConfigurationFailed"} \cap Faults

RunnableHandshakes ==
    IF "HandshakeFailed" \in Faults THEN Handshakes ELSE {"done", "pending"}

(* PalmTlsExecute up to the slot: a load that fails, an engine that is in   *)
(* use or no free slot ends the trap.                                       *)
OpenRejected(op, prep) ==
    /\ ~prep.ready \/ FreeSlots(prep.control) = {}
    /\ control' = prep.control
    /\ Return(op, 0, IF prep.ready THEN "Busy" ELSE prep.status)

OpenSetupFailed(op, prep, r, options, id) ==
    /\ prep.ready
    /\ FreeSlots(prep.control) # {}
    /\ \E status \in SetupFaults :
        LET slot == FirstOf(FreeSlots(prep.control)) IN
        /\ control' = [prep.control EXCEPT
             ![slot] = RecordStatus(OpenSetupFails(Acquire(@), r, options,
                                        prep.engine.protocol, id), status)]
        /\ Return(op, 0, status)

SessionStarted(prep, r, options, id) ==
    /\ prep.ready
    /\ FreeSlots(prep.control) # {}
    /\ \E accepted \in BOOLEAN, handshake \in RunnableHandshakes :
        LET slot == FirstOf(FreeSlots(prep.control))
            ran  == OpenSession(Acquire(prep.control[slot]), r, options,
                        prep.engine.protocol, id, accepted, handshake)
        IN  /\ control' = [prep.control EXCEPT
                  ![slot] = RecordStatus(ran.control, ran.status)]
            /\ Return("Open", id, ran.status)

(* An open that asks for this protocol.                                     *)
SessionOpenOn(protocol) ==
    \E r \in Requests, options \in OptionSets, load \in Loads(protocol) :
        LET prep == Prepare(engine, control, protocol, armStatus, load) IN
        /\ engine' = prep.engine
        /\ \/ OpenRejected("Open", prep)
           \/ OpenSetupFailed("Open", prep, r, options, nextSessionId')
           \/ SessionStarted(prep, r, options, nextSessionId')

SessionOpen ==
    /\ openCount > 0
    /\ nextSessionId' = NextSessionId(nextSessionId, control)
    /\ \E protocol \in Installed : SessionOpenOn(protocol)
    /\ UNCHANGED <<openCount, armStatus>>

ExchangeOptions == {"resume"}

TransferResults == {"Ok"} \cup ({"SendFailed", "ReceiveFailed", "NoMemory",
                                 "SinkFailed", "ResponseTooLarge"} \cap Faults)

(* The exchange of PalmTlsLibExchange and PalmTlsLibExchangeStream: open,   *)
(* write, read to the end or the limit, and close, whatever the transfer    *)
(* came to.  A handshake that does not finish ends it at the open.          *)
Exchanged(prep, r, id) ==
    /\ prep.ready
    /\ FreeSlots(prep.control) # {}
    /\ \E accepted \in BOOLEAN, kept \in BOOLEAN,
          handshake \in RunnableHandshakes, transfer \in TransferResults :
        LET slot == FirstOf(FreeSlots(prep.control))
            ran  == OpenSession(Acquire(prep.control[slot]), r,
                        ExchangeOptions, prep.engine.protocol, id, accepted,
                        handshake)
            shut == CloseSaving(ran.control, prep.engine.protocol, kept)
        IN  IF ran.status # "Ok"
            THEN /\ control' = [prep.control EXCEPT ![slot] = ran.control]
                 /\ Return("Exchange", 0, ran.status)
            ELSE /\ control' = [prep.control EXCEPT ![slot] = shut]
                 /\ Return("Exchange", 0, transfer)

(* An exchange that asks for this protocol.                                 *)
ExchangeOn(protocol) ==
    \E r \in Requests, load \in Loads(protocol) :
        LET prep == Prepare(engine, control, protocol, armStatus, load) IN
        /\ engine' = prep.engine
        /\ \/ OpenRejected("Exchange", prep)
           \/ OpenSetupFailed("Exchange", prep, r, ExchangeOptions, nextSessionId')
           \/ Exchanged(prep, r, nextSessionId')

Exchange ==
    /\ openCount > 0
    /\ nextSessionId' = NextSessionId(nextSessionId, control)
    /\ \E protocol \in Installed : ExchangeOn(protocol)
    /\ UNCHANGED <<openCount, armStatus>>

-----------------------------------------------------------------------------
(* Calls on a session ID.                                                   *)

(* Mutant of Holder: slots are searched by profile, as the query does.      *)
HolderByProfile(c, id) ==
    {s \in Slots : IF c[s].profile = None THEN IsLive(c[s]) /\ c[s].id = id
                   ELSE c[s].profile.id = id}

Holder(c, id) == {s \in Slots : IsLive(c[s]) /\ c[s].id = id}

(* No slot holds the ID: the trap returns what PalmTlsExecute left in the   *)
(* result before it looked for the slot.                                    *)
NoSuchSession(op, id, prep) ==
    /\ ~prep.ready \/ Holder(prep.control, id) = {}
    /\ control' = prep.control
    /\ Return(op, id, prep.status)

(* The engine ran the command on the slot that holds the ID.                *)
SlotRan(op, id, slot, c, status) ==
    /\ control' = [control EXCEPT ![slot] = RecordStatus(c, status)]
    /\ Return(op, id, status)

SessionHandshake(id) ==
    /\ openCount > 0
    /\ \E load \in Loads(engine.protocol) :
        LET prep == Prepare(engine, control, engine.protocol, armStatus, load)
        IN  /\ engine' = prep.engine
            /\ \/ NoSuchSession("Handshake", id, prep)
               \/ \E slot \in Holder(prep.control, id),
                     handshake \in RunnableHandshakes :
                    LET c   == prep.control[slot]
                        ran == ContinueHandshake(c, TRUE, handshake)
                    IN  IF c.phase = "opening"
                        THEN SlotRan("Handshake", id, slot, ran.control,
                                     ran.status)
                        ELSE SlotRan("Handshake", id, slot, c, "BadParameter")
    /\ UNCHANGED <<openCount, nextSessionId, armStatus>>

IoResults(op) ==
    {"Ok", "WouldBlock"}
    \cup ((IF op = "Write" THEN {"SendFailed"} ELSE {"ReceiveFailed"})
          \cap Faults)

(* PalmTlsLibSessionWrite and PalmTlsLibSessionRead.  A failed transfer     *)
(* leaves the session as it is: its caller has to close or cancel it.       *)
SessionIo(op, id) ==
    /\ openCount > 0
    /\ \E load \in Loads(engine.protocol) :
        LET prep == Prepare(engine, control, engine.protocol, armStatus, load)
        IN  /\ engine' = prep.engine
            /\ \/ NoSuchSession(op, id, prep)
               \/ \E slot \in Holder(prep.control, id),
                     status \in IoResults(op) :
                    IF prep.control[slot].phase = "active"
                    THEN SlotRan(op, id, slot, prep.control[slot], status)
                    ELSE SlotRan(op, id, slot, prep.control[slot],
                                 "BadParameter")
    /\ UNCHANGED <<openCount, nextSessionId, armStatus>>

(* Close and cancel look for a loaded engine first and never load one.      *)
SessionClose(id) ==
    /\ openCount > 0
    /\ \/ /\ Holder(control, id) = {}
          /\ control' = control
          /\ Return("Close", id, "BadParameter")
       \/ \E slot \in Holder(control, id), kept \in BOOLEAN :
            IF control[slot].phase = "active"
            THEN SlotRan("Close", id, slot,
                         CloseSaving(control[slot], engine.protocol, kept),
                         "Ok")
            ELSE SlotRan("Close", id, slot, control[slot], "BadParameter")
    /\ UNCHANGED <<openCount, nextSessionId, armStatus, engine>>

SessionCancel(id) ==
    /\ openCount > 0
    /\ \/ /\ Holder(control, id) = {}
          /\ control' = control
          /\ Return("Cancel", id, "BadParameter")
       \/ \E slot \in Holder(control, id) :
            SlotRan("Cancel", id, slot, CloseDiscarding(control[slot]),
                    "Cancelled")
    /\ UNCHANGED <<openCount, nextSessionId, armStatus, engine>>

-----------------------------------------------------------------------------
(* The offline self-test.                                                   *)

(* PalmTlsExecute with the self-test command on one protocol engine; right  *)
(* says whether the handshake-math vectors come out right on native code.   *)
RunOfflineSelfTest(e, c, protocol, arm, load, right) ==
    LET prep    == Prepare(e, c, protocol, arm, load)
        verdict == IF prep.engine.armStatus = "Passed" /\ ~right
                   THEN "Failed" ELSE prep.engine.armStatus
        status  == IF verdict = "Passed" THEN "Ok" ELSE "SelfTestFailed"
    IN  IF ~prep.ready
        THEN [engine |-> prep.engine, control |-> prep.control,
              status |-> prep.status, armStatus |-> "Unavailable"]
        ELSE IF AnyLive(prep.control)
        THEN [engine |-> prep.engine, control |-> prep.control,
              status |-> "Busy", armStatus |-> "Unavailable"]
        ELSE [engine  |-> [prep.engine EXCEPT !.armStatus = verdict,
                               !.hook = @ /\ verdict = "Passed"],
              control |-> [prep.control EXCEPT ![0] = RecordStatus(@, status)],
              status  |-> status, armStatus |-> verdict]

Tested(test) ==
    /\ engine' = test.engine
    /\ control' = test.control
    /\ armStatus' = test.armStatus
    /\ Return("SelfTest", 0, test.status)

(* TLS 1.2 is tested first; TLS 1.3 follows unless TLS 1.2 did not pass.    *)
RunSelfTest ==
    /\ openCount > 0
    /\ "tls12" \in Installed \/ "tls13" \in Installed
    /\ IF "tls12" \notin Installed
       THEN \E load \in Loads("tls13"), right \in BOOLEAN :
                Tested(RunOfflineSelfTest(engine, control, "tls13",
                                          armStatus, load, right))
       ELSE \E load \in Loads("tls12"), right \in BOOLEAN :
                LET first == RunOfflineSelfTest(engine, control, "tls12",
                                                armStatus, load, right) IN
                IF "tls13" \in Installed /\ first.status = "Ok"
                THEN \E next \in LoadFaults \cup Verdicts, also \in BOOLEAN :
                        Tested(RunOfflineSelfTest(first.engine, first.control,
                                   "tls13", first.armStatus, next, also))
                ELSE Tested(first)
    /\ UNCHANGED <<openCount, nextSessionId>>

-----------------------------------------------------------------------------
Next ==
    \/ LibOpen \/ LibCloseShared \/ LibCloseLast \/ PurgeCache
    \/ SessionOpen \/ Exchange \/ RunSelfTest
    \/ \E id \in SessionIds :
        \/ SessionHandshake(id)
        \/ SessionIo("Write", id) \/ SessionIo("Read", id)
        \/ SessionClose(id) \/ SessionCancel(id)

Spec == Init /\ [][Next]_vars

-----------------------------------------------------------------------------
(* What holds of every slot between two traps; p is the protocol of the     *)
(* loaded engine.                                                           *)

(* A slot is in use exactly while it has a session, an ID and a context     *)
(* under them; a profile taken of the session bears its ID.                 *)
SlotShape(c) ==
    /\ IsLive(c) <=> c.session # None
    /\ IsLive(c) <=> c.id # 0
    /\ IsLive(c) => /\ c.context # None
                    /\ c.profile # None => c.profile.id = c.id

SlotBalanced(c) ==
    c.heap = Objects(c.session) + Objects(c.context) + Objects(c.resume)

(* The session's store is the one asked for and its ticket fits; a saved    *)
(* entry says truly where its ticket comes from.                            *)
SessionExact(session, p) ==
    /\ session.store = TrustOf(session.request)
    /\ session.ticket # None =>
         /\ session.ticket.protocol = p
         /\ session.ticket.request.host = session.request.host
         /\ TrustOf(session.ticket.request) = TrustOf(session.request)

ResumeExact(resume, p) ==
    /\ resume.host = resume.origin.request.host
    /\ resume.trust = TrustOf(resume.origin.request)
    /\ resume.origin.protocol = p

SlotExact(c, p) ==
    /\ c.session # None => /\ SessionExact(c.session, p)
                           /\ c.context.trust = c.session.store
    /\ c.resume # None => ResumeExact(c.resume, p)

SlotOK(c, p) ==
    c \in Control /\ SlotShape(c) /\ SlotBalanced(c) /\ SlotExact(c, p)

Blank(c) == /\ c.session = None /\ c.context = None
            /\ c.resume = None /\ c.profile = None

(* No two slots share an ID, live or kept in a profile.                     *)
IdsApart(c) ==
    \A s, t \in Slots : s # t =>
        /\ IsLive(c[s]) /\ IsLive(c[t]) => c[s].id # c[t].id
        /\ IsLive(c[s]) /\ c[t].profile # None => c[s].id # c[t].profile.id
        /\ c[s].profile # None /\ c[t].profile # None
             => c[s].profile.id # c[t].profile.id

SlotsOK(e, c) ==
    /\ e \in Engine
    /\ c \in [Slots -> Control]
    /\ \A s \in Slots : SlotOK(c[s], e.protocol)
    /\ ~e.loaded => \A s \in Slots : Blank(c[s])
    /\ IdsApart(c)

(* The invariant the theorems rest on (PalmTlsLibraryProofs): the caches of *)
(* every slot are what their labels say, also while no session uses them,   *)
(* and nothing is left of an engine that is gone.                           *)
Consistent ==
    /\ openCount \in 0..MaxOpens
    /\ nextSessionId \in 0..MaxSessionId
    /\ armStatus \in ArmStatuses
    /\ reply \in Reply
    /\ SlotsOK(engine, control)

-----------------------------------------------------------------------------
(* Properties.                                                              *)

(* Every variable, down to the fields of the slots, keeps its type.         *)
TypeOK ==
    /\ openCount \in 0..MaxOpens
    /\ nextSessionId \in 0..MaxSessionId
    /\ armStatus \in ArmStatuses
    /\ engine \in Engine
    /\ control \in [Slots -> Control]
    /\ reply \in Reply

(* A session ID leads to one thing: across wrap-around of the generator, no *)
(* two slots share an ID, counting the live session of one and the closed   *)
(* but still queryable profile of another (NextSessionId's promise), and    *)
(* the profile of a live slot is that session's own.                        *)
IdsUnambiguous ==
    /\ IdsApart(control)
    /\ \A s \in Slots : IsLive(control[s]) =>
         /\ control[s].id # 0
         /\ control[s].profile # None =>
              control[s].profile.id = control[s].id

(* A session runs on the trust store that was asked for, and the ticket it  *)
(* offers was negotiated by the same engine with the same host under the    *)
(* same mode and exact trust bytes, however many sessions used the slot     *)
(* before (ConfigureContext, the check in OpenSession, SaveResumeSession).  *)
ExactReuse ==
    \A s \in Slots : IsLive(control[s]) =>
        SessionExact(control[s].session, engine.protocol)

(* What is allocated is what the slots point to: no path through close,     *)
(* cancel, a failing open, a swap of engines or a purge leaks an object or  *)
(* frees one twice, and an idle library without an engine owns nothing.     *)
HeapBalanced == \A s \in Slots : SlotBalanced(control[s])

(* A self-test verdict against native math holds for the engine loaded now, *)
(* whichever engine was tested.                                             *)
ArmFallback == armStatus = "Failed" => ~engine.hook

(* A live session is ended only by a call that names it or takes the whole  *)
(* engine away; until then it keeps its ID, its request, its trust and its  *)
(* engine, whatever other callers do in between.                            *)
EndsSession(s) ==
    \/ reply'.op \in {"Purge", "LibClose"} /\ engine' = NoEngine
    \/ reply'.op \in {"Close", "Cancel", "Handshake"}
       /\ reply'.id = control[s].id

LiveSessionUndisturbed ==
    [][\A s \in Slots : IsLive(control[s]) =>
        \/ /\ control'[s].id = control[s].id
           /\ control'[s].session = control[s].session
           /\ control'[s].context = control[s].context
           /\ control[s].phase = "active" => control'[s].phase = "active"
           /\ engine'.loaded /\ engine'.protocol = engine.protocol
        \/ EndsSession(s) /\ ~IsLive(control'[s])]_vars

Full == \A s \in Slots : IsLive(control[s])
LiveAs(c, id) == \E s \in Slots : IsLive(c[s]) /\ c[s].id = id

(* An open or an exchange is told Busy when every slot has a session, and   *)
(* otherwise only when sessions of another protocol than the one it asks    *)
(* for are alive; nothing else is told Busy while nobody is.                *)
BusyIsTrue ==
    /\ reply'.op \in {"Open", "Exchange"} /\ Full => reply'.status = "Busy"
    /\ reply'.status = "Busy" => AnyLive(control)
    /\ reply'.status = "Busy" =>
         \A protocol \in Installed :
            SessionOpenOn(protocol) \/ ExchangeOn(protocol)
              => Full \/ engine.protocol # protocol

(* A call that ends the session it names.                                   *)
EndingCall ==
    \/ reply'.op = "Cancel"
    \/ reply'.op = "Close" /\ reply'.status = "Ok"
    \/ reply'.op = "Handshake" /\ reply'.status = "HandshakeFailed"

(* A slot is taken only by an open that succeeds or goes on, under the ID   *)
(* its caller is told; a close, a cancel, a handshake that fails and a      *)
(* purge give back what they end.                                           *)
SlotsComeBack ==
    /\ \A s \in Slots : ~IsLive(control[s]) /\ IsLive(control'[s]) =>
         /\ reply'.op = "Open" /\ reply'.status \in {"Ok", "WouldBlock"}
         /\ reply'.id = control'[s].id
    /\ EndingCall => ~LiveAs(control', reply'.id)
    /\ reply'.op = "Purge" => ~AnyLive(control')

(* Busy means that the library is in use, and no slot is lost: not to an    *)
(* open that fails at any of its steps, an exchange, a close, a cancel, a   *)
(* handshake that fails or a purge (FindFreeSession, CloseSession).         *)
BusyMeansInUse == [][BusyIsTrue /\ SlotsComeBack]_vars

(* The slot an open or an exchange is given: the first free one.            *)
Taken(s) ==
    /\ reply'.op \in {"Open", "Exchange"} /\ reply'.status # "Busy"
    /\ \A t \in Slots : t < s => IsLive(control[t])

(* The profile of a closed session stays what it was until its own slot is  *)
(* given to a new session, when it goes or becomes that session's, or until *)
(* its engine goes.                                                         *)
ProfileKept(s) ==
    \/ control'[s].profile = control[s].profile
    \/ ~engine'.loaded \/ engine'.protocol # engine.protocol
    \/ Taken(s) /\ (control'[s].profile # None => control'[s].profile.id = nextSessionId')

(* API.md: "A closed profile is immutable."  The exception is the           *)
(* self-test, which writes its own status into the profile of slot 0.       *)
ClosedProfileKept ==
    [][\A s \in Slots :
        (/\ control[s].profile # None /\ ~IsLive(control[s])
         /\ reply'.op # "SelfTest") => ProfileKept(s)]_vars

(* API.md on reading: "A successful zero-byte read is clean TLS EOF."  So a *)
(* read that succeeds under an ID the library has given out comes from a    *)
(* session that is there to be read, and not from one a purge has ended.    *)
EofIsFromTheSession ==
    [][reply'.op = "Read" /\ reply'.status = "Ok" /\ reply'.id <= nextSessionId
        => Holder(control, reply'.id) # {}]_vars

(* The sessions a caller can tell apart.                                    *)
LiveSessions ==
    {[id |-> control[s].id, phase |-> control[s].phase,
      protocol |-> engine.protocol] : s \in {t \in Slots : IsLive(control[t])}}

Service == INSTANCE TlsSessionService WITH sessions <- LiveSessions

(* The library implements the session service.                              *)
ServiceSpec == Service!Spec
=============================================================================
