------------------------------ MODULE TlsEngine ------------------------------
(***************************************************************************)
(* One session slot of a loaded protocol engine                            *)
(* (library/src/tls_engine.c).  The slot is the PalmTlsEngineControl        *)
(* record; every operator below is one C function, taking the record the    *)
(* function is called on and returning the record it leaves behind.  What   *)
(* wolfSSL, NetLib and the memory manager answer is a parameter of the      *)
(* operator (a "fate"), chosen by the caller of the operator.               *)
(***************************************************************************)
EXTENDS Integers

CONSTANTS
    Hosts,          \* host names a session may be opened for
    TrustBytes,     \* trust-anchor byte strings a caller may pass
    MaxSessionId,   \* largest session ID; 65535 in the code (UInt16)
    None            \* the null pointer

Protocols   == {"tls11", "tls12", "tls13"}
VerifyModes == {"none", "peer", "ca"}

(* What a caller asks for: PalmTlsSessionOpenParams without the socket.     *)
Request == [host: Hosts, mode: VerifyModes, bytes: TrustBytes]

(* An owned trust configuration: verification mode and exact bytes.         *)
Trust == [mode: VerifyModes, bytes: TrustBytes \cup {None}]

(* A wolfSSL session (the ticket a later handshake may offer) belongs to    *)
(* the request and the engine it was negotiated under.                      *)
Origin == [request: Request, protocol: Protocols]

Options == {"resume", "cooperative", "profile", "noreuse"}

Statuses == {"Ok", "BadParameter", "NoMemory", "ResourceMissing",
             "RelocationFailed", "InitializationFailed",
             "ConfigurationFailed", "HandshakeFailed", "SendFailed",
             "ReceiveFailed", "ResponseTooLarge", "SinkFailed", "Busy",
             "WouldBlock", "Cancelled", "SelfTestFailed"}

Context == [host: Hosts, trust: Trust]
Resume  == [host: Hosts, trust: Trust, origin: Origin]
Session == [request: Request, store: Trust, ticket: Origin \cup {None},
            reusable: BOOLEAN, allowResume: BOOLEAN]
Profile == [id: 0..MaxSessionId, closed: BOOLEAN, status: Statuses]

(* The null pointer is none of the things a pointer leads to.               *)
ASSUME NoneIsNull ==
    None \notin TrustBytes \cup Origin \cup Context \cup Resume
               \cup Session \cup Profile

(***************************************************************************)
(* The slot.  heap counts the wolfSSL and trust objects the slot owns; it   *)
(* is not a field of the C structure but the state of the allocator, so it  *)
(* survives the structure being zeroed.                                     *)
(***************************************************************************)
Control == [initialized: BOOLEAN,
            phase:       {"free", "opening", "active"},
            id:          0..MaxSessionId,
            session:     Session \cup {None},
            context:     Context \cup {None},
            resume:      Resume \cup {None},
            profile:     Profile \cup {None},
            heap:        Int]

ZeroedControl(heap) ==
    [initialized |-> FALSE, phase |-> "free", id |-> 0, session |-> None,
     context |-> None, resume |-> None, profile |-> None, heap |-> heap]

IsLive(c) == c.phase # "free"

Objects(p) == IF p = None THEN 0 ELSE 1

-----------------------------------------------------------------------------
(* Releasing what the slot owns.                                            *)

FreeResume(c) ==
    [c EXCEPT !.resume = None, !.heap = @ - Objects(c.resume)]

FreeContext(c) ==
    [c EXCEPT !.context = None, !.heap = @ - Objects(c.context)]

FreeSsl(c) ==
    [c EXCEPT !.session = None, !.heap = @ - Objects(c.session)]

TrustOf(r) ==
    [mode |-> r.mode, bytes |-> IF r.mode = "none" THEN None ELSE r.bytes]

(* Mutant of SameTrust: the verification mode is not compared.              *)
SameTrustBytesOnly(t, r) == t.bytes = TrustOf(r).bytes

SameTrust(t, r) ==
    /\ t.mode = r.mode
    /\ t.bytes = TrustOf(r).bytes

-----------------------------------------------------------------------------
(* Closing.  kept says whether wolfSSL had a session worth keeping (with a  *)
(* ticket, in TLS 1.3) and the trust bytes could be copied.                 *)

(* Mutant of SaveResumeSession: the entry it replaces is not freed.         *)
SaveResumeSessionOver(c, protocol, kept) ==
    IF c.session = None \/ ~kept THEN c
    ELSE IF ~c.session.allowResume THEN c
    ELSE [c EXCEPT !.resume = [host   |-> c.session.request.host,
                               trust  |-> c.context.trust,
                               origin |-> [request  |-> c.session.request,
                                           protocol |-> protocol]],
                   !.heap = @ + 1]

SaveResumeSession(c, protocol, kept) ==
    IF c.session = None \/ ~kept THEN c
    ELSE IF ~c.session.allowResume THEN c
    ELSE [FreeResume(c) EXCEPT
            !.resume = [host   |-> c.session.request.host,
                        trust  |-> c.context.trust,
                        origin |-> [request  |-> c.session.request,
                                    protocol |-> protocol]],
            !.heap = @ + 1]

CloseProfile(profile) ==
    IF profile = None THEN None ELSE [profile EXCEPT !.closed = TRUE]

KeepsContext(c) == IF c.session = None THEN FALSE ELSE c.session.reusable

CloseSaving(c, protocol, kept) ==
    LET saved == FreeSsl(SaveResumeSession(c, protocol, kept))
        left  == IF KeepsContext(c) THEN saved ELSE FreeContext(saved)
    IN  [left EXCEPT !.id = 0, !.phase = "free", !.profile = CloseProfile(@)]

CloseDiscarding(c) ==
    [FreeResume(FreeContext(FreeSsl(c))) EXCEPT
        !.id = 0, !.phase = "free", !.profile = CloseProfile(@)]

Shutdown(c) == FreeContext(FreeResume(CloseDiscarding(c)))

-----------------------------------------------------------------------------
(* Opening.                                                                 *)

ProfileStart(id, options, protocol) ==
    IF protocol = "tls13" /\ "profile" \in options
    THEN [id |-> id, closed |-> FALSE, status |-> "Ok"]
    ELSE None

Reusable(options, protocol) == protocol = "tls13" /\ "noreuse" \notin options

ContextMatches(c, r) ==
    IF c.context = None THEN FALSE
    ELSE c.context.host = r.host /\ SameTrust(c.context.trust, r)

(* The context the session runs on: the cached one when it is exactly the   *)
(* one asked for, a fresh one otherwise.                                    *)
ConfigureContext(c, r, options, protocol) ==
    IF Reusable(options, protocol) /\ ContextMatches(c, r) THEN c
    ELSE [FreeContext(c) EXCEPT
            !.context = [host |-> r.host, trust |-> TrustOf(r)],
            !.heap = @ + 1]

ResumeMatches(c, r) ==
    IF c.resume = None THEN FALSE
    ELSE c.resume.host = r.host /\ SameTrust(c.resume.trust, r)

(* The cached entry is dropped when it belongs to another peer, and when    *)
(* wolfSSL refuses it (accepted is FALSE).                                  *)
FilterResume(c, r, options, accepted) ==
    IF ResumeMatches(c, r) /\ ("resume" \in options => accepted)
    THEN c ELSE FreeResume(c)

Ticket(c, options) ==
    IF "resume" \in options /\ c.resume # None THEN c.resume.origin ELSE None

AttachSession(c, r, options, protocol, id) ==
    [c EXCEPT !.session = [request |-> r, store |-> c.context.trust,
                           ticket |-> Ticket(c, options),
                           reusable |-> Reusable(options, protocol),
                           allowResume |-> "resume" \in options],
              !.heap = @ + 1, !.id = id, !.phase = "opening"]

(* One wolfSSL_connect call: done, pending (WANT_READ or WANT_WRITE) or     *)
(* failed.  Pending is terminal for a caller that did not ask for           *)
(* cooperative steps.                                                       *)
Handshakes == {"done", "pending", "failed"}

ContinueHandshake(c, cooperative, handshake) ==
    IF handshake = "done"
    THEN [control |-> [c EXCEPT !.phase = "active"], status |-> "Ok"]
    ELSE IF handshake = "pending" /\ cooperative
    THEN [control |-> c, status |-> "WouldBlock"]
    ELSE [control |-> CloseDiscarding(c), status |-> "HandshakeFailed"]

Configured(c, r, options, protocol, id) ==
    ConfigureContext([c EXCEPT !.profile = ProfileStart(id, options, protocol)],
                     r, options, protocol)

(* An open that fails before the handshake: no context, trust bytes that    *)
(* cannot be copied or parsed, no SSL object, key share, SNI or host check. *)
(* Each of these returns through CloseSession(controlP, false), and what    *)
(* was built up to that point is released with the rest of the slot.        *)
OpenSetupFails(c, r, options, protocol, id) ==
    CloseDiscarding(Configured(c, r, options, protocol, id))

(* An open that reaches wolfSSL_connect.                                    *)
OpenSession(c, r, options, protocol, id, accepted, handshake) ==
    ContinueHandshake(
        AttachSession(
            FilterResume(Configured(c, r, options, protocol, id),
                         r, options, accepted),
            r, options, protocol, id),
        "cooperative" \in options, handshake)

(* Every command but the profile query leaves its status in the profiler.   *)
RecordStatus(c, status) ==
    IF c.profile = None THEN c ELSE [c EXCEPT !.profile.status = status]
=============================================================================
