------------------------------ MODULE DownloadJob ------------------------------
(***************************************************************************)
(* The tester's cooperative download: the job of download_client.c, stepped *)
(* by the event loop of main.c, over NetLib, one PalmTLS session, a clock    *)
(* that wraps and a server that answers, redirects, stalls or goes away.    *)
(*                                                                          *)
(* What the application holds of the platform is a ledger, world: each call *)
(* that takes, uses or gives back a resource checks that it may be made.    *)
(***************************************************************************)
EXTENDS Naturals

CONSTANTS
    MaxRedirects,   \* DownloadClientConfig.maxRedirects
    RequestLength,  \* requestLength in units
    MaxUnits,       \* bound on the units of one response
    Timeout,        \* operationTimeoutTicks
    StepTicks,      \* bound on the ticks one step takes
    MaxGap,         \* bound on the ticks between two steps
    Word            \* 2^32, where the tick counter wraps

ASSUME JobAssumption ==
    /\ {MaxRedirects, StepTicks, MaxGap} \subseteq Nat
    /\ {RequestLength, MaxUnits, Timeout, Word} \subseteq Nat \ {0}
    /\ Timeout + 2 * (MaxGap + StepTicks) <= Word

VARIABLES
    job,     \* the DownloadClientJob; NoJob for a null pointer
    result,  \* DownloadClientResult.status
    world,   \* what the application holds, and how the last session ended
    server,  \* the response to the request last sent, and how much of it came
    clock,   \* TimGetTicks
    gap      \* ticks since the last step

vars == <<job, result, world, server, clock, gap>>

States == {"None", "Dns", "Socket", "ConnectStart", "ConnectWait", "TlsOpen",
           "TlsHandshake", "Send", "Read", "Finalize"}
Ticks == 0..(Word - 1)
Blocks == {"buffer", "request"}

(* session: sessionId # 0.  socket: socket >= 0.  start: phaseStart, or      *)
(* idleStart while reading; neither is looked at while the other counts.     *)
Job == [state: States, secure: BOOLEAN, session: BOOLEAN, tlsOpen: BOOLEAN,
        socket: BOOLEAN, netLoaded: BOOLEAN, netOpen: BOOLEAN,
        blocks: SUBSET Blocks, sent: 0..RequestLength, redirect: 0..MaxRedirects,
        start: Ticks, cancelled: BOOLEAN]

NoJob == [state |-> "None", secure |-> FALSE, session |-> FALSE, tlsOpen |-> FALSE,
          socket |-> FALSE, netLoaded |-> FALSE, netOpen |-> FALSE,
          blocks |-> {}, sent |-> 0, redirect |-> 0,
          start |-> 0, cancelled |-> FALSE]

Failures == {"Cancelled", "InvalidUrl", "NetworkError", "TlsError", "HttpError",
             "StorageError", "RedirectError"}
Statuses == Failures \cup {"Ok", "AlreadyComplete"}

(* The head of a response is its first unit.                                *)
Response == [redirect: BOOLEAN, framed: BOOLEAN, size: 1..MaxUnits]
Server == [response: Response, got: 0..MaxUnits]

-----------------------------------------------------------------------------
(* The platform.                                                            *)

(* stray: the databases, and their files, of stores that failed to open.    *)
Resources == {"library", "librarycode", "certificate", "stray", "job", "store", "netcode",
              "netlib", "socket", "session", "response"} \cup Blocks

(* What must stay as long as something else does: DOWNLOADER.md, "Ownership *)
(* rules", and what NetLib and the library require of their callers.        *)
Supports(r) ==
    CASE r = "library"     -> {"job", "session"}
      [] r = "librarycode" -> {"library"}
      [] r = "certificate" -> {"job"}
      [] r = "netcode"     -> {"netlib"}
      [] r = "netlib"      -> {"socket"}
      [] r = "socket"      -> {"session"}
      [] OTHER             -> {}
Required(r) ==
    CASE r = "job"     -> {"library"}
      [] r = "socket"  -> {"netlib"}
      [] r = "session" -> {"socket", "library"}
      [] OTHER         -> {}

World == [held: SUBSET Resources, sound: BOOLEAN,
          ending: {"none", "closed", "cancelled"}]

(* Functions of the world, so that it is worked out once however often the   *)
(* call names it.                                                           *)
Take(w, r) ==
    LET taken[v \in World] ==
            [v EXCEPT !.held = @ \cup {r},
                      !.ending = IF r = "session" THEN "none" ELSE @,
                      !.sound = @ /\ r \notin v.held /\ Required(r) \subseteq v.held]
    IN  taken[w]
Use(w, r) ==
    LET used[v \in World] == [v EXCEPT !.sound = @ /\ r \in v.held]
    IN  used[w]
Give(w, r) ==
    LET given[v \in World] ==
            [v EXCEPT !.held = @ \ {r},
                      !.sound = @ /\ r \in v.held /\ Supports(r) \cap v.held = {}]
    IN  given[w]

TakeIf(w, r, taken) == IF taken THEN Take(w, r) ELSE w
GiveIf(w, r, taken) == IF taken THEN Give(w, r) ELSE w

(* The engine has closed a session whose handshake failed.                  *)
Lost(w) == [w EXCEPT !.held = @ \ {"session"}]

(* CloseTls: to close or cancel a session that is gone does no harm.        *)
CloseTls(w, cancel) ==
    LET ended[v \in World] ==
            IF "session" \in v.held
            THEN [Give(v, "session") EXCEPT !.ending = IF cancel THEN "cancelled"
                                                       ELSE "closed"]
            ELSE v
    IN  ended[w]

-----------------------------------------------------------------------------
(* The client.                                                              *)

(* Mutant of JobCloseConnection: the socket goes before the session.        *)
JobCloseConnectionSocketFirst(w, j, cancel) ==
    LET closed == GiveIf(w, "socket", j.socket)
    IN  IF j.tlsOpen THEN CloseTls(closed, cancel)
        ELSE IF j.session THEN CloseTls(closed, TRUE) ELSE closed

(* Mutant of JobCloseConnection: an opening session ends as asked.           *)
JobCloseConnectionAsAsked(w, j, cancel) ==
    LET closed == IF j.tlsOpen \/ j.session THEN CloseTls(w, cancel) ELSE w
    IN  GiveIf(closed, "socket", j.socket)

JobCloseConnection(w, j, cancel) ==
    LET closed == IF j.tlsOpen THEN CloseTls(w, cancel)
                  ELSE IF j.session THEN CloseTls(w, TRUE) ELSE w
    IN  GiveIf(closed, "socket", j.socket)

Disconnected(j) ==
    [j EXCEPT !.tlsOpen = FALSE, !.session = FALSE, !.socket = FALSE]

(* Everything the job holds, in the order it is given back.                 *)
JobFinish(w, j, status) ==
    LET closed == JobCloseConnection(w, j, status = "Cancelled")
        flushed == Use(closed, "store")
        offline == GiveIf(GiveIf(flushed, "netlib", j.netOpen), "netcode", j.netLoaded)
        freed == GiveIf(GiveIf(offline, "request", "request" \in j.blocks),
                        "buffer", "buffer" \in j.blocks)
    IN  Give(Give(freed, "store"), "job")

(* ShowDownloadResult ends with ReleaseDownloadCertificate.                 *)
ReleaseDownloadCertificate(w) == GiveIf(w, "certificate", "certificate" \in w.held)

TimedOut(start, now) == (now + Word - start) % Word >= Timeout

(* One step of a job in this state takes a while.                           *)
InState(state) ==
    /\ job.state = state
    /\ ~job.cancelled
    /\ \E ticks \in 0..StepTicks : clock' = (clock + ticks) % Word
    /\ gap' = 0

Running(j, w) ==
    /\ job' = j
    /\ world' = w
    /\ UNCHANGED result

Finished(j, w, status) ==
    /\ job' = NoJob
    /\ world' = ReleaseDownloadCertificate(JobFinish(w, j, status))
    /\ result' = status

(* HttpBuildGetRequest fails when the request does not fit its buffer.      *)
JobBeginRequest(j, w) ==
    \/ Running([j EXCEPT !.sent = 0, !.start = clock',
                         !.state = IF j.secure THEN "TlsOpen" ELSE "Send"], w)
    \/ Finished(j, w, "InvalidUrl")

Dns ==
    /\ InState("Dns")
    /\ LET w == Use(world, "netlib")
       IN  \/ Running([job EXCEPT !.state = "Socket"], w)
           \/ ~TimedOut(job.start, clock') /\ Running(job, w)
           \/ Finished(job, w, "NetworkError")
    /\ UNCHANGED server

Socket ==
    /\ InState("Socket")
    /\ \/ Running([job EXCEPT !.state = "ConnectStart", !.socket = TRUE,
                              !.start = clock'], Take(world, "socket"))
       \/ Finished(job, world, "NetworkError")
    /\ UNCHANGED server

ConnectStart ==
    /\ InState("ConnectStart")
    /\ LET w == Use(world, "socket")
       IN  \/ JobBeginRequest(job, w)
           \/ Running([job EXCEPT !.state = "ConnectWait"], w)
           \/ Finished(job, w, "NetworkError")
    /\ UNCHANGED server

ConnectWait ==
    /\ InState("ConnectWait")
    /\ LET w == Use(world, "socket")
       IN  \/ JobBeginRequest(job, w)
           \/ ~TimedOut(job.start, clock') /\ Running(job, w)
           \/ Finished(job, w, "NetworkError")
    /\ UNCHANGED server

(* PalmTlsLibSessionOpen.  One that fails may still have named its session. *)
TlsOpen ==
    /\ InState("TlsOpen")
    /\ LET w == Use(Use(world, "library"), "socket")
       IN  \/ Running([job EXCEPT !.state = "Send", !.session = TRUE, !.tlsOpen = TRUE],
                      Take(w, "session"))
           \/ Running([job EXCEPT !.state = "TlsHandshake", !.session = TRUE],
                      Take(w, "session"))
           \/ \E named \in BOOLEAN :
                 Finished([job EXCEPT !.session = named], w, "TlsError")
    /\ UNCHANGED server

(* Mutant of TlsHandshake: a handshake that stalls starts its time again.   *)
TlsHandshakeRestarted ==
    /\ InState("TlsHandshake")
    /\ LET w == Use(world, "library")
       IN  \/ Running([job EXCEPT !.state = "Send", !.tlsOpen = TRUE], w)
           \/ Running([job EXCEPT !.start = clock'], w)
           \/ \E after \in {w, Lost(w)} : Finished(job, after, "TlsError")
    /\ UNCHANGED server

TlsHandshake ==
    /\ InState("TlsHandshake")
    /\ LET w == Use(world, "library")
       IN  \/ Running([job EXCEPT !.state = "Send", !.tlsOpen = TRUE], w)
           \/ ~TimedOut(job.start, clock') /\ Running(job, w)
           \/ \E after \in {w, Lost(w)} : Finished(job, after, "TlsError")
    /\ UNCHANGED server

(* A write of what is left of the request, whole, in part or not at all.    *)
Send ==
    /\ InState("Send")
    /\ LET w == IF job.secure THEN Use(Use(world, "library"), "session")
                ELSE Use(world, "socket")
       IN  \/ \E sent \in job.sent..RequestLength :
                 LET j == [job EXCEPT !.sent = sent]
                 IN  IF sent = RequestLength
                     THEN /\ Running([j EXCEPT !.state = "Read", !.start = clock'], w)
                          /\ \E response \in Response :
                                server' = [response |-> response, got |-> 0]
                     ELSE /\ IF TimedOut(job.start, clock')
                             THEN Finished(j, w, "NetworkError") ELSE Running(j, w)
                          /\ UNCHANGED server
           \/ /\ Finished(job, w, IF job.secure THEN "TlsError" ELSE "NetworkError")
              /\ UNCHANGED server

(* What the HttpParser says of the response after so much of it.            *)
HeadersComplete(s) == s.got >= 1
IsRedirect(s) == HeadersComplete(s) /\ s.response.redirect
ConnectionComplete(s) == s.response.framed /\ s.got = s.response.size
(* Mutant of FinishOk: the end of the stream is the end of the response.    *)
FinishOkAnywhere(s) == HeadersComplete(s)

FinishOk(s) == HeadersComplete(s) /\ (s.response.framed => s.got = s.response.size)

(* Mutant of Redirect: one redirect too many is followed.                   *)
RedirectOnceMore(j, w) ==
    LET closed == JobCloseConnection(w, j, FALSE)
        left == Disconnected(j)
    IN  \/ \E secure \in BOOLEAN :
              Running([left EXCEPT !.state = "Dns", !.secure = secure,
                                   !.redirect = @ + 1, !.start = clock'], closed)
        \/ Finished(left, closed, "RedirectError")

(* Mutant of Redirect: the connection is kept for the next request.          *)
RedirectConnected(j, w) ==
    \/ \E secure \in BOOLEAN :
          /\ j.redirect < MaxRedirects
          /\ Running([j EXCEPT !.state = "Dns", !.secure = secure,
                               !.redirect = @ + 1, !.start = clock'], w)
    \/ Finished(j, w, "RedirectError")

(* The answer was a redirect: another host, or the end.                     *)
Redirect(j, w) ==
    LET closed == JobCloseConnection(w, j, FALSE)
        left == Disconnected(j)
    IN  \/ \E secure \in BOOLEAN :
              /\ j.redirect < MaxRedirects
              /\ Running([left EXCEPT !.state = "Dns", !.secure = secure,
                                      !.redirect = @ + 1, !.start = clock'], closed)
        \/ Finished(left, closed, "RedirectError")

(* What a read leads to once the parser has been fed what came.             *)
AfterRead(j, w, s, eof) ==
    IF IsRedirect(s) THEN Redirect(j, w)
    ELSE IF ConnectionComplete(s) \/ eof
    THEN IF FinishOk(s) THEN Running([j EXCEPT !.state = "Finalize"], w)
         ELSE Finished(j, w, "HttpError")
    ELSE IF TimedOut(j.start, clock') THEN Finished(j, w, "NetworkError")
    ELSE Running(j, w)

(* FeedResponse fails on a head it does not accept, on framing that is not   *)
(* HTTP, and on a store that does not take the body.                        *)
Read ==
    /\ InState("Read")
    /\ LET w == IF job.secure THEN Use(Use(world, "library"), "session")
                ELSE Use(world, "socket")
       IN  \/ \E n \in 1..MaxUnits :
                 LET j == [job EXCEPT !.start = clock']
                     s == [server EXCEPT !.got = @ + n]
                     fed == IF IsRedirect(s) THEN w ELSE Use(w, "store")
                 IN  /\ s.got <= server.response.size
                     /\ server' = s
                     /\ \/ AfterRead(j, fed, s, FALSE)
                        \/ \E status \in {"HttpError", "StorageError"} :
                              Finished(j, fed, status)
           \/ \E eof \in BOOLEAN : AfterRead(job, w, server, eof) /\ UNCHANGED server
           \/ /\ Finished(job, w, IF job.secure THEN "TlsError" ELSE "NetworkError")
              /\ UNCHANGED server

(* DownloadStoreMarkComplete.                                               *)
Finalize ==
    /\ InState("Finalize")
    /\ \E status \in {"Ok", "StorageError"} :
          Finished(job, Use(world, "store"), status)
    /\ UNCHANGED server

(* JobCancelled comes before the state.                                     *)
CancelledStep ==
    /\ job.cancelled
    /\ Finished(job, world, "Cancelled")
    /\ gap' = 0
    /\ UNCHANGED <<server, clock>>

-----------------------------------------------------------------------------
(* The application.                                                         *)

(* state.tlsOpen: the tester leaves at once when the library does not open. *)
Opened == "library" \in world.held

Launch ==
    /\ ~Opened
    /\ \E load \in BOOLEAN :
          world' = Take(TakeIf(world, "librarycode", load), "library")
    /\ result' = "Ok"
    /\ UNCHANGED <<job, server, clock, gap>>

(* Mutant of Refused: a start that is refused keeps the certificate.         *)
RefusedKeeping(w) ==
    /\ job' = NoJob
    /\ world' = w
    /\ result' \in {"StorageError", "InvalidUrl", "AlreadyComplete"}

(* A start that frees its job without DownloadStoreClose: once the database *)
(* is open, what fails in DownloadStoreOpen leaves it open for good.        *)
Strayed(w) == [w EXCEPT !.held = @ \cup {"stray"}]

(* DownloadClientStart before it has anything to give back: no memory, no   *)
(* URL, no store, or nothing left to download.                              *)
Refused(w) ==
    /\ job' = NoJob
    /\ \/ /\ world' = ReleaseDownloadCertificate(w)
          /\ result' \in {"StorageError", "InvalidUrl", "AlreadyComplete"}
       \/ /\ world' = ReleaseDownloadCertificate(Strayed(w))
          /\ result' = "StorageError"

(* DownloadClientStart from there on.                                       *)
ClientStart(w, secure, load, blocks) ==
    LET store == Take(Take(w, "job"), "store")
        taken == TakeIf(TakeIf(store, "buffer", "buffer" \in blocks),
                        "request", "request" \in blocks)
        j == [NoJob EXCEPT !.secure = secure, !.blocks = blocks]
        loaded == [j EXCEPT !.netLoaded = load]
        coded == TakeIf(taken, "netcode", load)
    IN  \/ /\ blocks # Blocks
           /\ Finished(j, taken, "StorageError")
        \/ /\ blocks = Blocks
           /\ \/ Finished(j, taken, "NetworkError")       \* SysLibLoad
              \/ Finished(loaded, coded, "NetworkError")  \* NetLibOpen
              \/ /\ job' = [loaded EXCEPT !.netOpen = TRUE, !.state = "Dns",
                                          !.start = clock]
                 /\ world' = Take(coded, "netlib")
                 /\ result' = "Ok"

(* The trust certificate is taken when one is to be verified against.       *)
StartDownload ==
    /\ Opened
    /\ job.state = "None"
    /\ \E certified \in BOOLEAN :
          LET w == TakeIf(world, "certificate", certified)
          IN  \/ Refused(w)
              \/ \E secure, load \in BOOLEAN, blocks \in SUBSET Blocks :
                    ClientStart(w, secure, load, blocks)
    /\ gap' = 0
    /\ UNCHANGED <<server, clock>>

(* What RunRequest took, given back on whatever path it left by.            *)
RequestCleanup(w, opening) ==
    LET mine(v, r) == GiveIf(v, r, r \in w.held)
    IN  mine(mine(mine(mine(mine(CloseTls(w, opening), "certificate"), "response"),
                       "socket"), "netlib"), "netcode")

(* RunRequest blocks until it is done.                                      *)
RunRequest ==
    /\ Opened
    /\ job.state = "None"
    /\ \E load, certified, opening \in BOOLEAN :
          LET net == TakeIf(world, "netcode", load)
              open == Take(net, "netlib")
              socket == Take(open, "socket")
              buffered == Take(socket, "response")
              trusted == TakeIf(buffered, "certificate", certified)
              session == Take(trusted, "session")
          IN  \E w \in {world, net, open, socket, buffered, trusted, session,
                        Lost(session)} :
                 world' = RequestCleanup(w, opening)
    /\ UNCHANGED <<job, result, server, clock, gap>>

Cancel ==
    /\ job.state # "None"
    /\ ~job.cancelled
    /\ job' = [job EXCEPT !.cancelled = TRUE]
    /\ UNCHANGED <<result, world, server, clock, gap>>

(* The end of PilotMain: cancel, one step, and the library.                 *)
Stop ==
    /\ Opened
    /\ LET cancelled == IF job.state = "None" THEN world
                        ELSE JobFinish(world, job, "Cancelled")
           released == Give(ReleaseDownloadCertificate(cancelled), "library")
       IN  world' = GiveIf(released, "librarycode", "librarycode" \in world.held)
    /\ job' = NoJob
    /\ result' = IF job.state = "None" THEN result ELSE "Cancelled"
    /\ UNCHANGED <<server, clock, gap>>

(* A nilEvent: AdvanceDownload.                                             *)
Advance ==
    \/ Dns \/ Socket \/ ConnectStart \/ ConnectWait \/ TlsOpen \/ TlsHandshake
    \/ Send \/ Read \/ Finalize \/ CancelledStep

(* Time between two steps.                                                  *)
Tick ==
    /\ job.state # "None"
    /\ gap < MaxGap
    /\ gap' = gap + 1
    /\ clock' = (clock + 1) % Word
    /\ UNCHANGED <<job, result, world, server>>

Init ==
    /\ job = NoJob
    /\ result = "Ok"
    /\ world = [held |-> {}, sound |-> TRUE, ending |-> "none"]
    /\ server = [response |-> [redirect |-> FALSE, framed |-> FALSE, size |-> 1],
                 got |-> 0]
    /\ clock \in Ticks
    /\ gap = 0

Next ==
    \/ Launch \/ StartDownload \/ RunRequest \/ Cancel \/ Stop \/ Advance \/ Tick

(* While a download runs, EvtGetEvent waits one tick and then answers        *)
(* nilEvent, so steps and ticks do not stop; what the user does may.         *)
Fairness == WF_vars(Advance) /\ WF_vars(Tick)

Spec == Init /\ [][Next]_vars /\ Fairness

-----------------------------------------------------------------------------
(* Properties.                                                              *)

(* The variables hold what the C variables can hold.                        *)
TypeOK ==
    /\ job \in Job
    /\ result \in Statuses
    /\ world \in World
    /\ server \in Server
    /\ clock \in Ticks
    /\ gap \in 0..MaxGap

(* Nothing is used after it was given back, taken twice, given back twice,  *)
(* or given back while something still stands on it: JobFinish and          *)
(* RunRequest's cleanup undo, from any state, what was done, in an order     *)
(* NetLib and the library accept.                                           *)
CallsInOrder == world.sound

(* However a download or a request ends, and however far a start came, the  *)
(* application is left with its library and nothing else, but for what a    *)
(* store that failed to open left open: DownloadClientStart frees the job   *)
(* and never closes that, and no later step does.                           *)
NothingLeft ==
    job.state = "None" => world.held \subseteq {"library", "librarycode", "stray"}

(* A session whose handshake is not complete is never closed as if it were, *)
(* and a transfer that is called off cancels its session.  (One that failed *)
(* after its handshake may be closed in order: the client does.)            *)
EndsAsItWas ==
    [][("session" \in world.held /\ "session" \notin world'.held)
       => /\ world'.ending = "closed" => job.tlsOpen
          /\ (job'.state = "None" /\ result' = "Cancelled")
             => world'.ending = "cancelled"]_vars

(* A download that ends Ok has sent its request, was not answered by a       *)
(* redirect, and has had the whole of an answer that said where it ends, by  *)
(* a length or in chunks.  Of one that did not, what came before the end of  *)
(* the connection counts as all of it: the client cannot tell, and neither   *)
(* can this.  result.status is Ok from the start, so every other end must    *)
(* change it.                                                               *)
OkIsWhole ==
    [][(job.state # "None" /\ job'.state = "None" /\ result' = "Ok")
       => /\ job.sent = RequestLength
          /\ ~IsRedirect(server)
          /\ server.response.framed => server.got = server.response.size]_vars

(* A download ends, by the answer, a failure, its deadline, or the user,    *)
(* whatever the server does.                                                *)
Terminates == (job.state # "None") ~> (job.state = "None")

(* What the job does is a transfer.                                         *)
Phase ==
    CASE job.state = "None" -> "idle"
      [] job.state \in {"Dns", "Socket", "ConnectStart", "ConnectWait"} -> "connecting"
      [] job.state \in {"TlsOpen", "TlsHandshake", "Send"} -> "requesting"
      [] job.state = "Read" -> "receiving"
      [] job.state = "Finalize" -> "storing"

Transfer == INSTANCE DownloadTransfer WITH
    phase <- Phase,
    hops <- job.redirect,
    open <- world.held \cap {"socket", "session"} # {},
    outcome <- IF job.state = "None" THEN result ELSE "None"

TransferSpec == Transfer!Spec
=============================================================================
