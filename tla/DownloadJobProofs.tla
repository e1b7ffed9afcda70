--------------------------- MODULE DownloadJobProofs ---------------------------
(***************************************************************************)
(* DownloadJob, proved for any number of redirects, any length of requests  *)
(* and answers, any timeout and any clock.                                  *)
(*                                                                          *)
(* The argument is that the ledger and the job always tell the same story   *)
(* (Consistent): what is held is what the fields of the job say it holds,   *)
(* and which of them are set follows from the state it is in.  JobFinish    *)
(* goes by the fields, so from any state it gives everything back in order. *)
(***************************************************************************)
EXTENDS DownloadJob, TLAPS

Sound(w) == w \in World /\ w.sound

(* What outlives a job: Stop and ReleaseDownloadCertificate give it back.   *)
(* What a store that failed to open left open, nothing does.                *)
Application == {"library", "librarycode", "certificate", "stray"}

(* What the fields of a job say it holds.                                   *)
Holds(j) ==
    {"job", "store"} \cup j.blocks
    \cup (IF j.netLoaded THEN {"netcode"} ELSE {})
    \cup (IF j.netOpen THEN {"netlib"} ELSE {})
    \cup (IF j.socket THEN {"socket"} ELSE {})
    \cup (IF j.session THEN {"session"} ELSE {})

(* A world JobFinish can put in order.  A handshake that failed has lost    *)
(* its session; an open that failed has named one that does not exist.      *)
Closable(j, w) ==
    /\ Sound(w)
    /\ j \in Job
    /\ "library" \in w.held
    /\ (w.held \ Application) \ {"session"} = Holds(j) \ {"session"}
    /\ "session" \in w.held => j.session

Online(j) == j.state \notin {"None", "Dns", "Socket"}
Requested(j) == j.state \in {"Send", "Read", "Finalize"}

(* A job between two steps.                                                 *)
Working(j, w, s) ==
    /\ Sound(w)
    /\ "library" \in w.held
    /\ w.held \ Application = Holds(j)
    /\ j.netOpen
    /\ j.blocks = Blocks
    /\ j.socket <=> Online(j)
    /\ j.tlsOpen <=> j.secure /\ Requested(j)
    /\ j.session <=> j.tlsOpen \/ j.state = "TlsHandshake"
    /\ "session" \in w.held => w.ending = "none"
    /\ j.state \in {"TlsOpen", "TlsHandshake"} => j.secure
    /\ j.state \in {"Read", "Finalize"} => j.sent = RequestLength
    /\ j.state = "Finalize" => FinishOk(s) /\ ~IsRedirect(s)

Idle(j, w) ==
    /\ Sound(w)
    /\ j = NoJob
    /\ w.held \subseteq {"library", "librarycode", "stray"}
    /\ "librarycode" \in w.held => "library" \in w.held

(* The inductive invariant.                                                 *)
Consistent ==
    /\ TypeOK
    /\ IF job.state = "None" THEN Idle(job, world) ELSE Working(job, world, server)

-----------------------------------------------------------------------------
(* The ledger: a call that may be made leaves it sound.                     *)

LEMMA TakeSound ==
    ASSUME NEW w, Sound(w), NEW r \in Resources,
           r \notin w.held, Required(r) \subseteq w.held
    PROVE  /\ Sound(Take(w, r))
           /\ Take(w, r).held = w.held \cup {r}
           /\ Take(w, r).ending = IF r = "session" THEN "none" ELSE w.ending
  <1> DEFINE v == [w EXCEPT !.held = @ \cup {r},
                            !.ending = IF r = "session" THEN "none" ELSE @,
                            !.sound = @ /\ r \notin w.held /\ Required(r) \subseteq w.held]
  <1>1. Take(w, r) = v
    BY DEF Take, Sound
  <1>2. v \in World
    BY DEF World, Sound
  <1>3. v.held = w.held \cup {r}
    BY DEF World, Sound
  <1>4. v.ending = IF r = "session" THEN "none" ELSE w.ending
    BY DEF World, Sound
  <1>5. v.sound
    BY Zenon DEF World, Sound
  <1> QED BY <1>1, <1>2, <1>3, <1>4, <1>5 DEF Sound

(* Using what is held changes nothing.                                      *)
LEMMA UseSound ==
    ASSUME NEW w, Sound(w), NEW r, r \in w.held
    PROVE  Use(w, r) = w
  <1> DEFINE v == [w EXCEPT !.sound = @ /\ r \in w.held]
  <1>1. Use(w, r) = v
    BY DEF Use, Sound
  <1>2. v.sound = w.sound
    <2>1. v.sound
      BY Zenon DEF World, Sound
    <2>2. v.sound \in BOOLEAN /\ w.sound \in BOOLEAN
      BY DEF World, Sound
    <2> QED BY <2>1, <2>2 DEF Sound
  <1>3. v \in World /\ v.held = w.held /\ v.ending = w.ending
    BY DEF World, Sound
  <1>4. v = w
    BY <1>2, <1>3 DEF World, Sound
  <1> QED BY <1>1, <1>4

LEMMA GiveSound ==
    ASSUME NEW w, Sound(w), NEW r, r \in w.held, Supports(r) \cap w.held = {}
    PROVE  /\ Sound(Give(w, r))
           /\ Give(w, r).held = w.held \ {r}
           /\ Give(w, r).ending = w.ending
  <1> DEFINE v == [w EXCEPT !.held = @ \ {r},
                            !.sound = @ /\ r \in w.held /\ Supports(r) \cap w.held = {}]
  <1>1. Give(w, r) = v
    BY DEF Give, Sound
  <1>2. v \in World
    BY DEF World, Sound
  <1>3. v.held = w.held \ {r} /\ v.ending = w.ending
    BY DEF World, Sound
  <1>4. v.sound
    BY Zenon DEF World, Sound
  <1> QED BY <1>1, <1>2, <1>3, <1>4 DEF Sound

(* To give back what is not held is to do nothing.                          *)
LEMMA GiveIfSound ==
    ASSUME NEW w, Sound(w), NEW r, NEW taken, taken <=> r \in w.held,
           Supports(r) \cap w.held = {}
    PROVE  /\ Sound(GiveIf(w, r, taken))
           /\ GiveIf(w, r, taken).held = w.held \ {r}
           /\ GiveIf(w, r, taken).ending = w.ending
  BY GiveSound DEF GiveIf

LEMMA CloseTlsSound ==
    ASSUME NEW w, Sound(w), NEW cancel
    PROVE  /\ Sound(CloseTls(w, cancel))
           /\ CloseTls(w, cancel).held = w.held \ {"session"}
           /\ CloseTls(w, cancel).ending =
                 IF "session" \in w.held
                 THEN IF cancel THEN "cancelled" ELSE "closed"
                 ELSE w.ending
  <1> DEFINE g == Give(w, "session")
             v == [g EXCEPT !.ending = IF cancel THEN "cancelled" ELSE "closed"]
  <1>1. CloseTls(w, cancel) = IF "session" \in w.held THEN v ELSE w
    BY DEF CloseTls, Sound
  <1>2. CASE "session" \in w.held
    <2>1. Supports("session") = {}
      BY DEF Supports
    <2>2. Sound(g) /\ g.held = w.held \ {"session"}
      BY <1>2, <2>1, GiveSound
    <2> HIDE DEF g
    <2>3. v \in World /\ v.held = g.held /\ v.sound = g.sound
      BY <2>2 DEF World, Sound
    <2>4. v.ending = IF cancel THEN "cancelled" ELSE "closed"
      BY <2>2 DEF World, Sound
    <2> HIDE DEF v
    <2> QED BY <1>1, <1>2, <2>2, <2>3, <2>4 DEF Sound
  <1>3. CASE "session" \notin w.held
    BY <1>1, <1>3
  <1> QED BY <1>2, <1>3

LEMMA StrayedSound ==
    ASSUME NEW w, Sound(w), w.held \subseteq Application
    PROVE  /\ Sound(Strayed(w)) /\ Strayed(w).held \subseteq Application
           /\ Strayed(w).held = w.held \cup {"stray"}
  BY DEF Sound, Strayed, World, Resources, Application

LEMMA LostSound ==
    ASSUME NEW w, Sound(w)
    PROVE  /\ Sound(Lost(w))
           /\ Lost(w).held = w.held \ {"session"}
           /\ Lost(w).ending = w.ending
  BY DEF Lost, Sound, World

-----------------------------------------------------------------------------
(* JobFinish gives back, in order, whatever the job holds.                  *)

LEMMA ConnectionCloses ==
    ASSUME NEW j, NEW w, Closable(j, w), NEW cancel \in BOOLEAN
    PROVE  LET closed == JobCloseConnection(w, j, cancel)
           IN  /\ Sound(closed)
               /\ closed.held = w.held \ {"session", "socket"}
               /\ closed.ending =
                     IF "session" \in w.held
                     THEN IF cancel \/ ~j.tlsOpen THEN "cancelled" ELSE "closed"
                     ELSE w.ending
  <1> DEFINE tls == IF j.tlsOpen THEN CloseTls(w, cancel)
                    ELSE IF j.session THEN CloseTls(w, TRUE) ELSE w
  <1>1. Sound(w) /\ j \in Job
    BY DEF Closable
  <1>2. /\ Sound(tls)
        /\ tls.held = w.held \ {"session"}
        /\ tls.ending = IF "session" \in w.held
                        THEN IF cancel \/ ~j.tlsOpen THEN "cancelled" ELSE "closed"
                        ELSE w.ending
    <2>1. CASE j.tlsOpen
      BY <1>1, <2>1, CloseTlsSound
    <2>2. CASE ~j.tlsOpen /\ j.session
      BY <1>1, <2>2, CloseTlsSound
    <2>3. CASE ~j.tlsOpen /\ ~j.session
      BY <1>1, <2>3 DEF Closable
    <2> QED BY <2>1, <2>2, <2>3
  <1>3. JobCloseConnection(w, j, cancel) = GiveIf(tls, "socket", j.socket)
    BY DEF JobCloseConnection
  <1> HIDE DEF tls
  <1>4. j.socket <=> "socket" \in tls.held
    <2>1. Blocks = {"buffer", "request"} /\ j.blocks \subseteq Blocks
      BY <1>1 DEF Job, Blocks
    <2>2. j.socket <=> "socket" \in Holds(j)
      BY <2>1 DEF Holds
    <2>3. "socket" \in Holds(j) <=> "socket" \in w.held
      BY DEF Closable, Application
    <2> QED BY <1>2, <2>2, <2>3
  <1>5. Supports("socket") \cap tls.held = {}
    BY <1>2 DEF Supports
  <1> HIDE DEF Holds
  <1> QED BY <1>2, <1>3, <1>4, <1>5, GiveIfSound

(* What the fields say, resource by resource.                               *)
LEMMA HoldsFields ==
    ASSUME NEW j, NEW w, Closable(j, w)
    PROVE  /\ "job" \in w.held /\ "store" \in w.held
           /\ "buffer" \in j.blocks <=> "buffer" \in w.held
           /\ "request" \in j.blocks <=> "request" \in w.held
           /\ j.netLoaded <=> "netcode" \in w.held
           /\ j.netOpen <=> "netlib" \in w.held
           /\ j.socket <=> "socket" \in w.held
           /\ w.held \subseteq Application \cup Blocks
                 \cup {"job", "store", "netcode", "netlib", "socket", "session"}
  <1>1. j.blocks \subseteq {"buffer", "request"}
    BY DEF Closable, Job, Blocks
  <1>2. \A r : r \notin Application \cup {"session"} => (r \in w.held <=> r \in Holds(j))
    BY DEF Closable
  <1> QED BY <1>1, <1>2 DEF Holds, Application, Blocks

LEMMA JobFinishes ==
    ASSUME NEW j, NEW w, Closable(j, w), NEW status
    PROVE  LET after == JobFinish(w, j, status)
           IN  /\ Sound(after)
               /\ after.held = w.held \cap Application
               /\ after.ending =
                     IF "session" \in w.held
                     THEN IF status = "Cancelled" \/ ~j.tlsOpen THEN "cancelled"
                          ELSE "closed"
                     ELSE w.ending
  <1> DEFINE closed == JobCloseConnection(w, j, status = "Cancelled")
             flushed == Use(closed, "store")
             unopened == GiveIf(flushed, "netlib", j.netOpen)
             offline == GiveIf(unopened, "netcode", j.netLoaded)
             unrequested == GiveIf(offline, "request", "request" \in j.blocks)
             freed == GiveIf(unrequested, "buffer", "buffer" \in j.blocks)
             stored == Give(freed, "store")
             ending == IF "session" \in w.held
                       THEN IF status = "Cancelled" \/ ~j.tlsOpen THEN "cancelled"
                            ELSE "closed"
                       ELSE w.ending
  <1>0. JobFinish(w, j, status) = Give(stored, "job")
    BY DEF JobFinish
  <1>1. /\ Sound(closed) /\ closed.ending = ending
        /\ closed.held = w.held \ {"session", "socket"}
    BY ConnectionCloses
  <1> HIDE DEF closed, ending
  <1>2. flushed = closed
    BY <1>1, HoldsFields, UseSound
  <1> HIDE DEF flushed
  <1>3. /\ Sound(unopened) /\ unopened.ending = ending
        /\ unopened.held = w.held \ {"session", "socket", "netlib"}
    <2>1. Supports("netlib") \cap flushed.held = {}
      BY <1>1, <1>2 DEF Supports
    <2>2. j.netOpen <=> "netlib" \in flushed.held
      BY <1>1, <1>2, HoldsFields
    <2> QED BY <1>1, <1>2, <2>1, <2>2, GiveIfSound
  <1> HIDE DEF unopened
  <1>4. /\ Sound(offline) /\ offline.ending = ending
        /\ offline.held = w.held \ {"session", "socket", "netlib", "netcode"}
    <2>1. Supports("netcode") \cap unopened.held = {}
      BY <1>3 DEF Supports
    <2>2. j.netLoaded <=> "netcode" \in unopened.held
      BY <1>3, HoldsFields
    <2> QED BY <1>3, <2>1, <2>2, GiveIfSound
  <1> HIDE DEF offline
  <1>5. /\ Sound(unrequested) /\ unrequested.ending = ending
        /\ unrequested.held = w.held \ {"session", "socket", "netlib", "netcode", "request"}
    <2>1. Supports("request") \cap offline.held = {}
      BY DEF Supports
    <2>2. "request" \in j.blocks <=> "request" \in offline.held
      BY <1>4, HoldsFields
    <2> QED BY <1>4, <2>1, <2>2, GiveSound DEF GiveIf
  <1> HIDE DEF unrequested
  <1>6. /\ Sound(freed) /\ freed.ending = ending
        /\ freed.held = w.held \ {"session", "socket", "netlib", "netcode", "request",
                                  "buffer"}
    <2>1. Supports("buffer") \cap unrequested.held = {}
      BY DEF Supports
    <2>2. "buffer" \in j.blocks <=> "buffer" \in unrequested.held
      BY <1>5, HoldsFields
    <2> QED BY <1>5, <2>1, <2>2, GiveSound DEF GiveIf
  <1> HIDE DEF freed
  <1>7. /\ Sound(stored) /\ stored.ending = ending
        /\ stored.held = freed.held \ {"store"}
    <2>1. "store" \in freed.held
      BY <1>6, HoldsFields
    <2>2. Supports("store") \cap freed.held = {}
      BY DEF Supports
    <2> QED BY <1>6, <2>1, <2>2, GiveSound
  <1> HIDE DEF stored
  <1>8. /\ Sound(Give(stored, "job")) /\ Give(stored, "job").ending = ending
        /\ Give(stored, "job").held = stored.held \ {"job"}
    <2>1. "job" \in stored.held
      BY <1>6, <1>7, HoldsFields
    <2>2. Supports("job") \cap stored.held = {}
      BY DEF Supports
    <2> QED BY <1>7, <2>1, <2>2, GiveSound
  <1>9. stored.held \ {"job"} = w.held \cap Application
    BY <1>6, <1>7, HoldsFields DEF Application, Blocks
  <1> QED BY <1>0, <1>8, <1>9 DEF ending

-----------------------------------------------------------------------------
(* Steps, whatever the state: the job goes on, or it finishes.              *)

LEMMA WorkingClosable ==
    ASSUME NEW j \in Job, NEW w, NEW s, Working(j, w, s)
    PROVE  Closable(j, w)
  <1>1. j.blocks \subseteq {"buffer", "request"}
    BY DEF Job, Blocks
  <1>2. "session" \in Holds(j) => j.session
    BY <1>1 DEF Holds
  <1>3. "session" \in w.held => j.session
    BY <1>2 DEF Working, Application
  <1> HIDE DEF Holds
  <1> QED BY <1>3 DEF Working, Closable

LEMMA Released ==
    ASSUME NEW w, Sound(w), w.held \subseteq Application
    PROVE  /\ Sound(ReleaseDownloadCertificate(w))
           /\ ReleaseDownloadCertificate(w).held = w.held \ {"certificate"}
           /\ ReleaseDownloadCertificate(w).ending = w.ending
  <1>1. Supports("certificate") \cap w.held = {}
    BY DEF Supports, Application
  <1>2. CASE "certificate" \in w.held
    BY <1>1, <1>2, GiveSound DEF ReleaseDownloadCertificate, GiveIf
  <1>3. CASE "certificate" \notin w.held
    BY <1>3 DEF ReleaseDownloadCertificate, GiveIf
  <1> QED BY <1>2, <1>3

LEMMA NoJobTypeOK == NoJob \in Job /\ NoJob.state = "None"
  BY JobAssumption DEF NoJob, Job, States, Ticks

LEMMA FinishedKeeps ==
    ASSUME NEW j, NEW w, NEW status \in Statuses, Closable(j, w), Finished(j, w, status),
           server' \in Server, clock' \in Ticks, gap' \in 0..MaxGap
    PROVE  Consistent'
  <1> DEFINE after == JobFinish(w, j, status)
             left == ReleaseDownloadCertificate(after)
  <1>1. job' = NoJob /\ world' = left /\ result' = status
    BY DEF Finished
  <1>2. Sound(after) /\ after.held = w.held \cap Application
    BY JobFinishes
  <1> HIDE DEF after
  <1>3. Sound(left) /\ left.held = (w.held \cap Application) \ {"certificate"}
    BY <1>2, Released
  <1> HIDE DEF left
  <1>4. Idle(NoJob, left)
    BY <1>3 DEF Idle, Application, Closable
  <1> QED BY <1>1, <1>3, <1>4, NoJobTypeOK DEF Consistent, TypeOK, Sound

LEMMA RunningKeeps ==
    ASSUME NEW j \in Job, NEW w, j.state # "None", result \in Statuses, Running(j, w),
           Working(j, w, server'),
           server' \in Server, clock' \in Ticks, gap' \in 0..MaxGap
    PROVE  Consistent'
  BY DEF Running, Consistent, TypeOK, Working, Sound

LEMMA InStateTicks ==
    ASSUME NEW state, TypeOK, InState(state)
    PROVE  clock' \in Ticks /\ gap' \in 0..MaxGap
  <1>1. PICK ticks \in 0..StepTicks : clock' = (clock + ticks) % Word
    BY DEF InState
  <1>2. clock + ticks \in Nat /\ Word \in Nat \ {0}
    BY JobAssumption DEF TypeOK, Ticks
  <1>3. (clock + ticks) % Word \in 0..(Word - 1)
    BY <1>2
  <1>4. gap' \in 0..MaxGap
    BY JobAssumption DEF InState
  <1> QED BY <1>1, <1>3, <1>4 DEF Ticks

(* A job that works has an open library and what its state says.            *)
LEMMA Work ==
    ASSUME Consistent, job.state # "None"
    PROVE  /\ job \in Job /\ result \in Statuses /\ server \in Server
           /\ Sound(world) /\ Working(job, world, server) /\ Closable(job, world)
           /\ {"library", "job", "store", "netlib"} \subseteq world.held
           /\ Online(job) => "socket" \in world.held
           /\ job.session => "session" \in world.held
  BY WorkingClosable DEF Consistent, TypeOK, Working, Holds, Application

-----------------------------------------------------------------------------
(* One lemma for each state of the job.                                     *)

(* What a step of one state starts from.                                    *)
LEMMA Stepping ==
    ASSUME Consistent, NEW state \in States \ {"None"}, InState(state)
    PROVE  /\ job.state = state
           /\ clock' \in Ticks /\ gap' \in 0..MaxGap
  BY InStateTicks DEF InState, Consistent

(* A job that finishes as it is.                                            *)
LEMMA FinishesHere ==
    ASSUME Consistent, job.state # "None", NEW status \in Statuses,
           Finished(job, world, status),
           server' \in Server, clock' \in Ticks, gap' \in 0..MaxGap
    PROVE  Consistent'
  BY Work, FinishedKeeps

(* A job that waits.                                                        *)
LEMMA RunsOn ==
    ASSUME Consistent, job.state # "None", Running(job, world), UNCHANGED server,
           clock' \in Ticks, gap' \in 0..MaxGap
    PROVE  Consistent'
  BY Work, RunningKeeps

LEMMA DnsKeeps == ASSUME Consistent, Dns PROVE Consistent'
  <1>1. /\ job.state = "Dns" /\ clock' \in Ticks /\ gap' \in 0..MaxGap /\ server' = server
    BY Stepping DEF Dns, States
  <1>2. Use(world, "netlib") = world
    BY <1>1, Work, UseSound
  <1>3. CASE Running([job EXCEPT !.state = "Socket"], world)
    <2> DEFINE j == [job EXCEPT !.state = "Socket"]
    <2>1. j \in Job /\ j.state = "Socket"
      BY <1>1, Work DEF Job, States
    <2>2. Working(j, world, server)
      BY <1>1, Work DEF Working, Job, Holds, Online, Requested
    <2> HIDE DEF j
    <2> QED BY <1>1, <1>3, <2>1, <2>2, Work, RunningKeeps DEF j
  <1>4. CASE Running(job, world)
    BY <1>1, <1>4, RunsOn
  <1>5. CASE Finished(job, world, "NetworkError")
    BY <1>1, <1>5, FinishesHere, Work DEF Statuses, Failures
  <1> QED BY <1>2, <1>3, <1>4, <1>5 DEF Dns

LEMMA SocketKeeps == ASSUME Consistent, Socket PROVE Consistent'
  <1>1. /\ job.state = "Socket" /\ clock' \in Ticks /\ gap' \in 0..MaxGap
        /\ server' = server
    BY Stepping DEF Socket, States
  <1>2. CASE Running([job EXCEPT !.state = "ConnectStart", !.socket = TRUE,
                                 !.start = clock'], Take(world, "socket"))
    <2> DEFINE j == [job EXCEPT !.state = "ConnectStart", !.socket = TRUE,
                                !.start = clock']
               w == Take(world, "socket")
    <2>1. j \in Job /\ j.state = "ConnectStart"
      BY <1>1, Work DEF Job, States
    <2>2. ~job.socket /\ ~job.session
      BY <1>1, Work DEF Working, Online, Requested
    <2>3. "socket" \notin world.held /\ "session" \notin world.held
      BY <1>1, <2>2, Work, HoldsFields DEF Closable
    <2>4. Sound(w) /\ w.held = world.held \cup {"socket"}
      <3>1. "socket" \in Resources /\ Required("socket") = {"netlib"}
        BY DEF Required, Resources
      <3>2. Sound(world) /\ "netlib" \in world.held
        BY <1>1, Work
      <3> QED BY <2>3, <3>1, <3>2, TakeSound
    <2> HIDE DEF w
    <2>5. Holds(j) = Holds(job) \cup {"socket"}
      BY <2>2, Work DEF Job, Holds
    <2>6. Working(j, w, server)
      BY <1>1, <2>2, <2>3, <2>4, <2>5, Work
         DEF Working, Job, Online, Requested, Application
    <2> HIDE DEF j
    <2> QED BY <1>1, <1>2, <2>1, <2>6, Work, RunningKeeps DEF j, w
  <1>3. CASE Finished(job, world, "NetworkError")
    BY <1>1, <1>3, FinishesHere, Work DEF Statuses, Failures
  <1> QED BY <1>2, <1>3 DEF Socket

(* Connected, with the request to come.                                     *)
LEMMA BeginsRequest ==
    ASSUME Consistent, job.state \in {"ConnectStart", "ConnectWait"},
           JobBeginRequest(job, world), UNCHANGED server,
           clock' \in Ticks, gap' \in 0..MaxGap
    PROVE  Consistent'
  <1> DEFINE state == IF job.secure THEN "TlsOpen" ELSE "Send"
             j == [job EXCEPT !.sent = 0, !.start = clock', !.state = state]
  <1>1. job.state # "None"
    OBVIOUS
  <1>2. CASE Running(j, world)
    <2>1. j \in Job /\ j.state = state
      <3>1. state \in States /\ 0 \in 0..RequestLength
        BY JobAssumption DEF States
      <3>2. job \in Job
        BY <1>1, Work
      <3> HIDE DEF state
      <3> QED BY <3>1, <3>2 DEF Job
    <2>2. Working(j, world, server)
      BY <1>1, Work DEF Working, Job, Holds, Online, Requested
    <2> HIDE DEF j
    <2> QED BY <1>1, <1>2, <2>1, <2>2, Work, RunningKeeps
  <1>3. CASE Finished(job, world, "InvalidUrl")
    BY <1>1, <1>3, FinishesHere, Work DEF Statuses, Failures
  <1> QED BY <1>2, <1>3 DEF JobBeginRequest

LEMMA ConnectStartKeeps == ASSUME Consistent, ConnectStart PROVE Consistent'
  <1>1. /\ job.state = "ConnectStart" /\ clock' \in Ticks /\ gap' \in 0..MaxGap
        /\ server' = server
    BY Stepping DEF ConnectStart, States
  <1>2. Use(world, "socket") = world
    BY <1>1, Work, UseSound DEF Online
  <1>3. CASE JobBeginRequest(job, world)
    BY <1>1, <1>3, BeginsRequest
  <1>4. CASE Running([job EXCEPT !.state = "ConnectWait"], world)
    <2> DEFINE j == [job EXCEPT !.state = "ConnectWait"]
    <2>1. j \in Job /\ j.state = "ConnectWait"
      BY <1>1, Work DEF Job, States
    <2>2. Working(j, world, server)
      BY <1>1, Work DEF Working, Job, Holds, Online, Requested
    <2> HIDE DEF j
    <2> QED BY <1>1, <1>4, <2>1, <2>2, Work, RunningKeeps DEF j
  <1>5. CASE Finished(job, world, "NetworkError")
    BY <1>1, <1>5, FinishesHere, Work DEF Statuses, Failures
  <1> QED BY <1>2, <1>3, <1>4, <1>5 DEF ConnectStart

LEMMA ConnectWaitKeeps == ASSUME Consistent, ConnectWait PROVE Consistent'
  <1>1. /\ job.state = "ConnectWait" /\ clock' \in Ticks /\ gap' \in 0..MaxGap
        /\ server' = server
    BY Stepping DEF ConnectWait, States
  <1>2. Use(world, "socket") = world
    BY <1>1, Work, UseSound DEF Online
  <1>3. CASE JobBeginRequest(job, world)
    BY <1>1, <1>3, BeginsRequest
  <1>4. CASE Running(job, world)
    BY <1>1, <1>4, RunsOn
  <1>5. CASE Finished(job, world, "NetworkError")
    BY <1>1, <1>5, FinishesHere, Work DEF Statuses, Failures
  <1> QED BY <1>2, <1>3, <1>4, <1>5 DEF ConnectWait

LEMMA TlsOpenKeeps == ASSUME Consistent, TlsOpen PROVE Consistent'
  <1>1. /\ job.state = "TlsOpen" /\ clock' \in Ticks /\ gap' \in 0..MaxGap
        /\ server' = server
    BY Stepping DEF TlsOpen, States
  <1>2. Use(Use(world, "library"), "socket") = world
    BY <1>1, Work, UseSound DEF Online
  <1>3. /\ job.secure /\ job.socket /\ ~job.session /\ ~job.tlsOpen
        /\ "session" \notin world.held
    BY <1>1, Work DEF Working, Online, Requested, Closable
  <1>4. ASSUME NEW state \in {"Send", "TlsHandshake"}, NEW open \in BOOLEAN,
               open <=> state = "Send",
               Running([job EXCEPT !.state = state, !.session = TRUE, !.tlsOpen = open],
                       Take(world, "session"))
        PROVE  Consistent'
    <2> DEFINE j == [job EXCEPT !.state = state, !.session = TRUE, !.tlsOpen = open]
               w == Take(world, "session")
    <2>1. j \in Job /\ j.state = state
      BY <1>1, Work DEF Job, States
    <2>2. Sound(w) /\ w.held = world.held \cup {"session"} /\ w.ending = "none"
      <3>1. "session" \in Resources /\ Required("session") = {"socket", "library"}
        BY DEF Required, Resources
      <3>2. Sound(world) /\ {"socket", "library"} \subseteq world.held
        BY <1>1, Work DEF Online
      <3> QED BY <1>3, <3>1, <3>2, TakeSound
    <2> HIDE DEF w
    <2>3. Holds(j) = Holds(job) \cup {"session"}
      BY <1>1, <1>3, Work DEF Job, Holds
    <2>4. Working(j, w, server)
      BY <1>1, <1>3, <1>4, <2>2, <2>3, Work
         DEF Working, Job, Online, Requested, Application
    <2> HIDE DEF j
    <2> QED BY <1>1, <1>4, <2>1, <2>4, Work, RunningKeeps DEF j, w
  <1>5. ASSUME NEW named \in BOOLEAN,
               Finished([job EXCEPT !.session = named], world, "TlsError")
        PROVE  Consistent'
    <2> DEFINE j == [job EXCEPT !.session = named]
    <2>1. j \in Job
      BY <1>1, Work DEF Job
    <2>2. Holds(j) \ {"session"} = Holds(job) \ {"session"}
      BY <1>1, Work DEF Job, Holds
    <2>3. Closable(j, world)
      BY <1>1, <1>3, <2>1, <2>2, Work DEF Closable
    <2> HIDE DEF j
    <2> QED BY <1>1, <1>5, <2>3, Work, FinishedKeeps DEF j, Statuses, Failures
  <1>6. CASE Running([job EXCEPT !.state = "Send", !.session = TRUE, !.tlsOpen = TRUE],
                     Take(world, "session"))
    BY <1>4, <1>6
  <1>7. CASE Running([job EXCEPT !.state = "TlsHandshake", !.session = TRUE],
                     Take(world, "session"))
    <2>1. [job EXCEPT !.state = "TlsHandshake", !.session = TRUE]
           = [job EXCEPT !.state = "TlsHandshake", !.session = TRUE, !.tlsOpen = FALSE]
      BY <1>1, <1>3, Work DEF Job
    <2> QED BY <1>4, <1>7, <2>1
  <1>8. CASE \E named \in BOOLEAN :
                Finished([job EXCEPT !.session = named], world, "TlsError")
    BY <1>5, <1>8
  <1> QED BY <1>2, <1>6, <1>7, <1>8 DEF TlsOpen

LEMMA TlsHandshakeKeeps == ASSUME Consistent, TlsHandshake PROVE Consistent'
  <1>1. /\ job.state = "TlsHandshake" /\ clock' \in Ticks /\ gap' \in 0..MaxGap
        /\ server' = server
    BY Stepping DEF TlsHandshake, States
  <1>2. Use(world, "library") = world
    BY <1>1, Work, UseSound
  <1>3. CASE Running([job EXCEPT !.state = "Send", !.tlsOpen = TRUE], world)
    <2> DEFINE j == [job EXCEPT !.state = "Send", !.tlsOpen = TRUE]
    <2>1. j \in Job /\ j.state = "Send"
      BY <1>1, Work DEF Job, States
    <2>2. Working(j, world, server)
      BY <1>1, Work DEF Working, Job, Holds, Online, Requested
    <2> HIDE DEF j
    <2> QED BY <1>1, <1>3, <2>1, <2>2, Work, RunningKeeps DEF j
  <1>4. CASE Running(job, world)
    BY <1>1, <1>4, RunsOn
  <1>5. CASE Finished(job, world, "TlsError")
    BY <1>1, <1>5, FinishesHere, Work DEF Statuses, Failures
  <1>6. CASE Finished(job, Lost(world), "TlsError")
    <2>1. Sound(Lost(world)) /\ Lost(world).held = world.held \ {"session"}
      BY <1>1, Work, LostSound
    <2>2. Closable(job, Lost(world))
      BY <1>1, <2>1, Work DEF Closable
    <2> QED BY <1>1, <1>6, <2>2, Work, FinishedKeeps DEF Statuses, Failures
  <1> QED BY <1>2, <1>3, <1>4, <1>5, <1>6 DEF TlsHandshake

(* A job that has something to send or to receive may use its connection.   *)
LEMMA UsesConnection ==
    ASSUME Consistent, job.state \in {"Send", "Read"}
    PROVE  (IF job.secure THEN Use(Use(world, "library"), "session")
            ELSE Use(world, "socket")) = world
  <1>1. job.secure => "session" \in world.held
    BY Work DEF Working, Requested
  <1>2. "socket" \in world.held /\ "library" \in world.held /\ Sound(world)
    BY Work DEF Online
  <1> QED BY <1>1, <1>2, UseSound

LEMMA SendKeeps == ASSUME Consistent, Send PROVE Consistent'
  <1>1. job.state = "Send" /\ clock' \in Ticks /\ gap' \in 0..MaxGap
    BY Stepping DEF Send, States
  <1>2. (IF job.secure THEN Use(Use(world, "library"), "session")
         ELSE Use(world, "socket")) = world
    BY <1>1, UsesConnection
  <1>3. ASSUME NEW sent \in job.sent..RequestLength, sent = RequestLength,
               Running([[job EXCEPT !.sent = sent] EXCEPT !.state = "Read",
                                                         !.start = clock'], world),
               NEW response \in Response,
               server' = [response |-> response, got |-> 0]
        PROVE  Consistent'
    <2> DEFINE j == [[job EXCEPT !.sent = sent] EXCEPT !.state = "Read",
                                                       !.start = clock']
    <2>1. j \in Job /\ j.state = "Read"
      <3>1. job \in Job /\ sent \in 0..RequestLength /\ "Read" \in States
        BY <1>1, <1>3, JobAssumption, Work DEF States
      <3> QED BY <1>1, <3>1 DEF Job
    <2>2. Working(j, world, server')
      BY <1>1, <1>3, Work DEF Working, Job, Holds, Online, Requested
    <2>3. server' \in Server
      BY <1>3, JobAssumption DEF Server
    <2> HIDE DEF j
    <2> QED BY <1>1, <1>3, <2>1, <2>2, <2>3, Work, RunningKeeps DEF j
  <1>4. ASSUME NEW sent \in job.sent..RequestLength, server' = server,
               \/ Finished([job EXCEPT !.sent = sent], world, "NetworkError")
               \/ Running([job EXCEPT !.sent = sent], world)
        PROVE  Consistent'
    <2> DEFINE j == [job EXCEPT !.sent = sent]
    <2>1. j \in Job /\ j.state = "Send"
      BY <1>1, JobAssumption, Work DEF Job
    <2>2. Working(j, world, server')
      BY <1>1, <1>4, Work DEF Working, Job, Holds, Online, Requested
    <2>3. server' \in Server
      BY <1>1, <1>4, Work
    <2> HIDE DEF j
    <2>4. Closable(j, world)
      BY <2>1, <2>2, WorkingClosable
    <2> QED BY <1>1, <1>4, <2>1, <2>2, <2>3, <2>4, Work, RunningKeeps, FinishedKeeps
            DEF j, Statuses, Failures
  <1>5. ASSUME NEW status \in {"TlsError", "NetworkError"}, server' = server,
               Finished(job, world, status)
        PROVE  Consistent'
    BY <1>1, <1>5, FinishesHere, Work DEF Statuses, Failures
  <1> QED BY <1>2, <1>3, <1>4, <1>5 DEF Send

(* A redirect drops the connection and starts again, or is one too many.    *)
LEMMA RedirectKeeps ==
    ASSUME Consistent, NEW j \in Job, j.state = "Read", Working(j, world, server'),
           Redirect(j, world), result \in Statuses,
           server' \in Server, clock' \in Ticks, gap' \in 0..MaxGap
    PROVE  Consistent'
  <1> DEFINE closed == JobCloseConnection(world, j, FALSE)
             left == Disconnected(j)
  <1>1. Closable(j, world)
    BY WorkingClosable
  <1>2. Sound(closed) /\ closed.held = world.held \ {"session", "socket"}
    BY <1>1, ConnectionCloses
  <1>3. /\ left \in Job /\ left.state = j.state
        /\ ~left.session /\ ~left.socket /\ ~left.tlsOpen
        /\ left.netOpen = j.netOpen /\ left.blocks = j.blocks
        /\ left.netLoaded = j.netLoaded
    BY DEF Disconnected, Job
  <1>4. Holds(left) = Holds(j) \ {"session", "socket"}
    <2>1. j.blocks \subseteq {"buffer", "request"}
      BY DEF Job, Blocks
    <2> HIDE DEF left
    <2> QED BY <1>3, <2>1 DEF Holds
  <1> HIDE DEF closed, left
  <1>5. Redirect(j, world) <=>
            \/ \E secure \in BOOLEAN :
                  /\ j.redirect < MaxRedirects
                  /\ Running([left EXCEPT !.state = "Dns", !.secure = secure,
                                          !.redirect = @ + 1, !.start = clock'], closed)
            \/ Finished(left, closed, "RedirectError")
    BY DEF Redirect, closed, left
  <1>6. Closable(left, closed)
    BY <1>1, <1>2, <1>3, <1>4 DEF Closable, Application
  <1>7. CASE Finished(left, closed, "RedirectError")
    BY <1>6, <1>7, FinishedKeeps DEF Statuses, Failures
  <1>8. ASSUME NEW secure \in BOOLEAN, j.redirect < MaxRedirects,
               Running([left EXCEPT !.state = "Dns", !.secure = secure,
                                    !.redirect = @ + 1, !.start = clock'], closed)
        PROVE  Consistent'
    <2> DEFINE hops == left.redirect + 1
               k == [left EXCEPT !.state = "Dns", !.secure = secure,
                                 !.redirect = hops, !.start = clock']
    <2>1. hops \in 0..MaxRedirects
      BY <1>8, JobAssumption DEF left, Disconnected, Job
    <2> HIDE DEF hops
    <2>2. "Dns" \in States
      BY DEF States
    <2>3. k \in Job /\ k.state = "Dns"
      BY <1>3, <2>1, <2>2 DEF Job
    <2>4. Holds(k) = Holds(left)
      BY <1>3 DEF Job, Holds
    <2>5. Working(k, closed, server')
      BY <1>2, <1>3, <1>4, <2>3, <2>4 DEF Working, Job, Online, Requested, Application
    <2>6. Running(k, closed)
      BY <1>8 DEF hops
    <2> HIDE DEF k
    <2> QED BY <2>3, <2>5, <2>6, RunningKeeps
  <1> QED BY <1>5, <1>7, <1>8

LEMMA AfterReadKeeps ==
    ASSUME Consistent, NEW j \in Job, j.state = "Read", Working(j, world, server'),
           NEW eof, AfterRead(j, world, server', eof), result \in Statuses,
           server' \in Server, clock' \in Ticks, gap' \in 0..MaxGap
    PROVE  Consistent'
  <1>1. Closable(j, world)
    BY WorkingClosable
  <1>2. CASE Redirect(j, world)
    BY <1>2, RedirectKeeps
  <1>3. CASE /\ Running([j EXCEPT !.state = "Finalize"], world)
             /\ FinishOk(server') /\ ~IsRedirect(server')
    <2> DEFINE k == [j EXCEPT !.state = "Finalize"]
    <2>1. k \in Job /\ k.state = "Finalize"
      BY DEF Job, States
    <2>2. Holds(k) = Holds(j)
      BY DEF Job, Holds
    <2>3. Working(k, world, server')
      BY <1>3, <2>2 DEF Working, Job, Online, Requested
    <2> HIDE DEF k
    <2> QED BY <1>3, <2>1, <2>3, RunningKeeps DEF k
  <1>4. CASE \/ Finished(j, world, "HttpError")
             \/ Finished(j, world, "NetworkError")
    BY <1>1, <1>4, FinishedKeeps DEF Statuses, Failures
  <1>5. CASE Running(j, world)
    BY <1>5, RunningKeeps
  <1> QED BY <1>2, <1>3, <1>4, <1>5 DEF AfterRead

LEMMA ReadKeeps == ASSUME Consistent, Read PROVE Consistent'
  <1>1. job.state = "Read" /\ clock' \in Ticks /\ gap' \in 0..MaxGap
    BY Stepping DEF Read, States
  <1>2. (IF job.secure THEN Use(Use(world, "library"), "session")
         ELSE Use(world, "socket")) = world
    BY <1>1, UsesConnection
  <1>3. job \in Job /\ result \in Statuses /\ server \in Server
    BY <1>1, Work
  <1>4. Use(world, "store") = world
    BY <1>1, Work, UseSound
  <1>5. ASSUME NEW n \in 1..MaxUnits, server.got + n <= server.response.size,
               server' = [server EXCEPT !.got = @ + n],
               \/ AfterRead([job EXCEPT !.start = clock'], world, server', FALSE)
               \/ \E status \in {"HttpError", "StorageError"} :
                     Finished([job EXCEPT !.start = clock'], world, status)
        PROVE  Consistent'
    <2> DEFINE j == [job EXCEPT !.start = clock']
    <2>1. j \in Job /\ j.state = "Read"
      BY <1>1, <1>3 DEF Job
    <2>2. Holds(j) = Holds(job)
      BY <1>3 DEF Job, Holds
    <2>3. Working(j, world, server')
      BY <1>1, <2>2, Work DEF Working, Job, Online, Requested
    <2>4. server' \in Server
      <3>1. server.got + n \in 0..MaxUnits
        BY <1>3, <1>5, JobAssumption DEF Server, Response
      <3> QED BY <1>3, <1>5, <3>1 DEF Server
    <2> HIDE DEF j
    <2>5. Closable(j, world)
      BY <2>1, <2>3, WorkingClosable
    <2>6. CASE AfterRead(j, world, server', FALSE)
      BY <1>1, <1>3, <2>1, <2>3, <2>4, <2>6, AfterReadKeeps
    <2>7. ASSUME NEW status \in {"HttpError", "StorageError"}, Finished(j, world, status)
          PROVE  Consistent'
      BY <1>1, <2>4, <2>5, <2>7, FinishedKeeps DEF Statuses, Failures
    <2> QED BY <1>5, <2>6, <2>7 DEF j
  <1>6. ASSUME NEW eof \in BOOLEAN, AfterRead(job, world, server, eof), server' = server
        PROVE  Consistent'
    <2>1. Working(job, world, server')
      BY <1>1, <1>6, Work
    <2> QED BY <1>1, <1>3, <1>6, <2>1, AfterReadKeeps
  <1>7. ASSUME NEW status \in {"TlsError", "NetworkError"}, Finished(job, world, status),
               server' = server
        PROVE  Consistent'
    BY <1>1, <1>3, <1>7, FinishesHere DEF Statuses, Failures
  <1>8. \/ \E n \in 1..MaxUnits :
              LET s == [server EXCEPT !.got = @ + n]
              IN  /\ s.got <= server.response.size
                  /\ server' = s
                  /\ \/ AfterRead([job EXCEPT !.start = clock'], world, s, FALSE)
                     \/ \E status \in {"HttpError", "StorageError"} :
                           Finished([job EXCEPT !.start = clock'], world, status)
        \/ \E eof \in BOOLEAN : AfterRead(job, world, server, eof) /\ UNCHANGED server
        \/ /\ Finished(job, world, IF job.secure THEN "TlsError" ELSE "NetworkError")
           /\ UNCHANGED server
    BY <1>2, <1>4, Zenon DEF Read
  <1>9. \A n \in 1..MaxUnits : [server EXCEPT !.got = @ + n].got = server.got + n
    BY <1>3 DEF Server
  <1> QED BY <1>5, <1>6, <1>7, <1>8, <1>9

LEMMA FinalizeKeeps == ASSUME Consistent, Finalize PROVE Consistent'
  <1>1. /\ job.state = "Finalize" /\ clock' \in Ticks /\ gap' \in 0..MaxGap
        /\ server' = server
    BY Stepping DEF Finalize, States
  <1>2. Use(world, "store") = world
    BY <1>1, Work, UseSound
  <1>3. PICK status \in {"Ok", "StorageError"} : Finished(job, world, status)
    BY <1>2 DEF Finalize
  <1> QED BY <1>1, <1>3, FinishesHere, Work DEF Statuses, Failures

LEMMA CancelledStepKeeps == ASSUME Consistent, CancelledStep PROVE Consistent'
  <1>1. job.state # "None"
    BY DEF CancelledStep, Consistent, Idle, NoJob
  <1>2. clock' \in Ticks /\ gap' \in 0..MaxGap /\ server' = server
    BY JobAssumption DEF CancelledStep, Consistent, TypeOK
  <1> QED BY <1>1, <1>2, FinishesHere, Work DEF CancelledStep, Statuses, Failures

-----------------------------------------------------------------------------
(* The application's steps.                                                 *)

(* An application that has nothing but its library.                         *)
LEMMA Resting ==
    ASSUME Consistent, job.state = "None"
    PROVE  /\ job = NoJob /\ Sound(world) /\ result \in Statuses /\ server \in Server
           /\ clock \in Ticks /\ gap \in 0..MaxGap
           /\ world.held \subseteq {"library", "librarycode", "stray"}
           /\ "librarycode" \in world.held => "library" \in world.held
  BY DEF Consistent, TypeOK, Idle

LEMMA LaunchKeeps == ASSUME Consistent, Launch PROVE Consistent'
  <1>1. "library" \notin world.held
    BY DEF Launch, Opened
  <1>2. job.state = "None"
    BY <1>1, Work
  <1>3. PICK load \in BOOLEAN :
           world' = Take(TakeIf(world, "librarycode", load), "library")
    BY DEF Launch
  <1> DEFINE w == TakeIf(world, "librarycode", load)
  <1>4. Sound(world) /\ world.held \subseteq {"stray"}
    BY <1>1, <1>2, Resting
  <1>5. /\ Required("librarycode") = {} /\ Required("library") = {}
        /\ {"library", "librarycode"} \subseteq Resources
    BY DEF Required, Resources
  <1>6. Sound(w) /\ w.held \subseteq {"librarycode", "stray"}
    BY <1>4, <1>5, TakeSound DEF TakeIf
  <1> HIDE DEF w
  <1>7. Sound(Take(w, "library")) /\ Take(w, "library").held = w.held \cup {"library"}
    BY <1>5, <1>6, TakeSound
  <1>8. Idle(job, world')
    BY <1>2, <1>3, <1>6, <1>7, Resting DEF Idle, w
  <1>9. job' = job /\ server' = server /\ clock' = clock /\ gap' = gap /\ result' = "Ok"
    BY DEF Launch
  <1> QED BY <1>2, <1>8, <1>9 DEF Consistent, TypeOK, Idle, Sound, Statuses

(* From a start that has its store on: whatever fails, JobFinish undoes.    *)
LEMMA ClientStartKeeps ==
    ASSUME Consistent, job.state = "None", NEW w, Sound(w),
           w.held \subseteq Application, "library" \in w.held,
           NEW secure \in BOOLEAN, NEW load \in BOOLEAN, NEW blocks \in SUBSET Blocks,
           ClientStart(w, secure, load, blocks), server' = server,
           clock' = clock, gap' = 0
    PROVE  Consistent'
  <1> DEFINE begun == Take(w, "job")
             store == Take(begun, "store")
             buffered == TakeIf(store, "buffer", "buffer" \in blocks)
             taken == TakeIf(buffered, "request", "request" \in blocks)
             j == [NoJob EXCEPT !.secure = secure, !.blocks = blocks]
             loaded == [j EXCEPT !.netLoaded = load]
             coded == TakeIf(taken, "netcode", load)
             started == [loaded EXCEPT !.netOpen = TRUE, !.state = "Dns", !.start = clock]
             networked == Take(coded, "netlib")
  <1>1. /\ server' \in Server /\ clock' \in Ticks /\ gap' \in 0..MaxGap
    BY Resting, JobAssumption
  <1>2. /\ {"job", "store", "buffer", "request", "netcode", "netlib"} \subseteq Resources
        /\ Required("job") = {"library"} /\ Required("store") = {}
        /\ Required("buffer") = {} /\ Required("request") = {}
        /\ Required("netcode") = {} /\ Required("netlib") = {}
    BY DEF Resources, Blocks, Required
  <1>3. Sound(begun) /\ begun.held = w.held \cup {"job"}
    BY <1>2, TakeSound DEF Application
  <1> HIDE DEF begun
  <1>4. Sound(store) /\ store.held = w.held \cup {"job", "store"}
    BY <1>2, <1>3, TakeSound DEF Application
  <1> HIDE DEF store
  <1>5. /\ Sound(buffered)
        /\ buffered.held = store.held \cup (blocks \cap {"buffer"})
    <2>1. "buffer" \notin store.held
      BY <1>4 DEF Application
    <2>2. Sound(Take(store, "buffer"))
          /\ Take(store, "buffer").held = store.held \cup {"buffer"}
      BY <1>2, <1>4, <2>1, TakeSound
    <2>3. CASE "buffer" \in blocks
      BY <2>2, <2>3 DEF TakeIf
    <2>4. CASE "buffer" \notin blocks
      BY <1>4, <2>4 DEF TakeIf
    <2> QED BY <2>3, <2>4
  <1> HIDE DEF buffered
  <1>6. /\ Sound(taken)
        /\ taken.held = w.held \cup {"job", "store"} \cup blocks
    <2>1. "request" \notin buffered.held
      BY <1>4, <1>5 DEF Application
    <2>2. /\ Sound(taken)
          /\ taken.held = buffered.held \cup (blocks \cap {"request"})
      BY <1>2, <1>5, <2>1, TakeSound DEF TakeIf
    <2> HIDE DEF taken
    <2> QED BY <1>4, <1>5, <2>2 DEF Blocks
  <1> HIDE DEF taken
  <1>7. /\ Sound(coded)
        /\ coded.held = taken.held \cup (IF load THEN {"netcode"} ELSE {})
    BY <1>2, <1>6, TakeSound DEF Application, TakeIf, Blocks
  <1> HIDE DEF coded
  <1>8. /\ Sound(networked)
        /\ networked.held = coded.held \cup {"netlib"}
    <2>1. "netlib" \notin coded.held
      BY <1>6, <1>7 DEF Application, Blocks
    <2> QED BY <1>2, <1>7, <2>1, TakeSound
  <1> HIDE DEF networked
  <1>9. j \in Job /\ Holds(j) = {"job", "store"} \cup blocks
    BY NoJobTypeOK DEF NoJob, Job, Holds
  <1>10. /\ loaded \in Job /\ loaded.blocks = blocks
         /\ ~loaded.tlsOpen /\ ~loaded.session /\ ~loaded.socket /\ ~loaded.netOpen
         /\ Holds(loaded) = Holds(j) \cup (IF load THEN {"netcode"} ELSE {})
    BY NoJobTypeOK DEF NoJob, Job, Holds
  <1> HIDE DEF loaded
  <1>11. /\ started \in Job /\ started.state = "Dns" /\ started.blocks = blocks
         /\ started.netOpen
         /\ ~started.tlsOpen /\ ~started.session /\ ~started.socket
         /\ Holds(started) = Holds(loaded) \cup {"netlib"}
    <2>1. "Dns" \in States /\ clock \in Ticks
      BY Resting DEF States
    <2>2. started \in Job
      BY <1>10, <2>1 DEF Job
    <2>3. /\ started.state = "Dns" /\ started.netOpen = TRUE
          /\ started.blocks = loaded.blocks /\ started.netLoaded = loaded.netLoaded
          /\ started.tlsOpen = loaded.tlsOpen /\ started.session = loaded.session
          /\ started.socket = loaded.socket
      BY <1>10 DEF Job
    <2> HIDE DEF started
    <2> QED BY <1>10, <2>2, <2>3 DEF Holds
  <1> HIDE DEF started, j
  <1>12. Closable(j, taken)
    BY <1>6, <1>9 DEF Closable, Application, Blocks
  <1>13. Closable(loaded, coded)
    BY <1>6, <1>7, <1>9, <1>10 DEF Closable, Application, Blocks
  <1>14. blocks = Blocks => Working(started, networked, server')
    <2>1. networked.held \ Application = Holds(started)
      BY <1>6, <1>7, <1>8, <1>9, <1>10, <1>11 DEF Application, Blocks
    <2>2. ~Online(started) /\ ~Requested(started)
      BY <1>11 DEF Online, Requested
    <2>3. "library" \in networked.held /\ "session" \notin networked.held
      BY <1>6, <1>7, <1>8 DEF Application, Blocks
    <2> QED BY <1>8, <1>11, <2>1, <2>2, <2>3 DEF Working
  <1>15. \/ \E status \in {"StorageError", "NetworkError"} : Finished(j, taken, status)
         \/ Finished(loaded, coded, "NetworkError")
         \/ blocks = Blocks /\ job' = started /\ world' = networked /\ result' = "Ok"
    BY DEF ClientStart, begun, store, buffered, taken, coded, networked, j, loaded, started
  <1>16. CASE \E status \in {"StorageError", "NetworkError"} : Finished(j, taken, status)
    BY <1>1, <1>12, <1>16, FinishedKeeps DEF Statuses, Failures
  <1>17. CASE Finished(loaded, coded, "NetworkError")
    BY <1>1, <1>13, <1>17, FinishedKeeps DEF Statuses, Failures
  <1>18. CASE blocks = Blocks /\ job' = started /\ world' = networked /\ result' = "Ok"
    BY <1>1, <1>8, <1>11, <1>14, <1>18 DEF Consistent, TypeOK, Sound, Statuses
  <1> QED BY <1>15, <1>16, <1>17, <1>18

LEMMA StartDownloadKeeps == ASSUME Consistent, StartDownload PROVE Consistent'
  <1>1. /\ job.state = "None" /\ "library" \in world.held
        /\ server' = server /\ clock' = clock /\ gap' = 0
    BY DEF StartDownload, Opened
  <1>2. PICK certified \in BOOLEAN :
           LET w == TakeIf(world, "certificate", certified)
           IN  \/ Refused(w)
               \/ \E secure, load \in BOOLEAN, blocks \in SUBSET Blocks :
                     ClientStart(w, secure, load, blocks)
    BY DEF StartDownload
  <1> DEFINE w == TakeIf(world, "certificate", certified)
  <1>3. /\ Sound(w) /\ "library" \in w.held /\ w.held \subseteq Application
        /\ w.held \ {"certificate"} = world.held
    <2>1. "certificate" \in Resources /\ Required("certificate") = {}
      BY DEF Resources, Required
    <2> QED BY <1>1, <2>1, Resting, TakeSound DEF TakeIf, Application
  <1> HIDE DEF w
  <1>4. CASE Refused(w)
    <2>1. \A v \in {w, Strayed(w)} :
             /\ Sound(v) /\ v.held \subseteq Application
             /\ w.held \subseteq v.held /\ v.held \subseteq w.held \cup {"stray"}
      BY <1>3, StrayedSound
    <2>2. PICK v \in {w, Strayed(w)} :
             /\ job' = NoJob /\ world' = ReleaseDownloadCertificate(v)
             /\ result' \in Statuses
      BY <1>4 DEF Refused, Statuses, Failures
    <2>3. /\ Sound(world') /\ world'.held = v.held \ {"certificate"}
      BY <2>1, <2>2, Released
    <2>4. /\ world'.held \subseteq {"library", "librarycode", "stray"}
          /\ "library" \in world'.held
      BY <1>3, <2>1, <2>3 DEF Application
    <2>5. Idle(job', world')
      BY <2>2, <2>3, <2>4 DEF Idle
    <2>6. server' \in Server /\ clock' \in Ticks /\ gap' \in 0..MaxGap
      BY <1>1, Resting, JobAssumption
    <2> QED BY <2>2, <2>5, <2>6, NoJobTypeOK DEF Consistent, TypeOK, Idle, Sound
  <1>5. ASSUME NEW secure \in BOOLEAN, NEW load \in BOOLEAN, NEW blocks \in SUBSET Blocks,
               ClientStart(w, secure, load, blocks)
        PROVE  Consistent'
    BY <1>1, <1>3, <1>5, ClientStartKeeps
  <1> QED BY <1>2, <1>4, <1>5 DEF w

(* RunRequest's cleanup looks at what there is.                             *)
LEMMA CleansUp ==
    ASSUME NEW w, Sound(w), NEW opening \in BOOLEAN,
           w.held \subseteq Application
              \cup {"netcode", "netlib", "socket", "response", "session"}
    PROVE  /\ Sound(RequestCleanup(w, opening))
           /\ RequestCleanup(w, opening).held =
                 w.held \cap {"library", "librarycode", "stray"}
  <1> DEFINE closed == CloseTls(w, opening)
             untrusted == GiveIf(closed, "certificate", "certificate" \in w.held)
             emptied == GiveIf(untrusted, "response", "response" \in w.held)
             offline == GiveIf(emptied, "socket", "socket" \in w.held)
             unopened == GiveIf(offline, "netlib", "netlib" \in w.held)
             after == GiveIf(unopened, "netcode", "netcode" \in w.held)
  <1>0. RequestCleanup(w, opening) = after
    BY DEF RequestCleanup
  <1>1. Sound(closed) /\ closed.held = w.held \ {"session"}
    BY CloseTlsSound
  <1> HIDE DEF closed
  <1>2. Sound(untrusted) /\ untrusted.held = w.held \ {"session", "certificate"}
    <2>1. Supports("certificate") \cap closed.held = {}
      BY <1>1 DEF Supports, Application
    <2> QED BY <1>1, <2>1, GiveSound DEF GiveIf
  <1> HIDE DEF untrusted
  <1>3. Sound(emptied) /\ emptied.held = w.held \ {"session", "certificate", "response"}
    <2>1. Supports("response") \cap untrusted.held = {}
      BY DEF Supports
    <2> QED BY <1>2, <2>1, GiveSound DEF GiveIf
  <1> HIDE DEF emptied
  <1>4. /\ Sound(offline)
        /\ offline.held = w.held \ {"session", "certificate", "response", "socket"}
    <2>1. Supports("socket") \cap emptied.held = {}
      BY <1>3 DEF Supports
    <2> QED BY <1>3, <2>1, GiveSound DEF GiveIf
  <1> HIDE DEF offline
  <1>5. /\ Sound(unopened)
        /\ unopened.held =
              w.held \ {"session", "certificate", "response", "socket", "netlib"}
    <2>1. Supports("netlib") \cap offline.held = {}
      BY <1>4 DEF Supports
    <2> QED BY <1>4, <2>1, GiveSound DEF GiveIf
  <1> HIDE DEF unopened
  <1>6. Sound(after) /\ after.held = unopened.held \ {"netcode"}
    <2>1. Supports("netcode") \cap unopened.held = {}
      BY <1>5 DEF Supports
    <2> QED BY <1>5, <2>1, GiveSound DEF GiveIf
  <1> HIDE DEF after
  <1> QED BY <1>0, <1>5, <1>6 DEF Application

LEMMA RunRequestKeeps == ASSUME Consistent, RunRequest PROVE Consistent'
  <1>1. /\ job.state = "None" /\ "library" \in world.held
        /\ UNCHANGED <<job, result, server, clock, gap>>
    BY DEF RunRequest, Opened
  <1>2. Sound(world) /\ world.held \subseteq {"library", "librarycode", "stray"}
    BY <1>1, Resting
  <1>3. ASSUME NEW load \in BOOLEAN, NEW certified \in BOOLEAN, NEW opening \in BOOLEAN,
               LET net == TakeIf(world, "netcode", load)
                   open == Take(net, "netlib")
                   socket == Take(open, "socket")
                   buffered == Take(socket, "response")
                   trusted == TakeIf(buffered, "certificate", certified)
                   session == Take(trusted, "session")
               IN  \E w \in {world, net, open, socket, buffered, trusted, session,
                             Lost(session)} :
                      world' = RequestCleanup(w, opening)
        PROVE  Consistent'
    <2> DEFINE net == TakeIf(world, "netcode", load)
               open == Take(net, "netlib")
               socket == Take(open, "socket")
               buffered == Take(socket, "response")
               trusted == TakeIf(buffered, "certificate", certified)
               session == Take(trusted, "session")
               lost == Lost(session)
               Usable(w) == /\ Sound(w)
                            /\ w.held \subseteq Application
                                  \cup {"netcode", "netlib", "socket", "response",
                                        "session"}
                            /\ w.held \cap {"library", "librarycode", "stray"}
                                  = world.held
    <2>1. /\ {"netcode", "netlib", "socket", "response", "certificate", "session"}
                \subseteq Resources
          /\ Required("netcode") = {} /\ Required("netlib") = {}
          /\ Required("socket") = {"netlib"} /\ Required("response") = {}
          /\ Required("certificate") = {} /\ Required("session") = {"socket", "library"}
      BY DEF Resources, Required
    <2>2. Sound(net) /\ world.held \subseteq net.held
          /\ net.held \subseteq world.held \cup {"netcode"}
      BY <1>2, <2>1, TakeSound DEF TakeIf
    <2> HIDE DEF net
    <2>3. Sound(open) /\ open.held = net.held \cup {"netlib"}
      BY <1>2, <2>1, <2>2, TakeSound
    <2> HIDE DEF open
    <2>4. Sound(socket) /\ socket.held = net.held \cup {"netlib", "socket"}
      BY <1>2, <2>1, <2>2, <2>3, TakeSound
    <2> HIDE DEF socket
    <2>5. Sound(buffered) /\ buffered.held = net.held \cup {"netlib", "socket", "response"}
      BY <1>2, <2>1, <2>2, <2>4, TakeSound
    <2> HIDE DEF buffered
    <2>6. /\ Sound(trusted) /\ buffered.held \subseteq trusted.held
          /\ trusted.held \subseteq buffered.held \cup {"certificate"}
      BY <1>2, <2>1, <2>2, <2>5, TakeSound DEF TakeIf
    <2> HIDE DEF trusted
    <2>7. Sound(session) /\ session.held = trusted.held \cup {"session"}
      <3>1. {"socket", "library"} \subseteq trusted.held
        BY <1>1, <2>2, <2>5, <2>6
      <3>2. "session" \notin trusted.held
        BY <1>2, <2>2, <2>5, <2>6
      <3> QED BY <2>1, <2>6, <3>1, <3>2, TakeSound
    <2> HIDE DEF session
    <2>8. Sound(lost) /\ lost.held = session.held \ {"session"}
      BY <2>7, LostSound
    <2> HIDE DEF lost
    <2>9. Usable(world) /\ Usable(net) /\ Usable(open) /\ Usable(socket)
      BY <1>2, <2>2, <2>3, <2>4 DEF Application
    <2>10. Usable(buffered) /\ Usable(trusted)
      BY <1>2, <2>2, <2>5, <2>6 DEF Application
    <2>11. Usable(session) /\ Usable(lost)
      BY <1>2, <2>2, <2>5, <2>6, <2>7, <2>8 DEF Application
    <2>12. PICK w \in {world, net, open, socket, buffered, trusted, session, lost} :
              world' = RequestCleanup(w, opening)
      BY <1>3 DEF net, open, socket, buffered, trusted, session, lost
    <2>13. Usable(w)
      BY <2>9, <2>10, <2>11
    <2>14. Sound(world') /\ world'.held = world.held
      BY <2>12, <2>13, CleansUp
    <2> QED BY <1>1, <2>14 DEF Consistent, TypeOK, Idle, Sound
  <1> QED BY <1>3 DEF RunRequest

LEMMA CancelKeeps == ASSUME Consistent, Cancel PROVE Consistent'
  <1> DEFINE j == [job EXCEPT !.cancelled = TRUE]
  <1>1. /\ job.state # "None" /\ job' = j
        /\ UNCHANGED <<result, world, server, clock, gap>>
    BY DEF Cancel
  <1>2. j \in Job /\ j.state = job.state
    BY <1>1, Work DEF Job
  <1>3. Holds(j) = Holds(job)
    BY <1>1, Work DEF Job, Holds
  <1>4. Working(j, world, server)
    BY <1>1, <1>2, <1>3, Work DEF Working, Job, Online, Requested
  <1> HIDE DEF j
  <1> QED BY <1>1, <1>2, <1>4 DEF Consistent, TypeOK

LEMMA StopKeeps == ASSUME Consistent, Stop PROVE Consistent'
  <1> DEFINE cancelled == IF job.state = "None" THEN world
                          ELSE JobFinish(world, job, "Cancelled")
             mine == ReleaseDownloadCertificate(cancelled)
             released == Give(mine, "library")
             after == GiveIf(released, "librarycode", "librarycode" \in world.held)
  <1>1. /\ "library" \in world.held /\ job' = NoJob /\ world' = after
        /\ result' \in {result, "Cancelled"}
        /\ UNCHANGED <<server, clock, gap>>
    BY DEF Stop, Opened
  <1>2. /\ Sound(cancelled) /\ "library" \in cancelled.held
        /\ cancelled.held = world.held \cap Application
    <2>1. CASE job.state = "None"
      BY <1>1, <2>1, Resting DEF Application
    <2>2. CASE job.state # "None"
      BY <1>1, <2>2, Work, JobFinishes DEF Application
    <2> QED BY <2>1, <2>2
  <1> HIDE DEF cancelled
  <1>3. Sound(mine) /\ mine.held = cancelled.held \ {"certificate"}
    BY <1>2, Released
  <1> HIDE DEF mine
  <1>4. Sound(released) /\ released.held = mine.held \ {"library"}
    <2>1. "library" \in mine.held /\ Supports("library") \cap mine.held = {}
      BY <1>2, <1>3 DEF Supports, Application
    <2> QED BY <1>3, <2>1, GiveSound
  <1> HIDE DEF released
  <1>5. Sound(after) /\ after.held \subseteq {"stray"}
    <2>1. "librarycode" \in released.held <=> "librarycode" \in world.held
      BY <1>2, <1>3, <1>4 DEF Application
    <2>2. Supports("librarycode") \cap released.held = {}
      BY <1>4 DEF Supports
    <2>3. Sound(after) /\ after.held = released.held \ {"librarycode"}
      BY <1>4, <2>1, <2>2, GiveSound DEF GiveIf
    <2> QED BY <1>2, <1>3, <1>4, <2>3 DEF Application
  <1> HIDE DEF after
  <1>6. Idle(NoJob, after)
    BY <1>5 DEF Idle
  <1>7. result' \in Statuses
    BY <1>1 DEF Consistent, TypeOK, Statuses, Failures
  <1> QED BY <1>1, <1>5, <1>6, <1>7, NoJobTypeOK DEF Consistent, TypeOK, Sound

LEMMA TickKeeps == ASSUME Consistent, Tick PROVE Consistent'
  <1>1. gap' \in 0..MaxGap
    BY JobAssumption DEF Tick, Consistent, TypeOK
  <1>2. clock' \in Ticks
    <2>1. clock + 1 \in Nat /\ Word \in Nat \ {0}
      BY JobAssumption DEF Consistent, TypeOK, Ticks
    <2>2. (clock + 1) % Word \in 0..(Word - 1)
      BY <2>1
    <2> QED BY <2>2 DEF Tick, Ticks
  <1> QED BY <1>1, <1>2 DEF Tick, Consistent, TypeOK

-----------------------------------------------------------------------------
(* The induction.                                                           *)

LEMMA InitConsistent == Init => Consistent
  BY NoJobTypeOK, JobAssumption
     DEF Init, Consistent, TypeOK, Idle, Sound, World, Server, Response, Statuses

LEMMA StepConsistent == Consistent /\ [Next]_vars => Consistent'
  <1> SUFFICES ASSUME Consistent, [Next]_vars PROVE Consistent'
    OBVIOUS
  <1>1. CASE Launch \/ StartDownload \/ RunRequest
    BY <1>1, LaunchKeeps, StartDownloadKeeps, RunRequestKeeps
  <1>2. CASE Cancel \/ Stop \/ Tick
    BY <1>2, CancelKeeps, StopKeeps, TickKeeps
  <1>3. CASE Advance
    BY <1>3, DnsKeeps, SocketKeeps, ConnectStartKeeps, ConnectWaitKeeps, TlsOpenKeeps,
       TlsHandshakeKeeps, SendKeeps, ReadKeeps, FinalizeKeeps, CancelledStepKeeps
       DEF Advance
  <1>4. CASE UNCHANGED vars
    BY <1>4 DEF vars, Consistent, TypeOK
  <1> QED BY <1>1, <1>2, <1>3, <1>4 DEF Next

(* The ledger and the job always tell the same story.                       *)
THEOREM AlwaysConsistent == Spec => []Consistent
  BY InitConsistent, StepConsistent, PTL DEF Spec

(* The variables keep their types.                                          *)
THEOREM TypeCorrect == Spec => []TypeOK
  <1>1. Consistent => TypeOK
    BY DEF Consistent
  <1> QED BY <1>1, AlwaysConsistent, PTL

(* Whatever the platform and the server do, every call is one that may be   *)
(* made: nothing is used after it is gone, or taken or given back twice, or *)
(* given back under something that needs it.                                *)
THEOREM CallsStayInOrder == Spec => []CallsInOrder
  <1>1. Consistent => CallsInOrder
    BY DEF Consistent, Idle, Working, Sound, CallsInOrder
  <1> QED BY <1>1, AlwaysConsistent, PTL

(* However a download ends, nothing of it is left, but for what a store      *)
(* that failed to open left open.                                           *)
THEOREM NothingIsLeft == Spec => []NothingLeft
  <1>1. Consistent => NothingLeft
    BY DEF Consistent, Idle, NothingLeft
  <1> QED BY <1>1, AlwaysConsistent, PTL

-----------------------------------------------------------------------------
(* What the steps do to the state of the job and to the result.             *)

(* A step that ends the job badly.                                          *)
Failed == job' = NoJob /\ result' \in Failures

(* A step that goes on in one of these states, with the same redirect.      *)
GoesOn(states) ==
    job'.state \in states /\ job'.redirect = job.redirect

(* A redirect is followed.                                                  *)
Follows ==
    job'.state = "Dns" /\ job.redirect < MaxRedirects /\ job'.redirect = job.redirect + 1

Moved ==
    \/ Failed
    \/ job.state = "Dns" /\ GoesOn({"Dns", "Socket"})
    \/ job.state = "Socket" /\ GoesOn({"ConnectStart"})
    \/ job.state = "ConnectStart" /\ GoesOn({"ConnectWait", "TlsOpen", "Send"})
    \/ job.state = "ConnectWait" /\ GoesOn({"ConnectWait", "TlsOpen", "Send"})
    \/ job.state = "TlsOpen" /\ GoesOn({"TlsHandshake", "Send"})
    \/ job.state = "TlsHandshake" /\ GoesOn({"TlsHandshake", "Send"})
    \/ job.state = "Send" /\ GoesOn({"Send", "Read"})
    \/ job.state = "Read" /\ (GoesOn({"Read", "Finalize"}) \/ Follows)
    \/ job.state = "Finalize" /\ job' = NoJob /\ result' = "Ok"

LEMMA Connecting ==
    ASSUME Consistent, Dns \/ Socket \/ ConnectStart \/ ConnectWait
    PROVE  Moved
  <1>1. job \in Job
    BY DEF Consistent, TypeOK
  <1>2. CASE Dns
    BY <1>1, <1>2 DEF Dns, InState, Running, Finished, Job, Moved, GoesOn, Failed, Failures
  <1>3. CASE Socket
    BY <1>1, <1>3
       DEF Socket, InState, Running, Finished, Job, Moved, GoesOn, Failed, Failures
  <1>4. ASSUME NEW w, JobBeginRequest(job, w)
        PROVE  Failed \/ GoesOn({"TlsOpen", "Send"})
    BY <1>1, <1>4
       DEF JobBeginRequest, Running, Finished, Job, GoesOn, Failed, Failures
  <1>5. CASE ConnectStart
    <2>1. Failed \/ GoesOn({"TlsOpen", "Send"}) \/ GoesOn({"ConnectWait"})
      BY <1>1, <1>4, <1>5
         DEF ConnectStart, Running, Finished, Job, GoesOn, Failed, Failures
    <2> QED BY <1>5, <2>1 DEF ConnectStart, InState, GoesOn, Moved
  <1>6. CASE ConnectWait
    <2>1. Failed \/ GoesOn({"TlsOpen", "Send"}) \/ job' = job
      BY <1>1, <1>4, <1>6 DEF ConnectWait, Running, Finished, Failed, Failures
    <2> QED BY <1>6, <2>1 DEF ConnectWait, InState, GoesOn, Moved
  <1> QED BY <1>2, <1>3, <1>5, <1>6

LEMMA Requesting ==
    ASSUME Consistent, TlsOpen \/ TlsHandshake \/ Send
    PROVE  Moved
  <1>1. job \in Job
    BY DEF Consistent, TypeOK
  <1>2. CASE TlsOpen
    BY <1>1, <1>2
       DEF TlsOpen, InState, Running, Finished, Job, Moved, GoesOn, Failed, Failures
  <1>3. CASE TlsHandshake
    BY <1>1, <1>3
       DEF TlsHandshake, InState, Running, Finished, Job, Moved, GoesOn, Failed, Failures
  <1>4. CASE Send
    <2>1. job.state = "Send"
      BY <1>4 DEF Send, InState
    <2>2. \A sent : [job EXCEPT !.sent = sent].state = job.state
                    /\ [job EXCEPT !.sent = sent].redirect = job.redirect
      BY <1>1 DEF Job
    <2>3. \A sent : LET j == [[job EXCEPT !.sent = sent] EXCEPT !.state = "Read",
                                                                 !.start = clock']
                    IN  j.state = "Read" /\ j.redirect = job.redirect
      BY <1>1 DEF Job
    <2>4. \E w : \/ \E sent : Running([job EXCEPT !.sent = sent], w)
                 \/ \E sent : Running([[job EXCEPT !.sent = sent] EXCEPT
                                          !.state = "Read", !.start = clock'], w)
                 \/ \E j, status : /\ status \in {"TlsError", "NetworkError"}
                                   /\ Finished(j, w, status)
      BY <1>4, Zenon DEF Send
    <2>5. ASSUME NEW w, NEW sent,
                 \/ Running([job EXCEPT !.sent = sent], w)
                 \/ Running([[job EXCEPT !.sent = sent] EXCEPT !.state = "Read",
                                                               !.start = clock'], w)
          PROVE  GoesOn({"Send", "Read"})
      BY <2>1, <2>2, <2>3, <2>5 DEF Running, GoesOn
    <2>6. ASSUME NEW w, NEW j, NEW status \in {"TlsError", "NetworkError"},
                 Finished(j, w, status)
          PROVE  Failed
      BY <2>6 DEF Finished, Failed, Failures
    <2>7. Failed \/ GoesOn({"Send", "Read"})
      BY <2>4, <2>5, <2>6
    <2> QED BY <2>1, <2>7 DEF Moved
  <1> QED BY <1>2, <1>3, <1>4

LEMMA Receiving ==
    ASSUME Consistent, Read
    PROVE  Moved
  <1>1. job \in Job /\ job.state = "Read"
    BY DEF Consistent, TypeOK, Read, InState
  <1>2. ASSUME NEW j \in Job, j.state = "Read", j.redirect = job.redirect,
               NEW w, NEW s, NEW eof, AfterRead(j, w, s, eof)
        PROVE  Failed \/ GoesOn({"Read", "Finalize"}) \/ Follows
    <2> DEFINE left == Disconnected(j)
               closed == JobCloseConnection(w, j, FALSE)
    <2>1. CASE Redirect(j, w)
      <3>1. left \in Job /\ left.redirect = j.redirect
        BY DEF Disconnected, Job
      <3>2. \/ \E secure \in BOOLEAN :
                  /\ j.redirect < MaxRedirects
                  /\ Running([left EXCEPT !.state = "Dns", !.secure = secure,
                                          !.redirect = @ + 1, !.start = clock'], closed)
            \/ Finished(left, closed, "RedirectError")
        BY <2>1 DEF Redirect
      <3> HIDE DEF left, closed
      <3>3. ASSUME NEW secure \in BOOLEAN, j.redirect < MaxRedirects,
                   Running([left EXCEPT !.state = "Dns", !.secure = secure,
                                        !.redirect = @ + 1, !.start = clock'], closed)
            PROVE  Follows
        <4> DEFINE hops == left.redirect + 1
        <4>1. hops = job.redirect + 1
          BY <1>2, <3>1
        <4>2. Running([left EXCEPT !.state = "Dns", !.secure = secure,
                                   !.redirect = hops, !.start = clock'], closed)
          BY <3>3
        <4> HIDE DEF hops
        <4>3. job'.state = "Dns" /\ job'.redirect = hops
          BY <3>1, <4>2 DEF Running, Job
        <4> QED BY <1>2, <3>3, <4>1, <4>3 DEF Follows
      <3> QED BY <3>2, <3>3 DEF Finished, Failed, Failures
    <2>2. CASE Running([j EXCEPT !.state = "Finalize"], w)
      BY <1>2, <2>2 DEF Running, Job, GoesOn
    <2>3. CASE Finished(j, w, "HttpError") \/ Finished(j, w, "NetworkError")
      BY <2>3 DEF Finished, Failed, Failures
    <2>4. CASE Running(j, w)
      BY <1>2, <2>4 DEF Running, GoesOn
    <2> QED BY <1>2, <2>1, <2>2, <2>3, <2>4 DEF AfterRead
  <1> DEFINE j == [job EXCEPT !.start = clock']
             w == IF job.secure THEN Use(Use(world, "library"), "session")
                  ELSE Use(world, "socket")
  <1>3. j \in Job /\ j.state = "Read" /\ j.redirect = job.redirect
    <2>1. clock' \in Ticks
      BY Stepping DEF Read, States
    <2> QED BY <1>1, <2>1 DEF Job
  <1>4. \/ \E v, s : AfterRead(j, v, s, FALSE)
        \/ \E s, eof : AfterRead(job, w, s, eof)
        \/ \E k, v, status : /\ status \in {"HttpError", "StorageError", "TlsError",
                                            "NetworkError"}
                             /\ Finished(k, v, status)
    BY Zenon DEF Read
  <1> HIDE DEF j, w
  <1>5. Failed \/ GoesOn({"Read", "Finalize"}) \/ Follows
    BY <1>1, <1>2, <1>3, <1>4 DEF Finished, Failed, Failures
  <1> QED BY <1>1, <1>5 DEF Moved

LEMMA Steps ==
    ASSUME Consistent, Advance
    PROVE  Moved
  <1>1. CASE Finalize
    BY <1>1 DEF Finalize, InState, Finished, Moved, Failed, Failures
  <1>2. CASE CancelledStep
    BY <1>2 DEF CancelledStep, Finished, Moved, Failed, Failures
  <1> QED BY <1>1, <1>2, Connecting, Requesting, Receiving DEF Advance

-----------------------------------------------------------------------------
(* A download that says it is complete.                                     *)

LEMMA OnlyFinalizeIsOk ==
    ASSUME Consistent, Next, job.state # "None", job'.state = "None", result' = "Ok"
    PROVE  job.state = "Finalize"
  <1>1. CASE Launch \/ StartDownload \/ RunRequest
    BY <1>1 DEF Launch, StartDownload, RunRequest
  <1>2. CASE Cancel
    BY <1>2, Work DEF Cancel, Job
  <1>3. CASE Stop \/ Tick
    BY <1>3 DEF Stop, Tick
  <1>4. CASE Advance
    BY <1>4, Steps DEF Moved, Failed, Failures, GoesOn, Follows
  <1> QED BY <1>1, <1>2, <1>3, <1>4 DEF Next

(* A download that says it is complete has sent its request and had the     *)
(* whole of an answer that said where it ends, although the result says Ok  *)
(* from the start.  Of an answer that ends with its connection it says      *)
(* nothing: such a download ends Ok wherever it was cut (OkIsWhole).        *)
THEOREM OkMeansWhole == Spec => OkIsWhole
  <1> DEFINE A == (job.state # "None" /\ job'.state = "None" /\ result' = "Ok")
                  => /\ job.sent = RequestLength
                     /\ ~IsRedirect(server)
                     /\ server.response.framed => server.got = server.response.size
  <1>1. Consistent /\ [Next]_vars => [A]_vars
    <2> SUFFICES ASSUME Consistent, Next, job.state # "None", job'.state = "None",
                        result' = "Ok"
                 PROVE  /\ job.sent = RequestLength
                        /\ ~IsRedirect(server)
                        /\ server.response.framed => server.got = server.response.size
      OBVIOUS
    <2>1. job.state = "Finalize"
      BY OnlyFinalizeIsOk
    <2> QED BY <2>1, Work DEF Working, FinishOk
  <1>2. OkIsWhole <=> [][A]_vars
    BY DEF OkIsWhole
  <1> QED BY <1>1, <1>2, AlwaysConsistent, PTL DEF Spec

-----------------------------------------------------------------------------
(* The refinement.  The connection is open exactly while the job is online. *)

LEMMA OpenIsOnline ==
    Consistent => ((world.held \cap {"socket", "session"} # {}) <=> Online(job))
  <1> SUFFICES ASSUME Consistent
               PROVE  (world.held \cap {"socket", "session"} # {}) <=> Online(job)
    OBVIOUS
  <1>1. CASE job.state = "None"
    BY <1>1, Resting DEF Online
  <1>2. CASE job.state # "None"
    BY <1>2, Work, HoldsFields DEF Working, Online, Requested, Closable
  <1> QED BY <1>1, <1>2

LEMMA TransferInit == Init => Transfer!Init
  BY DEF Init, NoJob, Transfer!Init, Phase

LEMMA TransferStep ==
    Consistent /\ Consistent' /\ [Next]_vars => [Transfer!Next]_(Transfer!vars)
  <1> SUFFICES ASSUME Consistent, Consistent', [Next]_vars
               PROVE  Transfer!Next \/ UNCHANGED Transfer!vars
    OBVIOUS
  <1> DEFINE open == world.held \cap {"socket", "session"} # {}
             outcome == IF job.state = "None" THEN result ELSE "None"
  <1>1. (open <=> Online(job)) /\ (open' <=> Online(job)')
    <2>1. (Consistent => (open <=> Online(job)))'
      BY OpenIsOnline, PTL
    <2> QED BY <2>1, OpenIsOnline
  <1>2. job \in Job /\ job' \in Job /\ result \in Statuses
    BY DEF Consistent, TypeOK
  <1>3. ASSUME Phase' = Phase, job'.redirect = job.redirect, open' <=> open,
               outcome' = outcome
        PROVE  UNCHANGED Transfer!vars
    BY <1>3 DEF Transfer!vars
  <1> HIDE DEF open
  <1>4. ASSUME job' = NoJob, job.state # "None", result' \in Failures
        PROVE  Transfer!Fail
    <2>1. Phase # "idle" /\ Phase' = "idle"
      BY <1>2, <1>4 DEF Phase, NoJob, Job, States
    <2>2. ~open'
      BY <1>1, <1>4 DEF Online, NoJob
    <2> QED BY <1>4, <2>1, <2>2 DEF Transfer!Fail, NoJob, open
  <1>5. CASE Launch
    <2>1. job.state = "None" /\ job' = job /\ result' = "Ok"
      BY <1>5, Work DEF Launch, Opened
    <2>2. ~open /\ ~open'
      BY <1>1, <2>1 DEF Online
    <2>3. Transfer!Restart
      BY <2>1, <2>2 DEF Transfer!Restart, Phase, open
    <2> QED BY <2>3 DEF Transfer!Next
  <1>6. CASE StartDownload
    <2>1. job.state = "None"
      BY <1>6 DEF StartDownload
    <2>2. \/ /\ job' = NoJob
             /\ result' \in Failures \cup {"AlreadyComplete", "InvalidUrl"}
          \/ job'.state = "Dns" /\ job'.redirect = 0
      <3>1. ASSUME NEW w, NEW secure \in BOOLEAN, NEW load, NEW blocks \in SUBSET Blocks,
                   ClientStart(w, secure, load, blocks)
            PROVE  \/ job' = NoJob /\ result' \in Failures
                   \/ job'.state = "Dns" /\ job'.redirect = 0
        <4>1. ASSUME job' = [[[NoJob EXCEPT !.secure = secure, !.blocks = blocks]
                                EXCEPT !.netLoaded = load]
                                EXCEPT !.netOpen = TRUE, !.state = "Dns", !.start = clock]
              PROVE  job'.state = "Dns" /\ job'.redirect = 0
          BY <4>1 DEF NoJob
        <4>2. ASSUME NEW j, NEW v, NEW status \in {"StorageError", "NetworkError"},
                     Finished(j, v, status)
              PROVE  job' = NoJob /\ result' \in Failures
          BY <4>2 DEF Finished, Failures
        <4> QED BY <3>1, <4>1, <4>2 DEF ClientStart
      <3>2. ASSUME NEW w, Refused(w)
            PROVE  /\ job' = NoJob
                   /\ result' \in Failures \cup {"AlreadyComplete", "InvalidUrl"}
        BY <3>2 DEF Refused, Failures
      <3> QED BY <1>6, <3>1, <3>2 DEF StartDownload
    <2>3. ~open /\ ~open'
      BY <1>1, <2>1, <2>2 DEF Online, NoJob
    <2>4. CASE /\ job' = NoJob
               /\ result' \in Failures \cup {"AlreadyComplete", "InvalidUrl"}
      <3>1. Transfer!Refuse
        BY <2>1, <2>3, <2>4 DEF Transfer!Refuse, Phase, NoJob, open
      <3> QED BY <3>1 DEF Transfer!Next
    <2>5. CASE job'.state = "Dns" /\ job'.redirect = 0
      <3>1. Transfer!Begin
        BY <2>1, <2>3, <2>5 DEF Transfer!Begin, Phase, open
      <3> QED BY <3>1 DEF Transfer!Next
    <2> QED BY <2>2, <2>4, <2>5
  <1>7. CASE RunRequest \/ Tick \/ UNCHANGED vars
    <2>1. job' = job /\ result' = result
      BY <1>7 DEF RunRequest, Tick, vars
    <2> QED BY <1>1, <1>3, <2>1 DEF Phase, Online
  <1>8. CASE Cancel
    <2>1. job'.state = job.state /\ job'.redirect = job.redirect /\ result' = result
      BY <1>2, <1>8 DEF Cancel, Job
    <2> QED BY <1>1, <1>3, <2>1 DEF Phase, Online
  <1>9. CASE Stop
    <2>1. CASE job.state = "None"
      <3>1. job' = job /\ result' = result
        BY <1>9, <2>1, Resting DEF Stop
      <3> QED BY <1>1, <1>3, <3>1 DEF Phase, Online
    <2>2. CASE job.state # "None"
      <3>1. Transfer!Fail
        BY <1>4, <1>9, <2>2 DEF Stop, Failures
      <3> QED BY <3>1 DEF Transfer!Next
    <2> QED BY <2>1, <2>2
  <1>10. CASE Advance
    <2>1. job.state # "None"
      <3>1. CancelledStep => job.state # "None"
        BY DEF CancelledStep, Consistent, Idle, NoJob
      <3>2. /\ Dns \/ Socket => job.state # "None"
            /\ ConnectStart \/ ConnectWait => job.state # "None"
            /\ TlsOpen \/ TlsHandshake => job.state # "None"
            /\ Send => job.state # "None"
        BY Zenon DEF Dns, Socket, ConnectStart, ConnectWait, TlsOpen, TlsHandshake, Send,
           InState
      <3>3. Read \/ Finalize => job.state # "None"
        BY Zenon DEF Read, Finalize, InState
      <3> QED BY <1>10, <3>1, <3>2, <3>3 DEF Advance
    <2>2. CASE Failed
      BY <1>4, <2>1, <2>2 DEF Failed, Transfer!Next
    <2>3. ASSUME NEW states, GoesOn(states), Phase' = Phase, Online(job)' <=> Online(job),
                 "None" \notin states
          PROVE  UNCHANGED Transfer!vars
      BY <1>1, <1>3, <2>1, <2>3 DEF GoesOn
    <2>4. CASE job.state = "Dns" /\ GoesOn({"Dns", "Socket"})
      BY <2>3, <2>4 DEF Phase, Online, GoesOn
    <2>5. CASE job.state = "TlsOpen" /\ GoesOn({"TlsHandshake", "Send"})
      BY <2>3, <2>5 DEF Phase, Online, GoesOn
    <2>6. CASE job.state = "TlsHandshake" /\ GoesOn({"TlsHandshake", "Send"})
      BY <2>3, <2>6 DEF Phase, Online, GoesOn
    <2>7. CASE \/ job.state = "Socket" /\ GoesOn({"ConnectStart"})
               \/ /\ job.state \in {"ConnectStart", "ConnectWait"}
                  /\ GoesOn({"ConnectWait", "TlsOpen", "Send"})
      <3>1. open'
        BY <1>1, <2>7 DEF Online, GoesOn
      <3>2. Phase = "connecting" /\ Phase' \in {"connecting", "requesting"}
        BY <2>7 DEF Phase, GoesOn
      <3>3. Transfer!Connect
        BY <2>7, <3>1, <3>2 DEF Transfer!Connect, GoesOn, open
      <3> QED BY <3>3 DEF Transfer!Next
    <2>8. CASE job.state = "Send" /\ GoesOn({"Send", "Read"})
      <3>1. CASE job'.state = "Send"
        BY <2>3, <2>8, <3>1 DEF Phase, Online, GoesOn
      <3>2. CASE job'.state = "Read"
        <4>1. open /\ open' /\ Phase = "requesting" /\ Phase' = "receiving"
          BY <1>1, <2>8, <3>2 DEF Online, Phase
        <4>2. Transfer!Request
          BY <2>8, <3>2, <4>1 DEF Transfer!Request, GoesOn, open
        <4> QED BY <4>2 DEF Transfer!Next
      <3> QED BY <2>8, <3>1, <3>2 DEF GoesOn
    <2>9. CASE job.state = "Read" /\ GoesOn({"Read", "Finalize"})
      <3>1. CASE job'.state = "Read"
        BY <2>3, <2>9, <3>1 DEF Phase, Online, GoesOn
      <3>2. CASE job'.state = "Finalize"
        <4>1. open /\ open' /\ Phase = "receiving" /\ Phase' = "storing"
          BY <1>1, <2>9, <3>2 DEF Online, Phase
        <4>2. Transfer!Received
          BY <2>9, <3>2, <4>1 DEF Transfer!Received, GoesOn, open
        <4> QED BY <4>2 DEF Transfer!Next
      <3> QED BY <2>9, <3>1, <3>2 DEF GoesOn
    <2>10. CASE job.state = "Read" /\ Follows
      <3>1. ~open' /\ Phase = "receiving" /\ Phase' = "connecting"
        BY <1>1, <2>10 DEF Online, Phase, Follows
      <3>2. Transfer!Redirect
        BY <2>10, <3>1 DEF Transfer!Redirect, Follows, open
      <3> QED BY <3>2 DEF Transfer!Next
    <2>11. CASE job.state = "Finalize" /\ job' = NoJob /\ result' = "Ok"
      <3>1. ~open' /\ Phase = "storing" /\ Phase' = "idle"
        BY <1>1, <2>11 DEF Online, Phase, NoJob
      <3>2. Transfer!Store
        BY <2>11, <3>1 DEF Transfer!Store, NoJob, open
      <3> QED BY <3>2 DEF Transfer!Next
    <2> QED BY <1>10, <2>2, <2>4, <2>5, <2>6, <2>7, <2>8, <2>9, <2>10, <2>11, Steps
            DEF Moved
  <1> QED BY <1>5, <1>6, <1>7, <1>8, <1>9, <1>10 DEF Next

(* The job does what DownloadTransfer promises: it starts again only by a    *)
(* redirect, without a connection and a bounded number of times, and it     *)
(* ends well only after its answer has been received (TransferSpec).        *)
THEOREM ImplementsTransfer == Spec => TransferSpec
  BY TransferInit, TransferStep, AlwaysConsistent, PTL DEF Spec, TransferSpec, Transfer!Spec

-----------------------------------------------------------------------------
(* How sessions end.                                                        *)

(* What EndsAsItWas asks of a step.                                         *)
EndsRight ==
    ("session" \in world.held /\ "session" \notin world'.held)
    => /\ world'.ending = "closed" => job.tlsOpen
       /\ (job'.state = "None" /\ result' = "Cancelled") => world'.ending = "cancelled"

LEMMA FinishedEnding ==
    ASSUME NEW j, NEW w, NEW status, Closable(j, w), Finished(j, w, status)
    PROVE  world'.ending = IF "session" \in w.held
                           THEN IF status = "Cancelled" \/ ~j.tlsOpen THEN "cancelled"
                                ELSE "closed"
                           ELSE w.ending
  <1> DEFINE after == JobFinish(w, j, status)
  <1>1. /\ Sound(after) /\ after.held = w.held \cap Application
        /\ after.ending = IF "session" \in w.held
                          THEN IF status = "Cancelled" \/ ~j.tlsOpen THEN "cancelled"
                               ELSE "closed"
                          ELSE w.ending
    BY JobFinishes
  <1> HIDE DEF after
  <1>2. ReleaseDownloadCertificate(after).ending = after.ending
    BY <1>1, Released
  <1> QED BY <1>1, <1>2 DEF Finished, after

(* A job that finishes with the session it has.                             *)
LEMMA FinishesRight ==
    ASSUME Consistent, NEW j, NEW status, Closable(j, world), j.tlsOpen = job.tlsOpen,
           Finished(j, world, status)
    PROVE  EndsRight
  BY FinishedEnding DEF EndsRight, Finished

LEMMA RedirectEnds ==
    ASSUME Consistent, NEW j \in Job, Closable(j, world), j.tlsOpen = job.tlsOpen,
           Redirect(j, world)
    PROVE  EndsRight
  <1> DEFINE closed == JobCloseConnection(world, j, FALSE)
             left == Disconnected(j)
  <1>1. /\ Sound(closed) /\ closed.held = world.held \ {"session", "socket"}
        /\ closed.ending = IF "session" \in world.held
                           THEN IF ~j.tlsOpen THEN "cancelled" ELSE "closed"
                           ELSE world.ending
    BY ConnectionCloses
  <1>2. /\ left \in Job /\ ~left.session /\ ~left.socket
        /\ left.netOpen = j.netOpen /\ left.blocks = j.blocks
        /\ left.netLoaded = j.netLoaded
    BY DEF Disconnected, Job
  <1>3. Holds(left) = Holds(j) \ {"session", "socket"}
    <2>1. j.blocks \subseteq {"buffer", "request"}
      BY DEF Job, Blocks
    <2> HIDE DEF left
    <2> QED BY <1>2, <2>1 DEF Holds
  <1> HIDE DEF closed, left
  <1>4. Closable(left, closed)
    BY <1>1, <1>2, <1>3 DEF Closable, Application
  <1>5. \/ \E k : Running(k, closed) /\ k.state = "Dns"
        \/ Finished(left, closed, "RedirectError")
    <2>1. \A secure \in BOOLEAN : \A hops :
             [left EXCEPT !.state = "Dns", !.secure = secure,
                          !.redirect = hops, !.start = clock'].state = "Dns"
      BY <1>2 DEF Job
    <2>2. \/ \E secure \in BOOLEAN :
                Running([left EXCEPT !.state = "Dns", !.secure = secure,
                                     !.redirect = left.redirect + 1, !.start = clock'],
                        closed)
          \/ Finished(left, closed, "RedirectError")
      BY Zenon DEF Redirect, left, closed
    <2> QED BY <2>1, <2>2
  <1>6. CASE \E k : Running(k, closed) /\ k.state = "Dns"
    BY <1>1, <1>6 DEF EndsRight, Running
  <1>7. CASE Finished(left, closed, "RedirectError")
    <2>1. "session" \notin closed.held
      BY <1>1
    <2>2. world'.ending = closed.ending
      BY <1>4, <1>7, <2>1, FinishedEnding
    <2> QED BY <1>1, <1>7, <2>2 DEF EndsRight, Finished
  <1> QED BY <1>5, <1>6, <1>7

LEMMA ReadEnds ==
    ASSUME Consistent, Read
    PROVE  EndsRight
  <1>1. job.state = "Read" /\ clock' \in Ticks
    BY Stepping DEF Read, States
  <1>2. (IF job.secure THEN Use(Use(world, "library"), "session")
         ELSE Use(world, "socket")) = world
    BY <1>1, UsesConnection
  <1> DEFINE j == [job EXCEPT !.start = clock']
  <1>3. j \in Job /\ j.tlsOpen = job.tlsOpen /\ Closable(j, world)
    <2>1. j \in Job /\ j.tlsOpen = job.tlsOpen /\ j.session = job.session
      BY <1>1, Work DEF Job
    <2>2. Holds(j) = Holds(job)
      BY <1>1, Work DEF Job, Holds
    <2> QED BY <1>1, <2>1, <2>2, Work DEF Closable
  <1>4. \E k \in {j, job} : \/ \E s, eof : AfterRead(k, world, s, eof)
                            \/ \E status : Finished(k, world, status)
    <2>1. Use(world, "store") = world
      BY <1>1, Work, UseSound
    <2> QED BY <1>2, <2>1, Zenon DEF Read
  <1> HIDE DEF j
  <1>5. PICK k \in {j, job} : \/ \E s, eof : AfterRead(k, world, s, eof)
                              \/ \E status : Finished(k, world, status)
    BY <1>4
  <1>6. k \in Job /\ k.tlsOpen = job.tlsOpen /\ Closable(k, world)
    BY <1>1, <1>3, Work
  <1>7. CASE Redirect(k, world)
    BY <1>6, <1>7, RedirectEnds
  <1>8. CASE \E status : Finished(k, world, status)
    BY <1>6, <1>8, FinishesRight
  <1>9. CASE \E l : Running(l, world)
    BY <1>9 DEF Running, EndsRight
  <1>10. ASSUME NEW s, NEW eof, AfterRead(k, world, s, eof)
         PROVE  \/ Redirect(k, world) \/ \E status : Finished(k, world, status)
                \/ \E l : Running(l, world)
    BY <1>10, Zenon DEF AfterRead
  <1> QED BY <1>5, <1>7, <1>8, <1>9, <1>10

LEMMA TlsHandshakeEnds ==
    ASSUME Consistent, TlsHandshake
    PROVE  EndsRight
  <1>1. job.state = "TlsHandshake"
    BY DEF TlsHandshake, InState
  <1>2. /\ Use(world, "library") = world /\ ~job.tlsOpen /\ "session" \in world.held
        /\ world.ending = "none" /\ Closable(job, world)
    BY <1>1, Work, UseSound DEF Working, Requested
  <1>3. CASE \E l : Running(l, world)
    BY <1>3 DEF Running, EndsRight
  <1>4. CASE Finished(job, world, "TlsError")
    BY <1>2, <1>4, FinishesRight
  <1>5. CASE Finished(job, Lost(world), "TlsError")
    <2>1. /\ Sound(Lost(world)) /\ Lost(world).held = world.held \ {"session"}
          /\ Lost(world).ending = "none"
      BY <1>1, <1>2, Work, LostSound
    <2>2. Closable(job, Lost(world))
      BY <1>2, <2>1 DEF Closable
    <2>3. world'.ending = "none"
      BY <1>5, <2>1, <2>2, FinishedEnding
    <2> QED BY <1>5, <2>3 DEF EndsRight, Finished
  <1>6. (\E l : Running(l, world)) \/ Finished(job, world, "TlsError")
        \/ Finished(job, Lost(world), "TlsError")
    BY <1>2 DEF TlsHandshake
  <1> QED BY <1>3, <1>4, <1>5, <1>6

LEMMA SendEnds ==
    ASSUME Consistent, Send
    PROVE  EndsRight
  <1>1. job.state = "Send"
    BY DEF Send, InState
  <1>2. (IF job.secure THEN Use(Use(world, "library"), "session")
         ELSE Use(world, "socket")) = world
    BY <1>1, UsesConnection
  <1>3. CASE \E l : Running(l, world)
    BY <1>3 DEF Running, EndsRight
  <1>4. ASSUME NEW sent \in job.sent..RequestLength, NEW status,
               Finished([job EXCEPT !.sent = sent], world, status)
        PROVE  EndsRight
    <2> DEFINE j == [job EXCEPT !.sent = sent]
    <2>1. j \in Job /\ j.tlsOpen = job.tlsOpen /\ j.session = job.session
      BY <1>1, Work, JobAssumption DEF Job
    <2>2. Holds(j) = Holds(job)
      BY <1>1, Work DEF Job, Holds
    <2>3. Closable(j, world)
      BY <1>1, <2>1, <2>2, Work DEF Closable
    <2> HIDE DEF j
    <2> QED BY <1>4, <2>1, <2>3, FinishesRight DEF j
  <1>5. CASE \E status : Finished(job, world, status)
    BY <1>1, <1>5, Work, FinishesRight
  <1>6. \/ \E l : Running(l, world)
        \/ \E sent \in job.sent..RequestLength : \E status :
              Finished([job EXCEPT !.sent = sent], world, status)
        \/ \E status : Finished(job, world, status)
    BY <1>2, Zenon DEF Send
  <1> QED BY <1>3, <1>4, <1>5, <1>6

LEMMA StopEnds ==
    ASSUME Consistent, Stop
    PROVE  EndsRight
  <1> DEFINE cancelled == IF job.state = "None" THEN world
                          ELSE JobFinish(world, job, "Cancelled")
             mine == ReleaseDownloadCertificate(cancelled)
             released == Give(mine, "library")
             after == GiveIf(released, "librarycode", "librarycode" \in world.held)
  <1>1. CASE job.state = "None"
    BY <1>1, Resting DEF EndsRight
  <1>2. CASE job.state # "None"
    <2>1. world' = after /\ "library" \in world.held
      BY DEF Stop, Opened
    <2>2. /\ Sound(cancelled) /\ cancelled.held = world.held \cap Application
          /\ "session" \in world.held => cancelled.ending = "cancelled"
      BY <1>2, Work, JobFinishes
    <2> HIDE DEF cancelled
    <2>3. /\ Sound(mine) /\ mine.held = cancelled.held \ {"certificate"}
          /\ mine.ending = cancelled.ending
      BY <2>2, Released
    <2> HIDE DEF mine
    <2>4. /\ Sound(released) /\ released.held = mine.held \ {"library"}
          /\ released.ending = mine.ending
      <3>1. "library" \in mine.held /\ Supports("library") \cap mine.held = {}
        BY <2>1, <2>2, <2>3 DEF Supports, Application
      <3> QED BY <2>3, <3>1, GiveSound
    <2> HIDE DEF released
    <2>5. after.ending = released.ending
      <3>1. "librarycode" \in released.held <=> "librarycode" \in world.held
        BY <2>2, <2>3, <2>4 DEF Application
      <3>2. Supports("librarycode") \cap released.held = {}
        BY <2>4 DEF Supports
      <3> QED BY <2>4, <3>1, <3>2, GiveSound DEF GiveIf
    <2> QED BY <2>1, <2>2, <2>3, <2>4, <2>5 DEF EndsRight
  <1> QED BY <1>1, <1>2

LEMMA OthersEnd ==
    ASSUME Consistent, [Next]_vars, ~Stop, ~TlsHandshake, ~Send, ~Read
    PROVE  EndsRight
  <1>1. CASE \/ Launch \/ StartDownload \/ RunRequest
    <2>1. CASE job.state = "None"
      BY <2>1, Resting DEF EndsRight
    <2>2. CASE job.state # "None"
      BY <1>1, <2>2, Work DEF Launch, StartDownload, RunRequest, Opened
    <2> QED BY <2>1, <2>2
  <1>2. CASE Cancel \/ Tick \/ UNCHANGED vars
    BY <1>2 DEF Cancel, Tick, vars, EndsRight
  <1>3. CASE Dns \/ Socket \/ ConnectStart \/ ConnectWait \/ TlsOpen
    <2>1. job.state \in {"Dns", "Socket", "ConnectStart", "ConnectWait", "TlsOpen"}
      BY <1>3, Zenon DEF Dns, Socket, ConnectStart, ConnectWait, TlsOpen, InState
    <2>2. "session" \notin world.held
      BY <2>1, Work DEF Working, Requested, Closable
    <2> QED BY <2>2 DEF EndsRight
  <1>4. CASE Finalize
    <2>1. job.state = "Finalize"
      BY <1>4 DEF Finalize, InState
    <2>2. Use(world, "store") = world
      BY <2>1, Work, UseSound
    <2>3. PICK status \in {"Ok", "StorageError"} : Finished(job, world, status)
      BY <1>4, <2>2 DEF Finalize
    <2> QED BY <2>1, <2>3, Work, FinishesRight
  <1>5. CASE CancelledStep
    <2>1. job.state # "None"
      BY <1>5 DEF CancelledStep, Consistent, Idle, NoJob
    <2> QED BY <1>5, <2>1, Work, FinishesRight DEF CancelledStep
  <1> QED BY <1>1, <1>2, <1>3, <1>4, <1>5 DEF Next, Advance

(* A session that is still opening is never closed as if it were open, and  *)
(* a download that is called off cancels its session (EndsAsItWas).         *)
THEOREM SessionsEndRight == Spec => EndsAsItWas
  <1>1. Consistent /\ [Next]_vars => [EndsRight]_vars
    BY OthersEnd, StopEnds, TlsHandshakeEnds, SendEnds, ReadEnds
  <1>2. EndsAsItWas <=> [][EndsRight]_vars
    BY DEF EndsAsItWas, EndsRight
  <1> QED BY <1>1, <1>2, AlwaysConsistent, PTL DEF Spec
=============================================================================
