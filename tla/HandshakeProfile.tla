--------------------------- MODULE HandshakeProfile ---------------------------
(***************************************************************************)
(* The TLS 1.3 phase profiler (library/src/tls_handshake_profile.c): one     *)
(* profiler per control slot, one of them at most current, driven by the     *)
(* engine's entry point (tls_engine.c), by its scopes and by wolfSSL's.      *)
(*                                                                          *)
(* The counts of entries are left out: nothing depends on them.             *)
(***************************************************************************)
EXTENDS Naturals, Sequences

CONSTANTS
    Slots,        \* control slots
    None,         \* no profiler is current
    Wrap,         \* the tick clock counts modulo this; 2^32
    Depth,        \* nested phases a profiler can hold; 16
    DetailDepth,  \* nested detail phases; 8
    Starts,       \* clock readings to begin from
    MaxTicks,     \* bound: ticks of a behaviour
    MaxCalls,     \* bound: engine calls of a behaviour
    MaxScopes,    \* bound: scopes entered in a behaviour
    Detailed      \* bound: the details whose own scopes are entered

ASSUME ProfileAssumption ==
    /\ None \notin Slots
    /\ Detailed \subseteq {"ecdhe", "trust"}
    /\ Wrap \in Nat /\ MaxTicks \in Nat /\ MaxTicks < Wrap
    /\ MaxCalls \in Nat /\ MaxScopes \in Nat
    /\ Starts \subseteq 0..(Wrap - 1)
    /\ Depth \in Nat /\ DetailDepth \in Nat

VARIABLES
    profiler,  \* Slots -> the profiler
    gCurrent,
    now,       \* TimGetTicks
    inCall,    \* the slot an engine call is running on
    actual,    \* Slots -> what really happened since ProfileStart
    spent      \* against the bounds

vars == <<profiler, gCurrent, now, inCall, actual, spent>>

-----------------------------------------------------------------------------
(* A phase without details is like Trust with none of them entered.         *)
Phases == {"Other", "KeyAgreement", "Trust", "Idle"}
Details == {"ecdhe", "trust"}
DetailPhases == {"Other", "Work"}
Periods == {"handshake", "postHandshake"}
PhaseOf(detail) == IF detail = "ecdhe" THEN "KeyAgreement" ELSE "Trust"

NoTicks == [phase \in Phases |-> 0]
NoPeriod == [ticks |-> NoTicks, elapsed |-> 0, complete |-> FALSE]
NoDetail == [ticks |-> [phase \in DetailPhases |-> 0], elapsed |-> 0,
             complete |-> FALSE, phase |-> "Other", stack |-> <<>>, broken |-> FALSE]

Cleared ==
    [handshake |-> NoPeriod, postHandshake |-> NoPeriod,
     ecdhe |-> NoDetail, trust |-> NoDetail,
     lastTick |-> 0, periodStart |-> 0, phase |-> "Other", stack |-> <<>>,
     enabled |-> FALSE, running |-> FALSE, finished |-> FALSE, closed |-> FALSE,
     broken |-> FALSE]

Since(tick) == (now + Wrap - tick) % Wrap
Plus(ticks, phase, n) == [ticks EXCEPT ![phase] = (@ + n) % Wrap]

Bucket(p) == IF p.finished THEN "postHandshake" ELSE "handshake"

-----------------------------------------------------------------------------
(* The profiler's functions, as functions of the profiler.                  *)

(* Mutant of ChargeDetail: charged in every phase.                          *)
ChargeDetailAlways(p, detail, n) ==
    IF p.finished THEN p[detail]
    ELSE [p[detail] EXCEPT !.ticks = Plus(@, p[detail].phase, n), !.elapsed = (@ + n) % Wrap]

ChargeDetail(p, detail, n) ==
    IF p.finished \/ p.phase # PhaseOf(detail) THEN p[detail]
    ELSE [p[detail] EXCEPT !.ticks = Plus(@, p[detail].phase, n), !.elapsed = (@ + n) % Wrap]

Charge(p) ==
    LET n == Since(p.lastTick)
    IN  [p EXCEPT ![Bucket(p)].ticks = Plus(@, p.phase, n),
                  ![Bucket(p)].elapsed = Since(p.periodStart),
                  !.ecdhe = ChargeDetail(p, "ecdhe", n),
                  !.trust = ChargeDetail(p, "trust", n),
                  !.lastTick = now]

ProfileStart(enabled) ==
    [Cleared EXCEPT !.enabled = enabled, !.running = enabled,
                    !.lastTick = now, !.periodStart = now]

(* Mutant of Binds: a closed profile is bound again.                        *)
BindsClosed(p) == p.enabled

(* A profile that is closed or off is not bound: gCurrent stays empty.      *)
Binds(p) == p.enabled /\ ~p.closed

(* Mutant of ProfileBind: the gap is charged but the clock is left behind.  *)
ProfileBindStale(p) ==
    IF p.running THEN p
    ELSE [p EXCEPT ![Bucket(p)].ticks = Plus(@, "Idle", Since(p.lastTick)),
                   !.running = TRUE]

ProfileBind(p) ==
    IF p.running THEN p
    ELSE [p EXCEPT ![Bucket(p)].ticks = Plus(@, "Idle", Since(p.lastTick)),
                   !.lastTick = now,
                   !.running = TRUE]

(* A detail opens again with its phase.                                     *)
Reopened(p, phase) ==
    [detail \in Details |->
        IF phase = PhaseOf(detail) /\ ~p.finished
        THEN [p[detail] EXCEPT !.complete = FALSE]
        ELSE p[detail]]

(* Mutant of Full: one scope too many.                                      *)
FullLate(stack, depth) == Len(stack) = depth + 1

Full(stack, depth) == Len(stack) = depth

ProfileEnter(p, phase) ==
    IF Full(p.stack, Depth) THEN [p EXCEPT !.broken = TRUE]
    ELSE LET c == Charge(p)
             d == Reopened(c, phase)
         IN  [c EXCEPT !.stack = Append(@, p.phase), !.phase = phase,
                       !.ecdhe = d["ecdhe"], !.trust = d["trust"]]

Pop(stack) == SubSeq(stack, 1, Len(stack) - 1)

Settled(p, detail) ==
    IF p.phase = PhaseOf(detail) /\ ~p.finished
    THEN [p[detail] EXCEPT !.complete = ~p[detail].broken /\ p[detail].stack = <<>>]
    ELSE p[detail]

ProfileLeave(p) ==
    IF p.stack = <<>> THEN [p EXCEPT !.broken = TRUE]
    ELSE LET c == Charge(p)
         IN  [c EXCEPT !.ecdhe = Settled(c, "ecdhe"), !.trust = Settled(c, "trust"),
                       !.phase = p.stack[Len(p.stack)], !.stack = Pop(@)]

(* EcdheProfileEnter and TrustProfileEnter, and their Leaves.               *)
Active(p, detail) ==
    ~p.broken /\ ~p.finished /\ p.phase = PhaseOf(detail) /\ ~p[detail].broken

DetailEnter(p, detail, phase) ==
    IF Full(p[detail].stack, DetailDepth) THEN [p EXCEPT ![detail].broken = TRUE]
    ELSE LET c == Charge(p)
         IN  [c EXCEPT ![detail].stack = Append(@, p[detail].phase),
                       ![detail].phase = phase]

DetailLeave(p, detail) ==
    IF p[detail].stack = <<>> THEN [p EXCEPT ![detail].broken = TRUE]
    ELSE LET stack == p[detail].stack
         IN  [Charge(p) EXCEPT ![detail].phase = stack[Len(stack)], ![detail].stack = Pop(@)]

(* Mutant of ProfileSuspend: a scope left open is not noticed.              *)
ProfileSuspendOpen(p) == [Charge(p) EXCEPT !.running = FALSE]

ProfileSuspend(p) ==
    [Charge(p) EXCEPT !.broken = @ \/ p.stack # <<>>, !.running = FALSE]

Balanced(p) == ~p.broken /\ p.stack = <<>>

ProfileFinish(p) ==
    IF p.finished THEN p
    ELSE [Charge(p) EXCEPT !.handshake.complete = Balanced(p), !.finished = TRUE,
                           !.periodStart = now]

ProfileClose(p) ==
    [Charge(p) EXCEPT ![Bucket(p)].complete = Balanced(p), !.closed = TRUE,
                      !.running = FALSE]

-----------------------------------------------------------------------------
(* What really happened, for the properties: where the time of each period   *)
(* went, the scopes that are open, and the periods whose scopes have been     *)
(* opened and closed in pairs.                                              *)
NotStarted ==
    [period |-> "None", handshake |-> NoTicks, postHandshake |-> NoTicks,
     open |-> <<>>, paired |-> Periods]

(* A scope has gone wrong: it spoils the period it is in and the next.      *)
Unpaired(truth) ==
    [truth EXCEPT !.paired = IF truth.period = "handshake" THEN {} ELSE @ \ {"postHandshake"}]

(* A period ends, as the call ends, with no scope open if it is paired.     *)
Ended(truth) ==
    [truth EXCEPT !.paired = IF truth.open = <<>> THEN @ ELSE @ \ {truth.period}]

(* The innermost scope really open, in the slot the call runs on.           *)
Innermost(open) == IF open = <<>> THEN "Other" ELSE open[Len(open)]
Doing(s) == IF inCall = s THEN Innermost(actual[s].open) ELSE "Idle"

Clock == 0..(Wrap - 1)

Period == [ticks: [Phases -> Clock], elapsed: Clock, complete: BOOLEAN]

Detail ==
    [ticks: [DetailPhases -> Clock], elapsed: Clock, complete: BOOLEAN,
     phase: DetailPhases, stack: Seq(DetailPhases), broken: BOOLEAN]

Profiler ==
    [handshake: Period, postHandshake: Period, ecdhe: Detail, trust: Detail,
     lastTick: Clock, periodStart: Clock, phase: Phases, stack: Seq(Phases),
     enabled: BOOLEAN, running: BOOLEAN, finished: BOOLEAN, closed: BOOLEAN,
     broken: BOOLEAN]

History ==
    [period: Periods \cup {"None"}, handshake: [Phases -> Nat],
     postHandshake: [Phases -> Nat], open: Seq(Phases), paired: SUBSET Periods]

(* No stack outgrows its array, and a time is a time on the clock.          *)
TypeOK ==
    /\ profiler \in [Slots -> Profiler]
    /\ \A s \in Slots :
           /\ Len(profiler[s].stack) <= Depth
           /\ \A detail \in Details : Len(profiler[s][detail].stack) <= DetailDepth
    /\ gCurrent \in Slots \cup {None}
    /\ now \in Clock
    /\ inCall \in Slots \cup {None}
    /\ actual \in [Slots -> History]
    /\ spent \in [ticks: 0..MaxTicks, calls: 0..MaxCalls, scopes: 0..MaxScopes]

Init ==
    /\ profiler = [s \in Slots |-> Cleared]
    /\ gCurrent = None
    /\ now \in Starts
    /\ inCall = None
    /\ actual = [s \in Slots |-> NotStarted]
    /\ spent = [ticks |-> 0, calls |-> 0, scopes |-> 0]

-----------------------------------------------------------------------------
(* The engine's calls.                                                      *)

Tick ==
    /\ spent.ticks < MaxTicks
    /\ now' = (now + 1) % Wrap
    /\ actual' = [s \in Slots |->
                     IF actual[s].period = "None" THEN actual[s]
                     ELSE [actual[s] EXCEPT ![actual[s].period][Doing(s)] = @ + 1]]
    /\ spent' = [spent EXCEPT !.ticks = @ + 1]
    /\ UNCHANGED <<profiler, gCurrent, inCall>>

CallBegins(s) ==
    /\ inCall = None /\ spent.calls < MaxCalls
    /\ inCall' = s
    /\ spent' = [spent EXCEPT !.calls = @ + 1]
    /\ UNCHANGED now

(* palmTlsEngineSessionOpen: the profile of the session before goes.        *)
Open(s) ==
    /\ CallBegins(s)
    /\ \E enabled \in BOOLEAN :
           /\ profiler' = [profiler EXCEPT ![s] = ProfileStart(enabled)]
           /\ gCurrent' = IF enabled THEN s ELSE None
           /\ actual' = [actual EXCEPT
                  ![s] = IF enabled THEN [NotStarted EXCEPT !.period = "handshake"]
                         ELSE NotStarted]

(* Every other command.                                                     *)
Call(s) ==
    /\ CallBegins(s)
    /\ gCurrent' = IF Binds(profiler[s]) THEN s ELSE None
    /\ profiler' = IF Binds(profiler[s])
                   THEN [profiler EXCEPT ![s] = ProfileBind(@)] ELSE profiler
    /\ UNCHANGED actual

(* The last thing the entry point does.                                     *)
Return ==
    /\ inCall # None
    /\ inCall' = None
    /\ gCurrent' = None
    /\ profiler' = IF gCurrent = None THEN profiler
                   ELSE [profiler EXCEPT ![gCurrent] = ProfileSuspend(@)]
    /\ actual' = [actual EXCEPT ![inCall] =
                     IF @.open = <<>> \/ @.period = "None" THEN @ ELSE Unpaired(@)]
    /\ UNCHANGED <<now, spent>>

-----------------------------------------------------------------------------
(* What a call does on the way.  With no profiler current, or with one that *)
(* is broken or not active, the functions return at once.                    *)

Truth == actual[gCurrent]

(* f of the current profiler, and what is true of its slot.                 *)
Within(f, truth) ==
    /\ gCurrent # None
    /\ profiler' = [profiler EXCEPT ![gCurrent] = f]
    /\ actual' = [actual EXCEPT ![gCurrent] = truth]
    /\ UNCHANGED <<now, inCall>>

Scope == spent.scopes < MaxScopes /\ spent' = [spent EXCEPT !.scopes = @ + 1]

Enter(phase) ==
    /\ gCurrent # None /\ ~profiler[gCurrent].broken /\ Scope
    /\ Within(ProfileEnter(profiler[gCurrent], phase),
              [Truth EXCEPT !.open = Append(@, phase)])
    /\ UNCHANGED gCurrent

Leave ==
    /\ gCurrent # None /\ ~profiler[gCurrent].broken
    /\ Within(ProfileLeave(profiler[gCurrent]),
              IF Truth.open = <<>> THEN Unpaired(Truth)
              ELSE [Truth EXCEPT !.open = Pop(@)])
    /\ UNCHANGED <<gCurrent, spent>>

EnterDetail(detail) ==
    /\ gCurrent # None /\ Active(profiler[gCurrent], detail) /\ Scope
    /\ Within(DetailEnter(profiler[gCurrent], detail, "Work"), Truth)
    /\ UNCHANGED gCurrent

LeaveDetail(detail) ==
    /\ gCurrent # None /\ Active(profiler[gCurrent], detail)
    /\ Within(DetailLeave(profiler[gCurrent], detail), Truth)
    /\ UNCHANGED <<gCurrent, spent>>

(* The handshake has succeeded.                                             *)
Finish ==
    /\ gCurrent # None /\ ~profiler[gCurrent].finished
    /\ Within(ProfileFinish(profiler[gCurrent]), [Ended(Truth) EXCEPT !.period = "postHandshake"])
    /\ UNCHANGED <<gCurrent, spent>>

(* CloseSession.                                                            *)
Close ==
    /\ gCurrent # None
    /\ Within(ProfileClose(profiler[gCurrent]), [Ended(Truth) EXCEPT !.period = "None"])
    /\ gCurrent' = None
    /\ UNCHANGED spent

Next ==
    \/ Tick \/ Return \/ Leave \/ Finish \/ Close
    \/ \E s \in Slots : Open(s) \/ Call(s)
    \/ \E phase \in Phases \ {"Other", "Idle"} : Enter(phase)
    \/ \E detail \in Detailed : EnterDetail(detail) \/ LeaveDetail(detail)

Spec == Init /\ [][Next]_vars

-----------------------------------------------------------------------------
(* Properties.                                                              *)

Total(ticks) ==
    ticks["Other"] + ticks["KeyAgreement"] + ticks["Trust"] + ticks["Idle"]

DetailTotal(ticks) == ticks["Other"] + ticks["Work"]

(* Time not charged yet, and where it will go.                              *)
Pending(s, phase) ==
    LET p == profiler[s]
        where == IF p.running THEN p.phase ELSE "Idle"
    IN  IF p.closed \/ phase # where THEN 0 ELSE Since(p.lastTick)

(* API.md:172-191: while the scopes are paired, the ticks of a period are     *)
(* exclusive, each going to the innermost scope, and the time between two     *)
(* calls, those of another slot included, goes to Idle, over a clock that     *)
(* wraps.                                                                   *)
ExclusiveTicks ==
    \A s \in Slots :
        profiler[s].enabled /\ ~profiler[s].broken =>
            \A period \in Periods, phase \in Phases :
                profiler[s][period].ticks[phase]
                + (IF period = Bucket(profiler[s]) THEN Pending(s, phase) ELSE 0)
                = actual[s][period][phase]

(* API.md:173-174, 220-224 and 256: outside a call the ticks of a period add   *)
(* up to elapsedTicks, broken scopes or not, and a detail's ticks add up to     *)
(* its own and to its phase's in the handshake.                              *)
Partition ==
    \A s \in Slots :
        LET p == profiler[s]
        IN  /\ gCurrent # s =>
                   \A period \in Periods : Total(p[period].ticks) = p[period].elapsed
            /\ \A detail \in Details :
                   /\ DetailTotal(p[detail].ticks) = p[detail].elapsed
                   /\ p[detail].elapsed = p.handshake.ticks[PhaseOf(detail)]

(* API.md:194-196: a period that is complete ended with its scopes paired, no  *)
(* call having returned inside one.                                         *)
CompleteIsPaired ==
    \A s \in Slots, period \in Periods :
        profiler[s][period].complete => period \in actual[s].paired

(* API.md:198: a closed profile changes no more, whatever is called on its     *)
(* slot or on the other, until a session opens there.                        *)
ClosedIsKept ==
    [][\A s \in Slots :
          profiler[s].closed /\ profiler'[s].closed => profiler'[s] = profiler[s]]_vars
=============================================================================
