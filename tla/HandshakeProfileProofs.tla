------------------------ MODULE HandshakeProfileProofs ------------------------
(***************************************************************************)
(* Theorems about HandshakeProfile for any number of control slots, any     *)
(* width of the clock and depth of the stacks, and any scopes and calls, as *)
(* long as the ticks of a behaviour fit the counters (MaxTicks < Wrap).     *)
(***************************************************************************)
EXTENDS HandshakeProfile, TLAPS

-----------------------------------------------------------------------------
(* The inductive invariant, of one slot: its profiler p, what happened there *)
(* t, and whether p is the current one; "at" is the time, n the ticks so far. *)

(* The ticks from one reading of the clock to a later one.                  *)
Gone(tick, at) == (at + Wrap - tick) % Wrap

Live(p) == p.enabled /\ ~p.closed

(* Time uncharged, as Pending has it.                                       *)
Owed(p, phase, at) ==
    IF p.closed \/ phase # (IF p.running THEN p.phase ELSE "Idle") THEN 0
    ELSE Gone(p.lastTick, at)

(* Both clocks of a live profile tell the age of its period.                *)
Timed(p, t, at, n) ==
    /\ t.period = IF Live(p) THEN Bucket(p) ELSE "None"
    /\ Total(t.handshake) + Total(t.postHandshake) <= n
    /\ Live(p) =>
          /\ Gone(p.periodStart, at) = Total(t[Bucket(p)])
          /\ Total(p[Bucket(p)].ticks) + Gone(p.lastTick, at) = Total(t[Bucket(p)])
          /\ ~p.finished => p.postHandshake = NoPeriod /\ t.postHandshake = NoTicks
    /\ ~p.enabled => p.handshake = NoPeriod /\ p.postHandshake = NoPeriod

(* Only the period a call is charging lags behind its ticks.                *)
Summed(p, current) ==
    \A period \in Periods :
        \/ current /\ period = Bucket(p)
        \/ p[period].elapsed = Total(p[period].ticks)

DetailSummed(p) ==
    \A detail \in Details :
        /\ DetailTotal(p[detail].ticks) = p[detail].elapsed
        /\ p[detail].elapsed = p.handshake.ticks[PhaseOf(detail)]

(* A profiler not broken has the scopes that are really open, below Other.  *)
Scoped(p, t) ==
    Live(p) /\ ~p.broken =>
        /\ p.phase = Innermost(t.open)
        /\ Len(p.stack) = Len(t.open)
        /\ \A i \in 1..Len(p.stack) :
              p.stack[i] = IF i = 1 THEN "Other" ELSE t.open[i - 1]

Exclusive(p, t, at) ==
    p.enabled /\ ~p.broken =>
        \A period \in Periods, phase \in Phases :
            p[period].ticks[phase]
            + (IF period = Bucket(p) THEN Owed(p, phase, at) ELSE 0)
            = t[period][phase]

(* A period is not complete before its end; until it breaks it is paired.   *)
Paired(p, t) ==
    /\ \A period \in Periods : p[period].complete => period \in t.paired
    /\ Live(p) => ~p[Bucket(p)].complete
    /\ Live(p) /\ ~p.broken => {Bucket(p), "postHandshake"} \subseteq t.paired

SlotOK(p, t, current, at, n) ==
    /\ Live(p) => (p.running <=> current)
    /\ Timed(p, t, at, n)
    /\ Summed(p, current)
    /\ DetailSummed(p)
    /\ Scoped(p, t)
    /\ Exclusive(p, t, at)
    /\ Paired(p, t)

Consistent ==
    /\ TypeOK
    /\ gCurrent # None => inCall = gCurrent /\ Live(profiler[gCurrent])
    /\ \A s \in Slots : inCall = s /\ Live(profiler[s]) => gCurrent = s
    /\ \A s \in Slots : SlotOK(profiler[s], actual[s], gCurrent = s, now, spent.ticks)

-----------------------------------------------------------------------------
(* The clock and the counters.                                              *)

LEMMA ModRange ==
    ASSUME NEW a \in Nat, NEW n \in Nat \ {0}
    PROVE  a % n \in 0..(n - 1)
OBVIOUS

LEMMA ModBelow ==
    ASSUME NEW a \in Nat, NEW n \in Nat, a < n
    PROVE  a % n = a
OBVIOUS

LEMMA ModOver ==
    ASSUME NEW a \in Nat, NEW n \in Nat, n <= a, a < 2 * n
    PROVE  a % n = a - n
OBVIOUS

LEMMA ClockFacts ==
    /\ Wrap \in Nat \ {0} /\ MaxTicks \in Nat /\ MaxTicks < Wrap
    /\ Clock \subseteq Nat
    /\ 0 \in Clock
    /\ \A x \in Clock : x < Wrap
BY ProfileAssumption DEF Clock

LEMMA GoneTypes ==
    ASSUME NEW tick \in Clock, NEW at \in Clock
    PROVE  Gone(tick, at) \in Clock
<1>1. at + Wrap - tick \in Nat
  BY ClockFacts
<1> QED
  BY <1>1, ModRange, ClockFacts DEF Gone, Clock

LEMMA GoneIs ==
    ASSUME NEW tick \in Clock, NEW at \in Clock
    PROVE  Gone(tick, at) = IF tick <= at THEN at - tick ELSE at + Wrap - tick
<1> DEFINE a == at + Wrap - tick
<1>0. a \in Nat /\ at \in Nat /\ tick \in Nat /\ Wrap \in Nat /\ tick < Wrap /\ at < Wrap
  BY ClockFacts
<1>1. CASE tick <= at
  <2>1. Wrap <= a /\ a < 2 * Wrap /\ a - Wrap = at - tick
    BY <1>0, <1>1
  <2> HIDE DEF a
  <2>2. a % Wrap = at - tick
    BY <1>0, <2>1, ModOver
  <2> QED
    BY <2>2, <1>1 DEF Gone, a
<1>2. CASE ~ (tick <= at)
  <2>1. a < Wrap
    BY <1>0, <1>2
  <2> HIDE DEF a
  <2>2. a % Wrap = a
    BY <1>0, <2>1, ModBelow
  <2> QED
    BY <2>2, <1>2 DEF Gone, a
<1> QED
  BY <1>1, <1>2

(* A tick adds one, across the wrap of the clock too.                       *)
LEMMA GoneTicks ==
    ASSUME NEW tick \in Clock, NEW at \in Clock, Gone(tick, at) + 1 < Wrap
    PROVE  /\ (at + 1) % Wrap \in Clock
           /\ Gone(tick, (at + 1) % Wrap) = Gone(tick, at) + 1
<1> DEFINE next == (at + 1) % Wrap
<1>0. at \in Nat /\ tick \in Nat /\ Wrap \in Nat /\ tick < Wrap /\ at < Wrap
  BY ClockFacts
<1>1. next = IF at + 1 < Wrap THEN at + 1 ELSE 0
  <2>1. CASE at + 1 < Wrap
    <3>1. at + 1 \in Nat
      BY <1>0
    <3> QED
      BY <3>1, <2>1, <1>0, ModBelow
  <2>2. CASE ~ (at + 1 < Wrap)
    <3>1. at + 1 = Wrap
      BY <1>0, <2>2
    <3>2. Wrap % Wrap = Wrap - Wrap
      BY ClockFacts, ModOver
    <3> QED
      BY <3>1, <3>2, <2>2, ClockFacts
  <2> QED
    BY <2>1, <2>2
<1>2. next \in Clock
  BY <1>0, <1>1 DEF Clock
<1> HIDE DEF next
<1>3. Gone(tick, next) = Gone(tick, at) + 1
  BY <1>0, <1>1, <1>2, GoneIs
<1> QED
  BY <1>2, <1>3 DEF next

LEMMA TotalNat ==
    ASSUME NEW ticks \in [Phases -> Nat]
    PROVE  /\ Total(ticks) \in Nat
           /\ \A phase \in Phases : ticks[phase] \in Nat /\ ticks[phase] <= Total(ticks)
BY DEF Total, Phases

(* One more tick for a phase is one more of the total.                      *)
LEMMA TotalAdds ==
    ASSUME NEW ticks \in [Phases -> Nat], NEW phase \in Phases, NEW n \in Nat
    PROVE  /\ [ticks EXCEPT ![phase] = @ + n] \in [Phases -> Nat]
           /\ Total([ticks EXCEPT ![phase] = @ + n]) = Total(ticks) + n
BY DEF Total, Phases

LEMMA PlusTypes ==
    ASSUME NEW P, NEW ticks \in [P -> Clock], NEW phase \in P, NEW n \in Clock
    PROVE  Plus(ticks, phase, n) \in [P -> Clock]
<1>0. ticks[phase] \in Nat /\ n \in Nat
  <2>1. ticks[phase] \in Clock
    OBVIOUS
  <2> QED
    BY <2>1, ClockFacts
<1>1. ticks[phase] + n \in Nat
  BY <1>0
<1>2. (ticks[phase] + n) % Wrap \in Clock
  BY <1>1, ModRange, ClockFacts DEF Clock
<1> QED
  BY <1>2 DEF Plus

(* A charge that fits the counter.                                          *)
LEMMA PlusExact ==
    ASSUME NEW P, NEW ticks \in [P -> Clock], NEW phase \in P, NEW n \in Clock,
           ticks[phase] + n < Wrap
    PROVE  Plus(ticks, phase, n) = [ticks EXCEPT ![phase] = @ + n]
<1>0. ticks[phase] \in Nat /\ n \in Nat
  <2>1. ticks[phase] \in Clock
    OBVIOUS
  <2> QED
    BY <2>1, ClockFacts
<1>1. ticks[phase] + n \in Nat
  BY <1>0
<1>2. (ticks[phase] + n) % Wrap = ticks[phase] + n
  BY <1>1, ModBelow, ClockFacts
<1> QED
  BY <1>2 DEF Plus

LEMMA PlusTotal ==
    ASSUME NEW ticks \in [Phases -> Clock], NEW phase \in Phases, NEW n \in Clock,
           Total(ticks) + n < Wrap
    PROVE  /\ Plus(ticks, phase, n) \in [Phases -> Clock]
           /\ Plus(ticks, phase, n) = [ticks EXCEPT ![phase] = @ + n]
           /\ Total(Plus(ticks, phase, n)) = Total(ticks) + n
<1>1. ticks \in [Phases -> Nat] /\ n \in Nat
  BY ClockFacts
<1>2. ticks[phase] + n < Wrap
  BY <1>1, TotalNat, ClockFacts
<1> QED
  BY <1>1, <1>2, PlusTypes, PlusExact, TotalAdds

-----------------------------------------------------------------------------
(* A charge.                                                                *)

LEMMA SinceTypes ==
    ASSUME NEW tick \in Clock, now \in Clock
    PROVE  Since(tick) \in Clock /\ Since(tick) = Gone(tick, now)
BY GoneTypes DEF Since, Gone

LEMMA ChargeDetailTypes ==
    ASSUME NEW p \in Profiler, NEW detail \in Details, NEW n \in Clock
    PROVE  /\ ChargeDetail(p, detail, n) \in Detail
           /\ ChargeDetail(p, detail, n).complete = p[detail].complete
           /\ ChargeDetail(p, detail, n).phase = p[detail].phase
           /\ ChargeDetail(p, detail, n).stack = p[detail].stack
           /\ ChargeDetail(p, detail, n).broken = p[detail].broken
<1>1. p[detail] \in Detail
  BY DEF Profiler, Details
<1>2. Plus(p[detail].ticks, p[detail].phase, n) \in [DetailPhases -> Clock]
  BY <1>1, PlusTypes DEF Detail
<1>3. (p[detail].elapsed + n) % Wrap \in Clock
  <2>1. p[detail].elapsed \in Clock
    BY <1>1 DEF Detail
  <2>2. p[detail].elapsed \in Nat /\ n \in Nat
    BY <2>1, ClockFacts
  <2>3. p[detail].elapsed + n \in Nat
    BY <2>2
  <2> QED
    BY <2>3, ModRange, ClockFacts DEF Clock
<1> QED
  BY <1>1, <1>2, <1>3 DEF ChargeDetail, Detail

(* What a charge changes, field by field.                                   *)
LEMMA ChargeFields ==
    ASSUME NEW p \in Profiler, now \in Clock
    PROVE  LET c == Charge(p)
               n == Since(p.lastTick)
               charged == [p[Bucket(p)] EXCEPT !.ticks = Plus(@, p.phase, n),
                                               !.elapsed = Since(p.periodStart)]
           IN  /\ c \in Profiler
               /\ c.handshake = IF p.finished THEN p.handshake ELSE charged
               /\ c.postHandshake = IF p.finished THEN charged ELSE p.postHandshake
               /\ c.ecdhe = ChargeDetail(p, "ecdhe", n)
               /\ c.trust = ChargeDetail(p, "trust", n)
               /\ c.lastTick = now
               /\ c.periodStart = p.periodStart /\ c.phase = p.phase
               /\ c.stack = p.stack /\ c.enabled = p.enabled
               /\ c.running = p.running /\ c.finished = p.finished
               /\ c.closed = p.closed /\ c.broken = p.broken
<1> DEFINE n == Since(p.lastTick)
           charged == [p[Bucket(p)] EXCEPT !.ticks = Plus(@, p.phase, n),
                                           !.elapsed = Since(p.periodStart)]
<1>1. n \in Clock /\ Since(p.periodStart) \in Clock
  BY SinceTypes DEF Profiler
<1>2. Bucket(p) = IF p.finished THEN "postHandshake" ELSE "handshake"
  BY DEF Bucket
<1>3. p[Bucket(p)] \in Period
  BY <1>2 DEF Profiler
<1>4. Plus(p[Bucket(p)].ticks, p.phase, n) \in [Phases -> Clock]
  <2> HIDE DEF n
  <2> QED
    BY <1>1, <1>3, PlusTypes DEF Period, Profiler
<1>5. charged \in Period
  <2> HIDE DEF n
  <2> QED
    BY <1>1, <1>3, <1>4 DEF Period
<1>6. ChargeDetail(p, "ecdhe", n) \in Detail /\ ChargeDetail(p, "trust", n) \in Detail
  <2> HIDE DEF n
  <2> QED
    BY <1>1, ChargeDetailTypes DEF Details
<1>7. Charge(p) = [p EXCEPT ![Bucket(p)].ticks = Plus(@, p.phase, n),
                  ![Bucket(p)].elapsed = Since(p.periodStart),
                  !.ecdhe = ChargeDetail(p, "ecdhe", n),
                  !.trust = ChargeDetail(p, "trust", n),
                  !.lastTick = now]
  BY DEF Charge
<1> DEFINE e == ChargeDetail(p, "ecdhe", n)
           r == ChargeDetail(p, "trust", n)
           w == Plus(p[Bucket(p)].ticks, p.phase, n)
           x == Since(p.periodStart)
<1>8. CASE p.finished
  <2> HIDE DEF n, e, r, w, x
  <2>1. Charge(p) = [p EXCEPT !.postHandshake.ticks = w, !.postHandshake.elapsed = x,
                              !.ecdhe = e, !.trust = r, !.lastTick = now]
    BY <1>7, <1>2, <1>8 DEF e, r, w, x
  <2>2. charged = [p.postHandshake EXCEPT !.ticks = w, !.elapsed = x]
    BY <1>2, <1>8 DEF w, x
  <2> DEFINE c == Charge(p)
  <2>3. c = [p EXCEPT !.postHandshake = charged, !.ecdhe = e, !.trust = r, !.lastTick = now]
    BY <2>1, <2>2, <1>8 DEF Profiler, Period
  <2>4. e \in Detail /\ r \in Detail
    BY <1>6 DEF e, r, n
  <2> HIDE DEF c, charged
  <2>5. c \in Profiler
    BY <2>3, <2>4, <1>5 DEF Profiler
  <2>6. /\ c.postHandshake = charged /\ c.handshake = p.handshake /\ c.ecdhe = e /\ c.trust = r
        /\ c.lastTick = now /\ c.periodStart = p.periodStart /\ c.phase = p.phase
        /\ c.stack = p.stack /\ c.enabled = p.enabled /\ c.running = p.running
        /\ c.finished = p.finished /\ c.closed = p.closed /\ c.broken = p.broken
    BY <2>3 DEF Profiler
  <2> QED
    BY <2>5, <2>6, <1>8 DEF c, charged, e, r, n, w, x
<1>9. CASE ~p.finished
  <2> HIDE DEF n, e, r, w, x
  <2>1. Charge(p) = [p EXCEPT !.handshake.ticks = w, !.handshake.elapsed = x,
                              !.ecdhe = e, !.trust = r, !.lastTick = now]
    BY <1>7, <1>2, <1>9 DEF e, r, w, x
  <2>2. charged = [p.handshake EXCEPT !.ticks = w, !.elapsed = x]
    BY <1>2, <1>9 DEF w, x
  <2> DEFINE c == Charge(p)
  <2>3. c = [p EXCEPT !.handshake = charged, !.ecdhe = e, !.trust = r, !.lastTick = now]
    BY <2>1, <2>2, <1>9 DEF Profiler, Period
  <2>4. e \in Detail /\ r \in Detail
    BY <1>6 DEF e, r, n
  <2> HIDE DEF c, charged
  <2>5. c \in Profiler
    BY <2>3, <2>4, <1>5 DEF Profiler
  <2>6. /\ c.handshake = charged /\ c.postHandshake = p.postHandshake /\ c.ecdhe = e /\ c.trust = r
        /\ c.lastTick = now /\ c.periodStart = p.periodStart /\ c.phase = p.phase
        /\ c.stack = p.stack /\ c.enabled = p.enabled /\ c.running = p.running
        /\ c.finished = p.finished /\ c.closed = p.closed /\ c.broken = p.broken
    BY <2>3 DEF Profiler
  <2> QED
    BY <2>5, <2>6, <1>9 DEF c, charged, e, r, n, w, x
<1> QED
  BY <1>8, <1>9

-----------------------------------------------------------------------------
(* Types.                                                                   *)

Sized(p) ==
    /\ Len(p.stack) <= Depth
    /\ \A detail \in Details : Len(p[detail].stack) <= DetailDepth

LEMMA PopFacts ==
    ASSUME NEW S, NEW stack \in Seq(S), stack # <<>>
    PROVE  /\ Pop(stack) \in Seq(S)
           /\ Len(Pop(stack)) = Len(stack) - 1
           /\ \A i \in 1..(Len(stack) - 1) : Pop(stack)[i] = stack[i]
           /\ Len(stack) \in Nat \ {0}
           /\ stack[Len(stack)] \in S
<1>1. Len(stack) \in Nat \ {0} /\ stack[Len(stack)] \in S
  OBVIOUS
<1>2. \A i \in 1..(Len(stack) - 1) : stack[i] \in S
  BY <1>1
<1>3. /\ Len(Pop(stack)) = Len(stack) - 1
      /\ \A i \in 1..(Len(stack) - 1) : Pop(stack)[i] = stack[i]
  BY <1>1 DEF Pop
<1>4. Pop(stack) \in Seq(S)
  BY <1>1, <1>2 DEF Pop
<1> QED
  BY <1>1, <1>3, <1>4

LEMMA PushFacts ==
    ASSUME NEW S, NEW stack \in Seq(S), NEW x \in S
    PROVE  /\ Append(stack, x) \in Seq(S)
           /\ Len(Append(stack, x)) = Len(stack) + 1
           /\ \A i \in 1..Len(stack) : Append(stack, x)[i] = stack[i]
           /\ Append(stack, x)[Len(stack) + 1] = x
           /\ Len(stack) \in Nat
OBVIOUS

LEMMA ChargeTypes ==
    ASSUME NEW p \in Profiler, Sized(p), now \in Clock
    PROVE  LET c == Charge(p)
           IN  /\ c \in Profiler /\ Sized(c)
               /\ \A detail \in Details :
                     /\ c[detail] \in Detail
                     /\ c[detail].phase = p[detail].phase
                     /\ c[detail].stack = p[detail].stack
                     /\ c[detail].broken = p[detail].broken
                     /\ c[detail].complete = p[detail].complete
<1> DEFINE c == Charge(p)
           n == Since(p.lastTick)
<1>1. n \in Clock
  BY SinceTypes DEF Profiler
<1>2. c \in Profiler /\ c.stack = p.stack
  BY ChargeFields
<1>3. \A detail \in Details : c[detail] = ChargeDetail(p, detail, n)
  BY ChargeFields DEF Details
<1> HIDE DEF c, n
<1>4. \A detail \in Details :
         /\ c[detail] \in Detail
         /\ c[detail].phase = p[detail].phase
         /\ c[detail].stack = p[detail].stack
         /\ c[detail].broken = p[detail].broken
         /\ c[detail].complete = p[detail].complete
  BY <1>1, <1>3, ChargeDetailTypes
<1>5. Sized(c)
  BY <1>2, <1>4 DEF Sized
<1> QED
  BY <1>2, <1>4, <1>5 DEF c

LEMMA ClearedTypes ==
    /\ Cleared \in Profiler /\ Sized(Cleared)
    /\ \A enabled \in BOOLEAN : now \in Clock =>
          ProfileStart(enabled) \in Profiler /\ Sized(ProfileStart(enabled))
    /\ NotStarted \in History
<1>1. NoPeriod \in Period /\ NoDetail \in Detail /\ NoTicks \in [Phases -> Nat]
  BY ClockFacts DEF NoPeriod, NoDetail, NoTicks, Period, Detail, DetailPhases, Phases
<1>2. Cleared \in Profiler
  BY <1>1, ClockFacts DEF Cleared, Profiler, Phases
<1>3. Sized(Cleared)
  BY ProfileAssumption DEF Sized, Cleared, NoDetail, Details
<1>4. \A enabled \in BOOLEAN : now \in Clock =>
          ProfileStart(enabled) \in Profiler /\ Sized(ProfileStart(enabled))
  BY <1>2, <1>3 DEF ProfileStart, Profiler, Sized, Details
<1>5. NotStarted \in History
  BY <1>1 DEF NotStarted, History, Periods
<1> QED
  BY <1>2, <1>3, <1>4, <1>5

LEMMA BindTypes ==
    ASSUME NEW p \in Profiler, Sized(p), now \in Clock
    PROVE  ProfileBind(p) \in Profiler /\ Sized(ProfileBind(p))
<1> DEFINE b == Bucket(p)
           w == Plus(p[b].ticks, "Idle", Since(p.lastTick))
<1>1. b \in {"handshake", "postHandshake"}
  BY DEF Bucket
<1>2. p[b].ticks \in [Phases -> Clock]
  BY <1>1 DEF Profiler, Period
<1>3. w \in [Phases -> Clock]
  <2>1. Since(p.lastTick) \in Clock
    BY SinceTypes DEF Profiler
  <2>2. "Idle" \in Phases
    BY DEF Phases
  <2> QED
    BY <2>1, <2>2, <1>2, PlusTypes
<1>4. ProfileBind(p) = IF p.running THEN p
                       ELSE [p EXCEPT ![b].ticks = w, !.lastTick = now, !.running = TRUE]
  BY DEF ProfileBind
<1> DEFINE q == ProfileBind(p)
<1> SUFFICES q \in Profiler /\ Sized(q)
  OBVIOUS
<1> HIDE DEF b, w, q
<1>5. CASE b = "handshake"
  <2>1. q = IF p.running THEN p
           ELSE [p EXCEPT !.handshake.ticks = w, !.lastTick = now, !.running = TRUE]
    BY <1>4, <1>5 DEF q
  <2> QED
    BY <1>3, <2>1 DEF Profiler, Period, Sized, Details
<1>6. CASE b = "postHandshake"
  <2>1. q = IF p.running THEN p
           ELSE [p EXCEPT !.postHandshake.ticks = w, !.lastTick = now, !.running = TRUE]
    BY <1>4, <1>6 DEF q
  <2> QED
    BY <1>3, <2>1 DEF Profiler, Period, Sized, Details
<1> QED
  BY <1>1, <1>5, <1>6

LEMMA ReopenedTypes ==
    ASSUME NEW c \in Profiler, NEW phase \in Phases, NEW detail \in Details
    PROVE  /\ Reopened(c, phase)[detail] \in Detail
           /\ Reopened(c, phase)[detail].ticks = c[detail].ticks
           /\ Reopened(c, phase)[detail].elapsed = c[detail].elapsed
           /\ Reopened(c, phase)[detail].stack = c[detail].stack
<1>1. c[detail] \in Detail
  BY DEF Profiler, Details
<1>2. Reopened(c, phase)[detail] =
         IF phase = PhaseOf(detail) /\ ~c.finished
         THEN [c[detail] EXCEPT !.complete = FALSE] ELSE c[detail]
  BY DEF Reopened
<1> QED
  BY <1>1, <1>2 DEF Detail

LEMMA SettledTypes ==
    ASSUME NEW c \in Profiler, NEW detail \in Details
    PROVE  /\ Settled(c, detail) \in Detail
           /\ Settled(c, detail).ticks = c[detail].ticks
           /\ Settled(c, detail).elapsed = c[detail].elapsed
           /\ Settled(c, detail).stack = c[detail].stack
<1>1. c[detail] \in Detail
  BY DEF Profiler, Details
<1>2. c[detail].broken \in BOOLEAN
  BY <1>1 DEF Detail
<1> QED
  BY <1>1, <1>2 DEF Settled, Detail

LEMMA EnterTypes ==
    ASSUME NEW p \in Profiler, Sized(p), now \in Clock, NEW phase \in Phases
    PROVE  ProfileEnter(p, phase) \in Profiler /\ Sized(ProfileEnter(p, phase))
<1>1. CASE Full(p.stack, Depth)
  BY <1>1 DEF ProfileEnter, Profiler, Sized, Details
<1>2. CASE ~Full(p.stack, Depth)
  <2> DEFINE c == Charge(p)
             e == Reopened(c, phase)["ecdhe"]
             r == Reopened(c, phase)["trust"]
             f == Append(c.stack, p.phase)
  <2>1. ProfileEnter(p, phase) =
           [c EXCEPT !.stack = f, !.phase = phase, !.ecdhe = e, !.trust = r]
    BY <1>2 DEF ProfileEnter
  <2>2. c \in Profiler /\ Sized(c) /\ c.stack = p.stack
    BY ChargeTypes, ChargeFields
  <2> HIDE DEF c
  <2>3. e \in Detail /\ r \in Detail /\ e.stack = c.ecdhe.stack /\ r.stack = c.trust.stack
    BY <2>2, ReopenedTypes DEF Details
  <2>4. f \in Seq(Phases) /\ Len(f) <= Depth
    <3>1. p.stack \in Seq(Phases) /\ p.phase \in Phases
      BY DEF Profiler
    <3>2. Len(p.stack) # Depth /\ Len(p.stack) <= Depth
      BY <1>2 DEF Full, Sized
    <3> QED
      BY <2>2, <3>1, <3>2, PushFacts, ProfileAssumption
  <2> HIDE DEF e, r, f
  <2> QED
    BY <2>1, <2>2, <2>3, <2>4 DEF Profiler, Sized, Details
<1> QED
  BY <1>1, <1>2

LEMMA LeaveTypes ==
    ASSUME NEW p \in Profiler, Sized(p), now \in Clock
    PROVE  ProfileLeave(p) \in Profiler /\ Sized(ProfileLeave(p))
<1>1. CASE p.stack = <<>>
  BY <1>1 DEF ProfileLeave, Profiler, Sized, Details
<1>2. CASE p.stack # <<>>
  <2> DEFINE c == Charge(p)
             e == Settled(c, "ecdhe")
             r == Settled(c, "trust")
             f == Pop(c.stack)
             h == p.stack[Len(p.stack)]
  <2>1. ProfileLeave(p) = [c EXCEPT !.ecdhe = e, !.trust = r, !.phase = h, !.stack = f]
    BY <1>2 DEF ProfileLeave
  <2>2. c \in Profiler /\ Sized(c) /\ c.stack = p.stack
    BY ChargeTypes, ChargeFields
  <2> HIDE DEF c
  <2>3. e \in Detail /\ r \in Detail /\ e.stack = c.ecdhe.stack /\ r.stack = c.trust.stack
    BY <2>2, SettledTypes DEF Details
  <2>4. f \in Seq(Phases) /\ Len(f) <= Depth /\ h \in Phases
    <3>1. p.stack \in Seq(Phases)
      BY DEF Profiler
    <3>2. Len(p.stack) <= Depth
      BY DEF Sized
    <3> QED
      BY <2>2, <3>1, <3>2, <1>2, PopFacts, ProfileAssumption
  <2> HIDE DEF e, r, f, h
  <2> QED
    BY <2>1, <2>2, <2>3, <2>4 DEF Profiler, Sized, Details
<1> QED
  BY <1>1, <1>2

LEMMA DetailEnterTypes ==
    ASSUME NEW p \in Profiler, Sized(p), now \in Clock, NEW detail \in Details,
           NEW phase \in DetailPhases
    PROVE  /\ DetailEnter(p, detail, phase) \in Profiler
           /\ Sized(DetailEnter(p, detail, phase))
<1>0. p[detail] \in Detail
  BY DEF Profiler, Details
<1>1. CASE Full(p[detail].stack, DetailDepth)
  BY <1>1 DEF DetailEnter, Profiler, Sized, Details, Detail
<1>2. CASE ~Full(p[detail].stack, DetailDepth)
  <2> DEFINE c == Charge(p)
             f == Append(c[detail].stack, p[detail].phase)
  <2>1. DetailEnter(p, detail, phase) =
           [c EXCEPT ![detail].stack = f, ![detail].phase = phase]
    BY <1>2 DEF DetailEnter
  <2>2. /\ c \in Profiler /\ Sized(c) /\ c[detail] \in Detail
        /\ c[detail].stack = p[detail].stack
    BY ChargeTypes
  <2> HIDE DEF c
  <2>3. f \in Seq(DetailPhases) /\ Len(f) <= DetailDepth
    <3>1. p[detail].stack \in Seq(DetailPhases) /\ p[detail].phase \in DetailPhases
      BY <1>0 DEF Detail
    <3>2. Len(p[detail].stack) # DetailDepth /\ Len(p[detail].stack) <= DetailDepth
      BY <1>2 DEF Full, Sized
    <3> QED
      BY <2>2, <3>1, <3>2, PushFacts, ProfileAssumption
  <2> DEFINE q == DetailEnter(p, detail, phase)
  <2> SUFFICES q \in Profiler /\ Sized(q)
    OBVIOUS
  <2> HIDE DEF q, f
  <2>4. CASE detail = "ecdhe"
    <3>1. q = [c EXCEPT !.ecdhe.stack = f, !.ecdhe.phase = phase]
      BY <2>1, <2>4 DEF q
    <3> QED
      BY <2>2, <2>3, <2>4, <3>1 DEF Profiler, Sized, Details, Detail
  <2>5. CASE detail = "trust"
    <3>1. q = [c EXCEPT !.trust.stack = f, !.trust.phase = phase]
      BY <2>1, <2>5 DEF q
    <3> QED
      BY <2>2, <2>3, <2>5, <3>1 DEF Profiler, Sized, Details, Detail
  <2> QED
    BY <2>4, <2>5 DEF Details
<1> QED
  BY <1>1, <1>2

LEMMA DetailLeaveTypes ==
    ASSUME NEW p \in Profiler, Sized(p), now \in Clock, NEW detail \in Details
    PROVE  DetailLeave(p, detail) \in Profiler /\ Sized(DetailLeave(p, detail))
<1>0. p[detail] \in Detail
  BY DEF Profiler, Details
<1>1. CASE p[detail].stack = <<>>
  BY <1>1 DEF DetailLeave, Profiler, Sized, Details, Detail
<1>2. CASE p[detail].stack # <<>>
  <2> DEFINE c == Charge(p)
             f == Pop(c[detail].stack)
             h == p[detail].stack[Len(p[detail].stack)]
  <2>1. DetailLeave(p, detail) = [c EXCEPT ![detail].phase = h, ![detail].stack = f]
    BY <1>2 DEF DetailLeave
  <2>2. /\ c \in Profiler /\ Sized(c) /\ c[detail] \in Detail
        /\ c[detail].stack = p[detail].stack
    BY ChargeTypes
  <2> HIDE DEF c
  <2>3. f \in Seq(DetailPhases) /\ Len(f) <= DetailDepth /\ h \in DetailPhases
    <3>1. p[detail].stack \in Seq(DetailPhases)
      BY <1>0 DEF Detail
    <3>2. Len(p[detail].stack) <= DetailDepth
      BY DEF Sized
    <3> QED
      BY <2>2, <3>1, <3>2, <1>2, PopFacts, ProfileAssumption
  <2> DEFINE q == DetailLeave(p, detail)
  <2> SUFFICES q \in Profiler /\ Sized(q)
    OBVIOUS
  <2> HIDE DEF q, f, h
  <2>4. CASE detail = "ecdhe"
    <3>1. q = [c EXCEPT !.ecdhe.phase = h, !.ecdhe.stack = f]
      BY <2>1, <2>4 DEF q
    <3> QED
      BY <2>2, <2>3, <2>4, <3>1 DEF Profiler, Sized, Details, Detail
  <2>5. CASE detail = "trust"
    <3>1. q = [c EXCEPT !.trust.phase = h, !.trust.stack = f]
      BY <2>1, <2>5 DEF q
    <3> QED
      BY <2>2, <2>3, <2>5, <3>1 DEF Profiler, Sized, Details, Detail
  <2> QED
    BY <2>4, <2>5 DEF Details
<1> QED
  BY <1>1, <1>2

(* Suspend, Finish and Close are a charge and some flags.                   *)
LEMMA EndTypes ==
    ASSUME NEW p \in Profiler, Sized(p), now \in Clock
    PROVE  /\ ProfileSuspend(p) \in Profiler /\ Sized(ProfileSuspend(p))
           /\ ProfileFinish(p) \in Profiler /\ Sized(ProfileFinish(p))
           /\ ProfileClose(p) \in Profiler /\ Sized(ProfileClose(p))
<1> DEFINE c == Charge(p)
<1>1. c \in Profiler /\ Sized(c)
  BY ChargeTypes
<1>2. /\ ProfileSuspend(p) = [c EXCEPT !.broken = @ \/ p.stack # <<>>, !.running = FALSE]
      /\ ProfileFinish(p) = IF p.finished THEN p
            ELSE [c EXCEPT !.handshake.complete = Balanced(p), !.finished = TRUE,
                           !.periodStart = now]
      /\ ProfileClose(p) = [c EXCEPT ![Bucket(p)].complete = Balanced(p), !.closed = TRUE,
                                     !.running = FALSE]
  BY DEF ProfileSuspend, ProfileFinish, ProfileClose
<1>3. Balanced(p) \in BOOLEAN /\ Bucket(p) \in {"handshake", "postHandshake"}
  BY DEF Balanced, Bucket
<1> DEFINE d == c.broken \/ p.stack # <<>>
<1>4. d \in BOOLEAN
  OBVIOUS
<1> HIDE DEF c, d
<1>5. ProfileSuspend(p) \in Profiler /\ Sized(ProfileSuspend(p))
  <2>1. ProfileSuspend(p) = [c EXCEPT !.broken = d, !.running = FALSE]
    BY <1>2 DEF d
  <2> QED
    BY <1>1, <1>4, <2>1 DEF Profiler, Sized, Details
<1> DEFINE whole == Balanced(p)
           q == ProfileFinish(p)
           z == ProfileClose(p)
<1> HIDE DEF whole, q, z
<1>6. ProfileFinish(p) \in Profiler /\ Sized(ProfileFinish(p))
  <2>1. q = IF p.finished THEN p
            ELSE [c EXCEPT !.handshake.complete = whole, !.finished = TRUE,
                           !.periodStart = now]
    BY <1>2 DEF whole, q
  <2>2. whole \in BOOLEAN
    BY <1>3 DEF whole
  <2>3. q \in Profiler /\ Sized(q)
    BY <1>1, <2>1, <2>2 DEF Profiler, Sized, Details, Period
  <2> QED
    BY <2>3 DEF q
<1>7. ProfileClose(p) \in Profiler /\ Sized(ProfileClose(p))
  <2>2. whole \in BOOLEAN
    BY <1>3 DEF whole
  <2>3. CASE Bucket(p) = "handshake"
    <3>1. z = [c EXCEPT !.handshake.complete = whole, !.closed = TRUE, !.running = FALSE]
      BY <1>2, <2>3 DEF whole, z
    <3>2. z \in Profiler
      BY <1>1, <2>2, <3>1 DEF Profiler, Period
    <3>3. Sized(z)
      BY <1>1, <3>1 DEF Profiler, Sized, Details
    <3> QED
      BY <3>2, <3>3 DEF z
  <2>4. CASE Bucket(p) = "postHandshake"
    <3>1. z = [c EXCEPT !.postHandshake.complete = whole, !.closed = TRUE, !.running = FALSE]
      BY <1>2, <2>4 DEF whole, z
    <3>2. z \in Profiler
      BY <1>1, <2>2, <3>1 DEF Profiler, Period
    <3>3. Sized(z)
      BY <1>1, <3>1 DEF Profiler, Sized, Details
    <3> QED
      BY <3>2, <3>3 DEF z
  <2> QED
    BY <1>3, <2>3, <2>4
<1> QED
  BY <1>5, <1>6, <1>7

LEMMA HistoryTypes ==
    ASSUME NEW t \in History
    PROVE  /\ Unpaired(t) \in History /\ Ended(t) \in History
           /\ \A phase \in Phases : [t EXCEPT !.open = Append(@, phase)] \in History
           /\ t.open # <<>> => [t EXCEPT !.open = Pop(@)] \in History
           /\ \A period \in {"postHandshake", "None"} :
                 [Ended(t) EXCEPT !.period = period] \in History
           /\ Innermost(t.open) \in Phases
<1>1. Unpaired(t) \in History
  BY DEF Unpaired, History
<1>2. Ended(t) \in History
  BY DEF Ended, History
<1>3. ASSUME NEW phase \in Phases
      PROVE  [t EXCEPT !.open = Append(@, phase)] \in History
  BY PushFacts DEF History
<1>4. t.open # <<>> => [t EXCEPT !.open = Pop(@)] \in History
  BY PopFacts DEF History
<1>5. \A period \in {"postHandshake", "None"} : [Ended(t) EXCEPT !.period = period] \in History
  <2> DEFINE e == Ended(t)
  <2>1. e \in History
    BY <1>2
  <2> HIDE DEF e
  <2>2. \A period \in {"postHandshake", "None"} : [e EXCEPT !.period = period] \in History
    BY <2>1 DEF History, Periods
  <2> QED
    BY <2>2 DEF e
<1>6. Innermost(t.open) \in Phases
  <2>1. t.open \in Seq(Phases)
    BY DEF History
  <2>2. t.open # <<>> => t.open[Len(t.open)] \in Phases
    BY <2>1, PopFacts
  <2> QED
    BY <2>2 DEF Innermost, Phases
<1> QED
  BY <1>1, <1>2, <1>3, <1>4, <1>5, <1>6

LEMMA TypeFacts ==
    ASSUME TypeOK
    PROVE  /\ now \in Clock
           /\ \A s \in Slots : profiler[s] \in Profiler /\ Sized(profiler[s])
           /\ \A s \in Slots : actual[s] \in History
           /\ gCurrent # None => gCurrent \in Slots
           /\ inCall # None => inCall \in Slots
           /\ None \notin Slots
BY ProfileAssumption DEF TypeOK, Sized

(* Everything that happens within a call.                                   *)
LEMMA WithinTypes ==
    ASSUME TypeOK, gCurrent' \in Slots \cup {None},
           NEW p \in Profiler, Sized(p), NEW t \in History, Within(p, t),
           \/ UNCHANGED spent
           \/ Scope
    PROVE  TypeOK'
<1>1. gCurrent \in Slots
  BY TypeFacts DEF Within
<1>2. profiler' \in [Slots -> Profiler] /\ actual' \in [Slots -> History]
  BY DEF Within, TypeOK
<1>3. \A s \in Slots : Sized(profiler'[s])
  <2>1. \A s \in Slots : profiler'[s] = IF s = gCurrent THEN p ELSE profiler[s]
    BY DEF Within, TypeOK
  <2> QED
    BY <2>1, TypeFacts
<1>4. spent' \in [ticks: 0..MaxTicks, calls: 0..MaxCalls, scopes: 0..MaxScopes]
  <2>1. CASE UNCHANGED spent
    BY <2>1 DEF TypeOK
  <2>2. CASE Scope
    BY <2>2, ProfileAssumption DEF Scope, TypeOK
  <2> QED
    BY <2>1, <2>2
<1>5. now' \in Clock /\ inCall' \in Slots \cup {None}
  BY DEF Within, TypeOK, Clock
<1> QED
  BY <1>2, <1>3, <1>4, <1>5 DEF TypeOK, Sized, Clock

LEMMA TickTypes ==
    ASSUME TypeOK, Tick
    PROVE  TypeOK'
<1>1. now' \in Clock
  <2>1. now \in Nat
    BY TypeFacts, ClockFacts
  <2>2. now + 1 \in Nat
    BY <2>1
  <2>3. (now + 1) % Wrap \in Clock
    BY <2>2, ModRange, ClockFacts DEF Clock
  <2> QED
    BY <2>3 DEF Tick
<1>2. actual' \in [Slots -> History]
  <2>1. ASSUME NEW s \in Slots
        PROVE  (IF actual[s].period = "None" THEN actual[s]
                ELSE [actual[s] EXCEPT ![actual[s].period][Doing(s)] = @ + 1]) \in History
    <3> DEFINE t == actual[s]
               d == Doing(s)
    <3>1. t \in History /\ d \in Phases
      BY TypeFacts, HistoryTypes DEF Doing, Phases
    <3> HIDE DEF t, d
    <3>2. CASE t.period = "handshake"
      <4>0. t.handshake \in [Phases -> Nat]
        BY <3>1 DEF History
      <4>1. [t EXCEPT !.handshake[d] = @ + 1] \in History
        <5>1. [t.handshake EXCEPT ![d] = @ + 1] \in [Phases -> Nat]
          BY <3>1, <4>0
        <5> QED
          BY <3>1, <5>1 DEF History
      <4> QED
        BY <4>1, <3>2 DEF t, d
    <3>3. CASE t.period = "postHandshake"
      <4>0. t.postHandshake \in [Phases -> Nat]
        BY <3>1 DEF History
      <4>1. [t EXCEPT !.postHandshake[d] = @ + 1] \in History
        <5>1. [t.postHandshake EXCEPT ![d] = @ + 1] \in [Phases -> Nat]
          BY <3>1, <4>0
        <5> QED
          BY <3>1, <5>1 DEF History
      <4> QED
        BY <4>1, <3>3 DEF t, d
    <3>4. t.period \in Periods \cup {"None"}
      BY <3>1 DEF History
    <3> QED
      BY <3>1, <3>2, <3>3, <3>4 DEF Periods, t, d
  <2> QED
    BY <2>1 DEF Tick
<1>3. spent' \in [ticks: 0..MaxTicks, calls: 0..MaxCalls, scopes: 0..MaxScopes]
  BY ProfileAssumption DEF Tick, TypeOK
<1> QED
  BY <1>1, <1>2, <1>3 DEF Tick, TypeOK, Clock

LEMMA CallTypes ==
    ASSUME TypeOK, NEW s \in Slots, Open(s) \/ Call(s)
    PROVE  TypeOK'
<1>1. /\ now' \in Clock /\ inCall' \in Slots \cup {None}
      /\ gCurrent' \in Slots \cup {None}
  BY DEF TypeOK, Open, Call, CallBegins
<1>2. spent' \in [ticks: 0..MaxTicks, calls: 0..MaxCalls, scopes: 0..MaxScopes]
  BY ProfileAssumption DEF TypeOK, Open, Call, CallBegins
<1>3. actual' \in [Slots -> History]
  <2>1. [NotStarted EXCEPT !.period = "handshake"] \in History /\ NotStarted \in History
    BY ClearedTypes DEF History, Periods
  <2> QED
    BY <2>1 DEF TypeOK, Open, Call
<1>4. PICK p \in Profiler : Sized(p) /\ profiler' = [profiler EXCEPT ![s] = p]
  <2>1. CASE Open(s)
    BY <2>1, ClearedTypes, TypeFacts DEF Open
  <2>2. CASE Call(s)
    <3>1. CASE Binds(profiler[s])
      BY <2>2, <3>1, BindTypes, TypeFacts DEF Call
    <3>2. CASE ~Binds(profiler[s])
      <4>1. profiler' = [profiler EXCEPT ![s] = profiler[s]]
        BY <2>2, <3>2 DEF Call, TypeOK
      <4> QED
        BY <4>1, TypeFacts
    <3> QED
      BY <3>1, <3>2
  <2> QED
    BY <2>1, <2>2
<1>5. profiler' \in [Slots -> Profiler] /\ \A x \in Slots : Sized(profiler'[x])
  BY <1>4, TypeFacts DEF TypeOK
<1> QED
  BY <1>1, <1>2, <1>3, <1>5 DEF TypeOK, Sized, Clock

LEMMA ReturnTypes ==
    ASSUME TypeOK, Return
    PROVE  TypeOK'
<1>1. actual' \in [Slots -> History]
  <2>1. Unpaired(actual[inCall]) \in History
    BY TypeFacts, HistoryTypes DEF Return
  <2> QED
    BY <2>1 DEF Return, TypeOK
<1>2. profiler' \in [Slots -> Profiler] /\ \A s \in Slots : Sized(profiler'[s])
  <2>1. CASE gCurrent = None
    BY <2>1, TypeFacts DEF Return, TypeOK
  <2>2. CASE gCurrent # None
    <3>1. /\ ProfileSuspend(profiler[gCurrent]) \in Profiler
          /\ Sized(ProfileSuspend(profiler[gCurrent]))
      BY <2>2, EndTypes, TypeFacts
    <3>2. profiler' = [profiler EXCEPT ![gCurrent] = ProfileSuspend(profiler[gCurrent])]
      BY <2>2 DEF Return
    <3> QED
      BY <3>1, <3>2, TypeFacts DEF TypeOK
  <2> QED
    BY <2>1, <2>2
<1> QED
  BY <1>1, <1>2 DEF Return, TypeOK, Sized, Clock

LEMMA TypeStep ==
    ASSUME TypeOK, [Next]_vars
    PROVE  TypeOK'
<1> DEFINE p == profiler[gCurrent]
<1>0. gCurrent # None => p \in Profiler /\ Sized(p) /\ Truth \in History
  BY TypeFacts DEF Truth
<1>1. CASE Tick
  BY <1>1, TickTypes
<1>2. CASE Return
  BY <1>2, ReturnTypes
<1>3. CASE Leave
  <2>1. ProfileLeave(p) \in Profiler /\ Sized(ProfileLeave(p))
    BY <1>0, <1>3, LeaveTypes, TypeFacts DEF Leave
  <2>2. (IF Truth.open = <<>> THEN Unpaired(Truth) ELSE [Truth EXCEPT !.open = Pop(@)])
           \in History
    BY <1>0, <1>3, HistoryTypes DEF Leave
  <2> QED
    BY <1>3, <2>1, <2>2, WithinTypes DEF Leave, TypeOK
<1>4. CASE Finish
  <2>1. ProfileFinish(p) \in Profiler /\ Sized(ProfileFinish(p))
    BY <1>0, <1>4, EndTypes, TypeFacts DEF Finish
  <2>2. [Ended(Truth) EXCEPT !.period = "postHandshake"] \in History
    BY <1>0, <1>4, HistoryTypes DEF Finish
  <2> QED
    BY <1>4, <2>1, <2>2, WithinTypes DEF Finish, TypeOK
<1>5. CASE Close
  <2>1. ProfileClose(p) \in Profiler /\ Sized(ProfileClose(p))
    BY <1>0, <1>5, EndTypes, TypeFacts DEF Close
  <2>2. [Ended(Truth) EXCEPT !.period = "None"] \in History
    BY <1>0, <1>5, HistoryTypes DEF Close
  <2> QED
    BY <1>5, <2>1, <2>2, WithinTypes DEF Close, TypeOK
<1>6. CASE \E s \in Slots : Open(s) \/ Call(s)
  BY <1>6, CallTypes
<1>7. CASE \E phase \in Phases \ {"Other", "Idle"} : Enter(phase)
  <2> PICK phase \in Phases \ {"Other", "Idle"} : Enter(phase)
    BY <1>7
  <2>1. ProfileEnter(p, phase) \in Profiler /\ Sized(ProfileEnter(p, phase))
    BY <1>0, EnterTypes, TypeFacts DEF Enter
  <2>2. [Truth EXCEPT !.open = Append(@, phase)] \in History
    BY <1>0, HistoryTypes DEF Enter
  <2> QED
    BY <2>1, <2>2, WithinTypes DEF Enter, TypeOK
<1>8. CASE \E detail \in Detailed : EnterDetail(detail) \/ LeaveDetail(detail)
  <2>1. PICK detail \in Detailed : EnterDetail(detail) \/ LeaveDetail(detail)
    BY <1>8
  <2>2. detail \in Details /\ "Work" \in DetailPhases
    BY ProfileAssumption DEF Details, DetailPhases
  <2>3. gCurrent # None =>
           /\ DetailEnter(p, detail, "Work") \in Profiler
           /\ Sized(DetailEnter(p, detail, "Work"))
           /\ DetailLeave(p, detail) \in Profiler /\ Sized(DetailLeave(p, detail))
    BY <1>0, <2>2, DetailEnterTypes, DetailLeaveTypes, TypeFacts
  <2>4. CASE EnterDetail(detail)
    BY <1>0, <2>3, <2>4, WithinTypes DEF EnterDetail, TypeOK
  <2>5. CASE LeaveDetail(detail)
    BY <1>0, <2>3, <2>5, WithinTypes DEF LeaveDetail, TypeOK
  <2> QED
    BY <2>1, <2>4, <2>5
<1>9. CASE UNCHANGED vars
  BY <1>9 DEF vars, TypeOK, Clock
<1> QED
  BY <1>1, <1>2, <1>3, <1>4, <1>5, <1>6, <1>7, <1>8, <1>9 DEF Next

LEMMA TypeInit == Init => TypeOK
<1> SUFFICES ASSUME Init PROVE TypeOK
  OBVIOUS
<1>1. profiler \in [Slots -> Profiler] /\ \A s \in Slots : Sized(profiler[s])
  BY ClearedTypes DEF Init
<1>2. actual \in [Slots -> History]
  BY ClearedTypes DEF Init
<1> QED
  BY <1>1, <1>2, ProfileAssumption DEF Init, TypeOK, Sized, Clock

-----------------------------------------------------------------------------
(* What a charge keeps.                                                     *)

LEMMA PeriodFacts ==
    ASSUME NEW p \in Profiler, NEW t \in History
    PROVE  /\ Bucket(p) \in Periods
           /\ Bucket(p) = IF p.finished THEN "postHandshake" ELSE "handshake"
           /\ \A period \in Periods :
                 /\ p[period] \in Period
                 /\ p[period].ticks \in [Phases -> Clock]
                 /\ p[period].ticks \in [Phases -> Nat]
                 /\ Total(p[period].ticks) \in Nat
                 /\ t[period] \in [Phases -> Nat]
                 /\ Total(t[period]) \in Nat
                 /\ Total(t[period]) <= Total(t.handshake) + Total(t.postHandshake)
           /\ p.lastTick \in Clock /\ p.periodStart \in Clock /\ p.phase \in Phases
<1>1. Bucket(p) \in Periods /\ Bucket(p) = IF p.finished THEN "postHandshake" ELSE "handshake"
  BY DEF Bucket, Periods
<1>2. \A period \in Periods : p[period] \in Period /\ t[period] \in [Phases -> Nat]
  BY DEF Periods, Profiler, History
<1>3. ASSUME NEW period \in Periods
      PROVE  /\ p[period].ticks \in [Phases -> Clock]
             /\ p[period].ticks \in [Phases -> Nat]
             /\ Total(p[period].ticks) \in Nat
             /\ Total(t[period]) \in Nat
  <2>1. p[period].ticks \in [Phases -> Clock]
    BY <1>2 DEF Period
  <2>2. p[period].ticks \in [Phases -> Nat]
    BY <2>1, ClockFacts
  <2> QED
    BY <1>2, <2>1, <2>2, TotalNat
<1>4. \A period \in Periods : Total(t[period]) <= Total(t.handshake) + Total(t.postHandshake)
  BY <1>3 DEF Periods
<1> QED
  BY <1>1, <1>2, <1>3, <1>4 DEF Profiler

(* The counter of a live profile's period has room for what is owed.        *)
LEMMA Fits ==
    ASSUME NEW p \in Profiler, NEW t \in History, NEW at \in Clock, NEW n \in 0..MaxTicks,
           Live(p), Timed(p, t, at, n)
    PROVE  /\ Gone(p.lastTick, at) \in Clock
           /\ Total(p[Bucket(p)].ticks) + Gone(p.lastTick, at) < Wrap
           /\ Total(t[Bucket(p)]) <= n
<1>1. Gone(p.lastTick, at) \in Clock
  BY PeriodFacts, GoneTypes
<1>2. Total(t[Bucket(p)]) <= Total(t.handshake) + Total(t.postHandshake)
  BY PeriodFacts
<1>3. Total(t.handshake) + Total(t.postHandshake) <= n
  BY DEF Timed
<1>4. Total(t[Bucket(p)]) \in Nat /\ Total(t.handshake) \in Nat /\ Total(t.postHandshake) \in Nat
  BY PeriodFacts DEF Periods
<1>5. Total(t[Bucket(p)]) <= n
  BY <1>2, <1>3, <1>4
<1>6. Total(p[Bucket(p)].ticks) + Gone(p.lastTick, at) = Total(t[Bucket(p)])
  BY DEF Timed
<1> QED
  BY <1>1, <1>4, <1>5, <1>6, ClockFacts

(* What does not change with a profiler's scopes.                           *)
Books(p, t, at, n, current) ==
    /\ Timed(p, t, at, n)
    /\ Summed(p, current)
    /\ DetailSummed(p)
    /\ Paired(p, t)

LEMMA ChargeKeeps ==
    ASSUME NEW p \in Profiler, NEW t \in History, now \in Clock, NEW n \in 0..MaxTicks,
           Live(p), p.running, SlotOK(p, t, TRUE, now, n)
    PROVE  LET c == Charge(p)
           IN  /\ Books(c, t, now, n, FALSE)
               /\ Gone(c.lastTick, now) = 0
               /\ Scoped(c, t)
               /\ Exclusive(c, t, now)
<1> DEFINE c == Charge(p)
           k == Since(p.lastTick)
           b == Bucket(p)
<1>0. /\ Timed(p, t, now, n) /\ Summed(p, TRUE) /\ DetailSummed(p)
      /\ Scoped(p, t) /\ Exclusive(p, t, now) /\ Paired(p, t)
  BY DEF SlotOK
<1>1. /\ c \in Profiler /\ Bucket(c) = b /\ (Live(c) <=> Live(p))
      /\ c.lastTick = now /\ c.periodStart = p.periodStart
      /\ c.phase = p.phase /\ c.stack = p.stack
      /\ c.enabled = p.enabled /\ c.running = p.running /\ c.finished = p.finished
      /\ c.closed = p.closed /\ c.broken = p.broken
  BY ChargeFields DEF Bucket, Live
<1>2. /\ c[b] = [p[b] EXCEPT !.ticks = Plus(@, p.phase, k),
                              !.elapsed = Since(p.periodStart)]
      /\ \A period \in Periods : period # b => c[period] = p[period]
  <2> DEFINE charged == [p[b] EXCEPT !.ticks = Plus(@, p.phase, k),
                                     !.elapsed = Since(p.periodStart)]
  <2>1. /\ c.handshake = IF p.finished THEN p.handshake ELSE charged
        /\ c.postHandshake = IF p.finished THEN charged ELSE p.postHandshake
    BY ChargeFields
  <2>2. b = IF p.finished THEN "postHandshake" ELSE "handshake"
    BY PeriodFacts
  <2> HIDE DEF c, b, charged
  <2>3. c[b] = charged /\ \A period \in Periods : period # b => c[period] = p[period]
    BY <2>1, <2>2 DEF Periods
  <2> QED
    BY <2>3 DEF charged
<1>3. \A detail \in Details : c[detail] = ChargeDetail(p, detail, k)
  BY ChargeFields DEF Details
<1>4. /\ k \in Clock /\ k = Gone(p.lastTick, now) /\ k \in Nat
      /\ Since(p.periodStart) = Gone(p.periodStart, now)
  BY PeriodFacts, SinceTypes, ClockFacts
<1>5. Total(p[b].ticks) + k = Total(t[b]) /\ Total(p[b].ticks) + k < Wrap
  BY <1>0, <1>4, Fits DEF Timed
<1>6. b \in Periods /\ b = (IF p.finished THEN "postHandshake" ELSE "handshake")
  BY PeriodFacts
<1> HIDE DEF c, k, b
<1>7. /\ c[b].ticks = [p[b].ticks EXCEPT ![p.phase] = @ + k]
      /\ Total(c[b].ticks) = Total(t[b])
      /\ c[b].elapsed = Gone(p.periodStart, now)
      /\ c[b].complete = p[b].complete
  <2>1. p[b] \in Period /\ p[b].ticks \in [Phases -> Clock] /\ p.phase \in Phases
    BY <1>6, PeriodFacts
  <2>2. c[b].ticks = Plus(p[b].ticks, p.phase, k) /\ c[b].elapsed = Since(p.periodStart)
        /\ c[b].complete = p[b].complete
    BY <1>2, <2>1 DEF Period
  <2> QED
    BY <1>4, <1>5, <2>1, <2>2, PlusTotal
<1>8. Gone(c.lastTick, now) = 0
  <2>1. now \in Nat /\ now - now = 0
    BY ClockFacts
  <2> QED
    BY <1>1, <2>1, GoneIs
<1>9. Timed(c, t, now, n)
  <2>1. ~p.finished => c.postHandshake = p.postHandshake
    BY <1>2, <1>6 DEF Periods
  <2>2. Total(t[b]) \in Nat /\ p.enabled
    BY <1>6, PeriodFacts DEF Live
  <2> QED
    BY <1>0, <1>1, <1>7, <1>8, <2>1, <2>2 DEF Timed, b
<1>10. Summed(c, FALSE)
  <2>1. c[b].elapsed = Total(c[b].ticks)
    BY <1>0, <1>7 DEF Timed, b
  <2>2. \A period \in Periods : period # b => c[period].elapsed = Total(c[period].ticks)
    BY <1>0, <1>2 DEF Summed, b
  <2> QED
    BY <2>1, <2>2 DEF Summed
<1>11. ASSUME NEW detail \in Details
       PROVE  /\ DetailTotal(c[detail].ticks) = c[detail].elapsed
              /\ c[detail].elapsed = c.handshake.ticks[PhaseOf(detail)]
  <2> DEFINE d == p[detail]
             f == PhaseOf(detail)
  <2>1. f \in Phases /\ d \in Detail
    BY DEF PhaseOf, Phases, Details, Profiler
  <2>2. DetailTotal(d.ticks) = d.elapsed /\ d.elapsed = p.handshake.ticks[f]
    BY <1>0 DEF DetailSummed
  <2>3. CASE p.finished \/ p.phase # f
    <3>1. c[detail] = d
      BY <1>3, <2>3 DEF ChargeDetail
    <3>2. c.handshake.ticks[f] = p.handshake.ticks[f]
      <4>1. CASE p.finished
        BY <4>1, <1>2, <1>6 DEF Periods
      <4>2. CASE ~p.finished
        <5>1. p.handshake.ticks \in [Phases -> Clock] /\ p.phase \in Phases
          BY PeriodFacts DEF Periods
        <5> QED
          BY <4>2, <2>1, <2>3, <5>1, <1>6, <1>7
      <4> QED
        BY <4>1, <4>2
    <3> QED
      BY <2>2, <3>1, <3>2
  <2>4. CASE ~p.finished /\ p.phase = f
    <3>1. c[detail] = [d EXCEPT !.ticks = Plus(@, d.phase, k), !.elapsed = (@ + k) % Wrap]
      BY <1>3, <2>4 DEF ChargeDetail
    <3> HIDE DEF d
    <3>2. /\ d.ticks \in [DetailPhases -> Clock] /\ d.phase \in DetailPhases
          /\ d.elapsed \in Clock
      BY <2>1 DEF Detail
    <3>3. c[detail].ticks = Plus(d.ticks, d.phase, k) /\ c[detail].elapsed = (d.elapsed + k) % Wrap
      BY <2>1, <3>1 DEF Detail
    <3>4. /\ p.handshake.ticks[f] \in Nat /\ p.handshake.ticks[f] <= Total(p[b].ticks)
          /\ Total(p[b].ticks) \in Nat
      BY <1>6, <2>1, <2>4, PeriodFacts, TotalNat
    <3>5. d.elapsed + k < Wrap /\ d.elapsed + k \in Nat
      BY <2>2, <3>4, <1>4, <1>5, ClockFacts DEF d
    <3>6. c[detail].elapsed = d.elapsed + k
      BY <3>3, <3>5, ModBelow, ClockFacts
    <3>7. d.ticks["Other"] \in Nat /\ d.ticks["Work"] \in Nat
      <4>1. d.ticks["Other"] \in Clock /\ d.ticks["Work"] \in Clock
        BY <3>2 DEF DetailPhases
      <4> QED
        BY <4>1, ClockFacts
    <3>8. d.ticks["Other"] + d.ticks["Work"] = d.elapsed
      BY <2>2 DEF DetailTotal, d
    <3>9. d.ticks[d.phase] + k < Wrap
      <4>1. d.ticks["Other"] + k < Wrap /\ d.ticks["Work"] + k < Wrap
        BY <3>5, <3>7, <3>8, <1>4, ClockFacts
      <4> QED
        BY <3>2, <4>1 DEF DetailPhases
    <3>10. c[detail].ticks = [d.ticks EXCEPT ![d.phase] = @ + k]
      BY <3>2, <3>3, <3>9, <1>4, PlusExact
    <3>11. DetailTotal(c[detail].ticks) = d.elapsed + k
      BY <3>2, <3>7, <3>8, <3>10, <1>4 DEF DetailTotal, DetailPhases
    <3>12. c.handshake.ticks[f] = p.handshake.ticks[f] + k
      <4>1. p.handshake.ticks \in [Phases -> Clock]
        BY PeriodFacts DEF Periods
      <4> QED
        BY <4>1, <1>6, <1>7, <2>1, <2>4
    <3> QED
      BY <2>2, <3>6, <3>11, <3>12 DEF d
  <2> QED
    BY <2>3, <2>4
<1>12. Paired(c, t)
  <2>1. \A period \in Periods : c[period].complete = p[period].complete
    BY <1>2, <1>7
  <2> QED
    BY <1>0, <1>1, <1>6, <2>1 DEF Paired, b
<1>13. Scoped(c, t)
  BY <1>0, <1>1 DEF Scoped
<1>14. Exclusive(c, t, now)
  <2>1. SUFFICES ASSUME p.enabled, ~p.broken, NEW period \in Periods, NEW phase \in Phases
                 PROVE  c[period].ticks[phase]
                        + (IF period = b THEN Owed(c, phase, now) ELSE 0)
                        = t[period][phase]
    BY <1>1 DEF Exclusive
  <2>2. p[period].ticks[phase] + (IF period = b THEN Owed(p, phase, now) ELSE 0)
        = t[period][phase]
    BY <1>0, <2>1 DEF Exclusive, b
  <2>3. Owed(c, phase, now) = 0
    BY <1>8 DEF Owed
  <2>4. p[period].ticks \in [Phases -> Nat] /\ t[period] \in [Phases -> Nat]
    BY PeriodFacts
  <2>5. CASE period = b
    <3>1. Owed(p, phase, now) = IF phase = p.phase THEN k ELSE 0
      BY <1>4 DEF Owed, Live
    <3>2. c[b].ticks[phase] = p[b].ticks[phase] + (IF phase = p.phase THEN k ELSE 0)
      BY <1>7, <1>4, <2>4, <2>5
    <3> QED
      BY <2>2, <2>3, <2>4, <2>5, <3>1, <3>2, <1>4
  <2>6. CASE period # b
    BY <2>2, <2>6, <1>2
  <2> QED
    BY <2>5, <2>6
<1> QED
  BY <1>8, <1>9, <1>10, <1>11, <1>12, <1>13, <1>14 DEF Books, DetailSummed, c

-----------------------------------------------------------------------------
(* What the calls keep: first what has nothing to do with the scopes.       *)

SameBooks(p, q) ==
    /\ q.handshake = p.handshake /\ q.postHandshake = p.postHandshake
    /\ \A detail \in Details :
          q[detail].ticks = p[detail].ticks /\ q[detail].elapsed = p[detail].elapsed
    /\ q.lastTick = p.lastTick /\ q.periodStart = p.periodStart
    /\ q.enabled = p.enabled /\ q.finished = p.finished /\ q.closed = p.closed

SamePast(t, u) ==
    u.period = t.period /\ u.handshake = t.handshake /\ u.postHandshake = t.postHandshake

LEMMA BooksCarry ==
    ASSUME NEW p, NEW q, NEW t, NEW u, NEW at, NEW n, NEW current \in BOOLEAN,
           Books(p, t, at, n, current), SameBooks(p, q), SamePast(t, u), Paired(q, u)
    PROVE  Books(q, u, at, n, current)
<1>1. Bucket(q) = Bucket(p) /\ (Live(q) <=> Live(p))
  BY DEF SameBooks, Bucket, Live
<1>2. /\ \A period \in Periods : q[period] = p[period] /\ u[period] = t[period]
      /\ Bucket(p) \in Periods
  BY DEF SameBooks, SamePast, Periods, Bucket
<1>3. Timed(q, u, at, n)
  BY <1>1, <1>2 DEF Books, Timed, SameBooks, SamePast
<1>4. Summed(q, current)
  BY <1>1, <1>2 DEF Books, Summed
<1>5. DetailSummed(q)
  BY DEF Books, DetailSummed, SameBooks
<1> QED
  BY <1>3, <1>4, <1>5 DEF Books

LEMMA PairedCarry ==
    ASSUME NEW p, NEW q, NEW t, NEW u, Paired(p, t), SameBooks(p, q),
           u.paired = t.paired, p.broken => q.broken
    PROVE  Paired(q, u)
<1>1. Bucket(q) = Bucket(p) /\ (Live(q) <=> Live(p))
  BY DEF SameBooks, Bucket, Live
<1>2. /\ \A period \in Periods : q[period] = p[period]
      /\ Bucket(p) \in Periods
  BY DEF SameBooks, Periods, Bucket
<1> QED
  BY <1>1, <1>2 DEF Paired

(* A scope that goes wrong breaks the profile.                              *)
LEMMA PairedBroken ==
    ASSUME NEW p, NEW q, NEW t, NEW u, NEW at, NEW n, Live(p), Timed(p, t, at, n),
           Paired(p, t), SameBooks(p, q), u.paired = Unpaired(t).paired, t \in History, q.broken
    PROVE  Paired(q, u)
<1>1. Bucket(q) = Bucket(p) /\ (Live(q) <=> Live(p)) /\ t.period = Bucket(p)
  BY DEF SameBooks, Bucket, Live, Timed
<1>2. /\ \A period \in Periods : q[period] = p[period]
      /\ Bucket(p) \in Periods
  BY DEF SameBooks, Periods, Bucket
<1>3. u.paired = IF t.period = "handshake" THEN {} ELSE t.paired \ {"postHandshake"}
  BY DEF Unpaired, History
<1>4. ASSUME NEW period \in Periods, q[period].complete
      PROVE  period \in u.paired
  <2>1. p[period].complete /\ period \in t.paired /\ period # Bucket(p)
    BY <1>2, <1>4 DEF Paired
  <2>2. CASE p.finished
    BY <2>1, <2>2, <1>1, <1>3 DEF Bucket, Periods
  <2>3. CASE ~p.finished
    <3>1. p.postHandshake = NoPeriod
      BY <2>3 DEF Timed
    <3> QED
      BY <2>1, <2>3, <3>1 DEF Bucket, Periods, NoPeriod
  <2> QED
    BY <2>2, <2>3
<1> QED
  BY <1>1, <1>2, <1>4 DEF Paired

(* Right after a charge nothing is owed, whatever the phase is now.         *)
LEMMA ExclusiveCarry ==
    ASSUME NEW p, NEW q, NEW t, NEW u, NEW at, Exclusive(p, t, at), SameBooks(p, q),
           SamePast(t, u), Gone(p.lastTick, at) = 0, p.broken => q.broken
    PROVE  Exclusive(q, u, at)
<1>1. Bucket(q) = Bucket(p)
  BY DEF SameBooks, Bucket
<1>2. \A period \in Periods : q[period] = p[period] /\ u[period] = t[period]
  BY DEF SameBooks, SamePast, Periods
<1>3. \A phase \in Phases : Owed(p, phase, at) = 0 /\ Owed(q, phase, at) = 0
  BY DEF Owed, SameBooks
<1> QED
  BY <1>1, <1>2, <1>3 DEF Exclusive, SameBooks

LEMMA SlotParts ==
    ASSUME NEW p, NEW t, NEW current \in BOOLEAN, NEW at, NEW n
    PROVE  SlotOK(p, t, current, at, n) <=>
              /\ Live(p) => (p.running <=> current)
              /\ Books(p, t, at, n, current)
              /\ Scoped(p, t)
              /\ Exclusive(p, t, at)
BY DEF SlotOK, Books

LEMMA SummedWeaker ==
    ASSUME NEW p, NEW t, NEW at, NEW n, Books(p, t, at, n, FALSE)
    PROVE  Books(p, t, at, n, TRUE)
BY DEF Books, Summed

(* A profile that breaks where it stands.                                   *)
LEMMA BreakKeeps ==
    ASSUME NEW p \in Profiler, NEW q, NEW t \in History, NEW u, NEW at, NEW n,
           Live(p), SlotOK(p, t, TRUE, at, n), SameBooks(p, q), q.broken,
           q.running = p.running, SamePast(t, u),
           u.paired = t.paired \/ u.paired = Unpaired(t).paired
    PROVE  SlotOK(q, u, TRUE, at, n)
<1>1. Books(p, t, at, n, TRUE) /\ p.running
  BY SlotParts
<1>2. Paired(q, u)
  BY <1>1, PairedCarry, PairedBroken DEF Books
<1>3. Books(q, u, at, n, TRUE)
  BY <1>1, <1>2, BooksCarry
<1>4. Scoped(q, u) /\ Exclusive(q, u, at)
  BY DEF Scoped, Exclusive
<1> QED
  BY <1>1, <1>3, <1>4, SlotParts

LEMMA EnterKeeps ==
    ASSUME NEW p \in Profiler, NEW t \in History, now \in Clock, NEW n \in 0..MaxTicks,
           Live(p), ~p.broken, SlotOK(p, t, TRUE, now, n), NEW phase \in Phases
    PROVE  /\ SlotOK(ProfileEnter(p, phase), [t EXCEPT !.open = Append(@, phase)], TRUE, now, n)
           /\ Live(ProfileEnter(p, phase))
<1> DEFINE q == ProfileEnter(p, phase)
           u == [t EXCEPT !.open = Append(@, phase)]
<1>1. SamePast(t, u) /\ u.paired = t.paired /\ u.open = Append(t.open, phase)
  BY DEF History, SamePast
<1>2. CASE Full(p.stack, Depth)
  <2>1. q = [p EXCEPT !.broken = TRUE]
    BY <1>2 DEF ProfileEnter
  <2> HIDE DEF q, u
  <2>2. SameBooks(p, q) /\ q.broken /\ q.running = p.running /\ Live(q)
    BY <2>1 DEF Profiler, SameBooks, Details, Live
  <2>3. SlotOK(q, u, TRUE, now, n)
    BY <1>1, <2>2, BreakKeeps
  <2> QED
    BY <2>2, <2>3 DEF q, u
<1>3. CASE ~Full(p.stack, Depth)
  <2> DEFINE c == Charge(p)
             e == Reopened(c, phase)["ecdhe"]
             r == Reopened(c, phase)["trust"]
             f == Append(c.stack, p.phase)
  <2>1. q = [c EXCEPT !.stack = f, !.phase = phase, !.ecdhe = e, !.trust = r]
    BY <1>3 DEF ProfileEnter
  <2>2. /\ c \in Profiler /\ c.stack = p.stack /\ c.phase = p.phase
        /\ c.broken = p.broken /\ c.running = p.running /\ (Live(c) <=> Live(p))
    BY ChargeFields DEF Live
  <2>3. p.running
    BY SlotParts
  <2>4. /\ Books(c, t, now, n, FALSE) /\ Gone(c.lastTick, now) = 0
        /\ Scoped(c, t) /\ Exclusive(c, t, now)
    BY <2>3, ChargeKeeps
  <2> HIDE DEF c
  <2>5. /\ e \in Detail /\ e.ticks = c.ecdhe.ticks /\ e.elapsed = c.ecdhe.elapsed
        /\ r \in Detail /\ r.ticks = c.trust.ticks /\ r.elapsed = c.trust.elapsed
    BY <2>2, ReopenedTypes DEF Details
  <2>6. f = Append(p.stack, p.phase)
    BY <2>2
  <2> HIDE DEF e, r, f, q, u
  <2>7. /\ SameBooks(c, q) /\ q.broken = p.broken /\ q.running = p.running /\ Live(q)
        /\ q.phase = phase /\ q.stack = f
    BY <2>1, <2>2, <2>5 DEF Profiler, SameBooks, Details, Live
  <2>8. Paired(q, u)
    BY <1>1, <2>2, <2>4, <2>7, PairedCarry DEF Books
  <2>9. Books(q, u, now, n, TRUE)
    BY <1>1, <2>4, <2>7, <2>8, BooksCarry, SummedWeaker
  <2>10. Exclusive(q, u, now)
    BY <1>1, <2>2, <2>4, <2>7, ExclusiveCarry
  <2>11. Scoped(q, u)
    <3>1. /\ p.phase = Innermost(t.open) /\ Len(p.stack) = Len(t.open)
          /\ \A i \in 1..Len(p.stack) :
                p.stack[i] = IF i = 1 THEN "Other" ELSE t.open[i - 1]
      BY <2>2, <2>4 DEF Scoped
    <3>2. p.stack \in Seq(Phases) /\ t.open \in Seq(Phases) /\ p.phase \in Phases
      BY DEF Profiler, History
    <3>3. /\ Len(q.stack) = Len(p.stack) + 1 /\ Len(p.stack) \in Nat
          /\ \A i \in 1..Len(p.stack) : q.stack[i] = p.stack[i]
          /\ q.stack[Len(p.stack) + 1] = p.phase
      BY <2>6, <2>7, <3>2, PushFacts
    <3>4. /\ Len(u.open) = Len(t.open) + 1 /\ Len(t.open) \in Nat
          /\ \A i \in 1..Len(t.open) : u.open[i] = t.open[i]
          /\ u.open[Len(t.open) + 1] = phase /\ u.open # <<>>
      BY <1>1, <3>2, PushFacts
    <3>5. q.phase = Innermost(u.open)
      BY <2>7, <3>4 DEF Innermost
    <3>6. p.phase = IF Len(t.open) = 0 THEN "Other" ELSE t.open[Len(t.open)]
      BY <3>1, <3>2 DEF Innermost
    <3>7. \A i \in 1..Len(q.stack) :
             q.stack[i] = IF i = 1 THEN "Other" ELSE u.open[i - 1]
      <4> SUFFICES ASSUME NEW i \in 1..Len(q.stack)
                   PROVE  q.stack[i] = IF i = 1 THEN "Other" ELSE u.open[i - 1]
        OBVIOUS
      <4>1. CASE i <= Len(p.stack)
        <5>1. i # 1 => i - 1 \in 1..Len(t.open)
          BY <4>1, <3>1, <3>4, <3>3
        <5> QED
          BY <4>1, <5>1, <3>1, <3>3, <3>4
      <4>2. CASE i = Len(p.stack) + 1
        BY <4>2, <3>1, <3>3, <3>4, <3>6
      <4> QED
        BY <4>1, <4>2, <3>3
    <3> QED
      BY <3>1, <3>3, <3>4, <3>5, <3>7 DEF Scoped
  <2>12. SlotOK(q, u, TRUE, now, n)
    BY <2>3, <2>7, <2>9, <2>10, <2>11, SlotParts
  <2> QED
    BY <2>7, <2>12 DEF q, u
<1> QED
  BY <1>2, <1>3

LEMMA LeaveKeeps ==
    ASSUME NEW p \in Profiler, NEW t \in History, now \in Clock, NEW n \in 0..MaxTicks,
           Live(p), ~p.broken, SlotOK(p, t, TRUE, now, n)
    PROVE  /\ SlotOK(ProfileLeave(p),
                     IF t.open = <<>> THEN Unpaired(t) ELSE [t EXCEPT !.open = Pop(@)],
                     TRUE, now, n)
           /\ Live(ProfileLeave(p))
<1> DEFINE q == ProfileLeave(p)
           u == IF t.open = <<>> THEN Unpaired(t) ELSE [t EXCEPT !.open = Pop(@)]
<1>1. /\ p.phase = Innermost(t.open) /\ Len(p.stack) = Len(t.open)
      /\ \A i \in 1..Len(p.stack) :
             p.stack[i] = IF i = 1 THEN "Other" ELSE t.open[i - 1]
  BY DEF SlotOK, Scoped
<1>2. p.stack \in Seq(Phases) /\ t.open \in Seq(Phases)
  BY DEF Profiler, History
<1>3. p.stack = <<>> <=> t.open = <<>>
  BY <1>1, <1>2
<1>4. CASE p.stack = <<>>
  <2>1. q = [p EXCEPT !.broken = TRUE] /\ u = Unpaired(t)
    BY <1>3, <1>4 DEF ProfileLeave
  <2> HIDE DEF q, u
  <2>2. SameBooks(p, q) /\ q.broken /\ q.running = p.running /\ Live(q)
    BY <2>1 DEF Profiler, SameBooks, Details, Live
  <2>3. SamePast(t, u) /\ u.paired = Unpaired(t).paired
    BY <2>1 DEF SamePast, Unpaired, History
  <2>4. SlotOK(q, u, TRUE, now, n)
    BY <2>2, <2>3, BreakKeeps
  <2> QED
    BY <2>2, <2>4 DEF q, u
<1>5. CASE p.stack # <<>>
  <2> DEFINE c == Charge(p)
             e == Settled(c, "ecdhe")
             r == Settled(c, "trust")
             f == Pop(c.stack)
             h == p.stack[Len(p.stack)]
  <2>1. q = [c EXCEPT !.ecdhe = e, !.trust = r, !.phase = h, !.stack = f]
    BY <1>5 DEF ProfileLeave
  <2>2. /\ c \in Profiler /\ c.stack = p.stack
        /\ c.broken = p.broken /\ c.running = p.running /\ (Live(c) <=> Live(p))
    BY ChargeFields DEF Live
  <2>3. p.running
    BY SlotParts
  <2>4. /\ Books(c, t, now, n, FALSE) /\ Gone(c.lastTick, now) = 0
        /\ Exclusive(c, t, now)
    BY <2>3, ChargeKeeps
  <2>5. u = [t EXCEPT !.open = Pop(@)]
    BY <1>3, <1>5
  <2>6. SamePast(t, u) /\ u.paired = t.paired /\ u.open = Pop(t.open)
    BY <2>5 DEF History, SamePast
  <2> HIDE DEF c
  <2>7. /\ e \in Detail /\ e.ticks = c.ecdhe.ticks /\ e.elapsed = c.ecdhe.elapsed
        /\ r \in Detail /\ r.ticks = c.trust.ticks /\ r.elapsed = c.trust.elapsed
    BY <2>2, SettledTypes DEF Details
  <2>8. f = Pop(p.stack)
    BY <2>2
  <2> HIDE DEF e, r, f, h, q, u
  <2>9. /\ SameBooks(c, q) /\ q.broken = p.broken /\ q.running = p.running /\ Live(q)
        /\ q.phase = h /\ q.stack = f
    BY <2>1, <2>2, <2>7 DEF Profiler, SameBooks, Details, Live
  <2>10. Paired(q, u)
    BY <2>6, <2>2, <2>4, <2>9, PairedCarry DEF Books
  <2>11. Books(q, u, now, n, TRUE)
    BY <2>6, <2>4, <2>9, <2>10, BooksCarry, SummedWeaker
  <2>12. Exclusive(q, u, now)
    BY <2>6, <2>2, <2>4, <2>9, ExclusiveCarry
  <2>13. Scoped(q, u)
    <3>1. /\ Len(q.stack) = Len(p.stack) - 1 /\ Len(p.stack) \in Nat \ {0}
          /\ \A i \in 1..(Len(p.stack) - 1) : q.stack[i] = p.stack[i]
      BY <1>2, <1>5, <2>8, <2>9, PopFacts
    <3>2. /\ Len(u.open) = Len(t.open) - 1 /\ u.open \in Seq(Phases)
          /\ \A i \in 1..(Len(t.open) - 1) : u.open[i] = t.open[i]
      BY <1>2, <1>3, <1>5, <2>6, PopFacts
    <3>3. \A i \in 1..Len(q.stack) :
             q.stack[i] = IF i = 1 THEN "Other" ELSE u.open[i - 1]
      <4> SUFFICES ASSUME NEW i \in 1..Len(q.stack)
                   PROVE  q.stack[i] = IF i = 1 THEN "Other" ELSE u.open[i - 1]
        OBVIOUS
      <4>1. i \in 1..Len(p.stack) /\ i \in 1..(Len(p.stack) - 1)
        BY <3>1
      <4>2. i # 1 => i - 1 \in 1..(Len(t.open) - 1)
        BY <4>1, <1>1, <3>1
      <4> QED
        BY <4>1, <4>2, <1>1, <3>1, <3>2
    <3>4. q.phase = IF Len(p.stack) = 1 THEN "Other" ELSE t.open[Len(p.stack) - 1]
      <4>1. Len(p.stack) \in 1..Len(p.stack)
        BY <3>1
      <4> QED
        BY <4>1, <1>1, <2>9 DEF h
    <3>5. q.phase = Innermost(u.open)
      <4>1. CASE Len(p.stack) = 1
        <5>0. Len(t.open) = 1
          BY <4>1, <1>1
        <5>1. u.open = <<>>
          BY <5>0, <3>2
        <5> QED
          BY <4>1, <5>1, <3>4 DEF Innermost
      <4>2. CASE Len(p.stack) # 1
        <5>1. /\ u.open # <<>> /\ Len(u.open) \in 1..(Len(t.open) - 1)
              /\ Len(u.open) = Len(p.stack) - 1
          <6>1. Len(t.open) = Len(p.stack) /\ Len(p.stack) \in Nat /\ Len(p.stack) > 1
            <7>1. Len(t.open) = Len(p.stack) /\ Len(p.stack) \in Nat \ {0}
              BY <1>1, <3>1
            <7>2. \A m \in Nat \ {0} : m # 1 => m > 1
              OBVIOUS
            <7> QED
              BY <4>2, <7>1, <7>2
          <6> QED
            BY <6>1, <3>2
        <5> QED
          BY <4>2, <5>1, <3>2, <3>4 DEF Innermost
      <4> QED
        BY <4>1, <4>2
    <3> QED
      BY <1>1, <3>1, <3>2, <3>3, <3>5 DEF Scoped
  <2>14. SlotOK(q, u, TRUE, now, n)
    BY <2>3, <2>9, <2>11, <2>12, <2>13, SlotParts
  <2> QED
    BY <2>9, <2>14 DEF q, u
<1> QED
  BY <1>4, <1>5

(* A detail's own scopes have nothing to do with the phase's.               *)
LEMMA ScopesCarry ==
    ASSUME NEW p, NEW q, NEW t, Scoped(p, t), SameBooks(p, q),
           q.phase = p.phase, q.stack = p.stack, q.broken = p.broken
    PROVE  Scoped(q, t)
BY DEF Scoped, SameBooks, Live

LEMMA SameScopes ==
    ASSUME NEW p, NEW q, NEW t, NEW at, NEW n, NEW current \in BOOLEAN,
           SlotOK(p, t, current, at, n), SameBooks(p, q),
           q.phase = p.phase, q.stack = p.stack, q.broken = p.broken, q.running = p.running
    PROVE  SlotOK(q, t, current, at, n)
<1>1. Books(p, t, at, n, current) /\ (Live(p) => (p.running <=> current))
  BY SlotParts
<1>2. SamePast(t, t) /\ Scoped(p, t) /\ Exclusive(p, t, at)
  BY DEF SlotOK, SamePast
<1>3. Books(q, t, at, n, current)
  BY <1>1, <1>2, PairedCarry, BooksCarry DEF Books
<1>4. Exclusive(q, t, at)
  <2>1. \A period \in Periods : q[period] = p[period]
    BY DEF SameBooks, Periods
  <2>2. Bucket(q) = Bucket(p)
    BY DEF SameBooks, Bucket
  <2>3. \A phase \in Phases : Owed(q, phase, at) = Owed(p, phase, at)
    BY DEF Owed, SameBooks
  <2> QED
    BY <1>2, <2>1, <2>2, <2>3 DEF Exclusive, SameBooks
<1>5. Scoped(q, t)
  BY <1>2, ScopesCarry
<1>6. Live(q) => (q.running <=> current)
  BY <1>1 DEF Live, SameBooks
<1> QED
  BY <1>3, <1>4, <1>5, <1>6, SlotParts

LEMMA ChargedSlot ==
    ASSUME NEW p \in Profiler, NEW t \in History, now \in Clock, NEW n \in 0..MaxTicks,
           Live(p), SlotOK(p, t, TRUE, now, n)
    PROVE  SlotOK(Charge(p), t, TRUE, now, n)
<1>1. p.running
  BY SlotParts
<1>2. (Live(Charge(p)) <=> Live(p)) /\ Charge(p).running = p.running
  BY ChargeFields DEF Live
<1> QED
  BY <1>1, <1>2, ChargeKeeps, SummedWeaker, SlotParts

LEMMA DetailKeeps ==
    ASSUME NEW p \in Profiler, NEW t \in History, now \in Clock, NEW n \in 0..MaxTicks,
           Live(p), SlotOK(p, t, TRUE, now, n), NEW detail \in Details,
           NEW q \in {DetailEnter(p, detail, "Work"), DetailLeave(p, detail)}
    PROVE  SlotOK(q, t, TRUE, now, n) /\ Live(q)
<1> DEFINE c == Charge(p)
<1>1. PICK f, h :
         \/ q = [p EXCEPT ![detail].broken = TRUE]
         \/ q = [c EXCEPT ![detail].stack = f, ![detail].phase = h]
         \/ q = [c EXCEPT ![detail].phase = h, ![detail].stack = f]
  BY DEF DetailEnter, DetailLeave
<1>2. c \in Profiler /\ (Live(c) <=> Live(p)) /\ SlotOK(c, t, TRUE, now, n)
  BY ChargeFields, ChargedSlot DEF Live
<1> HIDE DEF c
<1>3. PICK x \in {p, c} :
         \/ q = [x EXCEPT ![detail].broken = TRUE]
         \/ q = [x EXCEPT ![detail].stack = f, ![detail].phase = h]
         \/ q = [x EXCEPT ![detail].phase = h, ![detail].stack = f]
  BY <1>1
<1>4. x \in Profiler /\ Live(x) /\ SlotOK(x, t, TRUE, now, n)
  BY <1>2
<1>5. /\ SameBooks(x, q) /\ Live(q)
      /\ q.phase = x.phase /\ q.stack = x.stack /\ q.broken = x.broken /\ q.running = x.running
  <2>1. CASE detail = "ecdhe"
    <3>1. \/ q = [x EXCEPT !.ecdhe.broken = TRUE]
          \/ q = [x EXCEPT !.ecdhe.stack = f, !.ecdhe.phase = h]
          \/ q = [x EXCEPT !.ecdhe.phase = h, !.ecdhe.stack = f]
      BY <1>3, <2>1
    <3>2. CASE q = [x EXCEPT !.ecdhe.broken = TRUE]
      BY <1>4, <3>2 DEF Profiler, Detail, SameBooks, Details, Live
    <3>3. CASE q = [x EXCEPT !.ecdhe.stack = f, !.ecdhe.phase = h]
      BY <1>4, <3>3 DEF Profiler, Detail, SameBooks, Details, Live
    <3>4. CASE q = [x EXCEPT !.ecdhe.phase = h, !.ecdhe.stack = f]
      BY <1>4, <3>4 DEF Profiler, Detail, SameBooks, Details, Live
    <3> QED
      BY <3>1, <3>2, <3>3, <3>4
  <2>2. CASE detail = "trust"
    <3>1. \/ q = [x EXCEPT !.trust.broken = TRUE]
          \/ q = [x EXCEPT !.trust.stack = f, !.trust.phase = h]
          \/ q = [x EXCEPT !.trust.phase = h, !.trust.stack = f]
      BY <1>3, <2>2
    <3>2. CASE q = [x EXCEPT !.trust.broken = TRUE]
      BY <1>4, <3>2 DEF Profiler, Detail, SameBooks, Details, Live
    <3>3. CASE q = [x EXCEPT !.trust.stack = f, !.trust.phase = h]
      BY <1>4, <3>3 DEF Profiler, Detail, SameBooks, Details, Live
    <3>4. CASE q = [x EXCEPT !.trust.phase = h, !.trust.stack = f]
      BY <1>4, <3>4 DEF Profiler, Detail, SameBooks, Details, Live
    <3> QED
      BY <3>1, <3>2, <3>3, <3>4
  <2> QED
    BY <2>1, <2>2 DEF Details
<1> QED
  BY <1>4, <1>5, SameScopes

(* The call returns: a scope left open breaks the profile.                  *)
LEMMA SuspendKeeps ==
    ASSUME NEW p \in Profiler, NEW t \in History, now \in Clock, NEW n \in 0..MaxTicks,
           Live(p), SlotOK(p, t, TRUE, now, n)
    PROVE  SlotOK(ProfileSuspend(p),
                  IF t.open = <<>> \/ t.period = "None" THEN t ELSE Unpaired(t),
                  FALSE, now, n)
<1> DEFINE c == Charge(p)
           d == c.broken \/ p.stack # <<>>
           q == ProfileSuspend(p)
           u == IF t.open = <<>> \/ t.period = "None" THEN t ELSE Unpaired(t)
<1>1. q = [c EXCEPT !.broken = d, !.running = FALSE]
  BY DEF ProfileSuspend
<1>2. /\ c \in Profiler /\ c.stack = p.stack /\ c.phase = p.phase
      /\ c.broken = p.broken /\ (Live(c) <=> Live(p))
  BY ChargeFields DEF Live
<1>3. p.running
  BY SlotParts
<1>4. /\ Books(c, t, now, n, FALSE) /\ Gone(c.lastTick, now) = 0
      /\ Scoped(c, t) /\ Exclusive(c, t, now)
  BY <1>3, ChargeKeeps
<1>5. SamePast(t, u) /\ u.open = t.open
  BY DEF SamePast, Unpaired, History
<1> HIDE DEF c, q
<1>6. /\ SameBooks(c, q) /\ q.running = FALSE /\ q.phase = c.phase
      /\ q.stack = c.stack /\ (q.broken <=> c.broken \/ p.stack # <<>>)
  <2> HIDE DEF d
  <2>1. q.broken = d /\ SameBooks(c, q) /\ q.running = FALSE /\ q.phase = c.phase
        /\ q.stack = c.stack
    BY <1>1, <1>2 DEF Profiler, SameBooks, Details
  <2> QED
    BY <2>1 DEF d
<1>7. Paired(q, u)
  <2>1. CASE t.open = <<>> \/ t.period = "None"
    BY <2>1, <1>4, <1>6, PairedCarry DEF Books
  <2>2. CASE ~ (t.open = <<>> \/ t.period = "None")
    <3>1. q.broken
      <4>1. SUFFICES ASSUME ~c.broken PROVE p.stack # <<>>
        BY <1>6
      <4>2. Len(p.stack) = Len(t.open)
        BY <1>2, <1>4, <4>1 DEF Scoped
      <4>3. p.stack \in Seq(Phases) /\ t.open \in Seq(Phases)
        BY DEF Profiler, History
      <4> QED
        BY <2>2, <4>2, <4>3
    <3>2. u.paired = Unpaired(t).paired
      BY <2>2
    <3> HIDE DEF u
    <3> QED
      BY <3>1, <3>2, <1>2, <1>4, <1>6, PairedBroken DEF Books
  <2> QED
    BY <2>1, <2>2
<1> HIDE DEF u
<1>8. Books(q, u, now, n, FALSE)
  BY <1>4, <1>5, <1>6, <1>7, BooksCarry
<1>9. Exclusive(q, u, now)
  BY <1>4, <1>5, <1>6, ExclusiveCarry
<1>10. Scoped(q, u)
  BY <1>4, <1>5, <1>6 DEF Scoped, SameBooks, Live
<1>11. SlotOK(q, u, FALSE, now, n)
  BY <1>6, <1>8, <1>9, <1>10, SlotParts
<1> QED
  BY <1>11 DEF q, u

LEMMA NothingTicked ==
    /\ NoTicks \in [Phases -> Nat] /\ Total(NoTicks) = 0
    /\ \A phase \in Phases : NoTicks[phase] = 0
    /\ NoPeriod.ticks = NoTicks /\ NoPeriod.elapsed = 0 /\ NoPeriod.complete = FALSE
    /\ now \in Clock => Gone(now, now) = 0
<1>1. now \in Clock => Gone(now, now) = 0
  BY GoneIs, ClockFacts
<1> QED
  BY <1>1 DEF NoTicks, NoPeriod, Total, Phases

(* The end of a period: it is complete only if its scopes were paired.      *)
LEMMA EndedFacts ==
    ASSUME NEW p \in Profiler, NEW t \in History, NEW at, NEW n, Live(p),
           Timed(p, t, at, n), Scoped(p, t), Paired(p, t)
    PROVE  /\ Ended(t).open = t.open /\ SamePast(t, Ended(t))
           /\ Ended(t).paired \subseteq t.paired
           /\ t.paired \ {Bucket(p)} \subseteq Ended(t).paired
           /\ Balanced(p) => Bucket(p) \in Ended(t).paired
<1>1. /\ Ended(t).open = t.open /\ SamePast(t, Ended(t))
      /\ Ended(t).paired = IF t.open = <<>> THEN t.paired ELSE t.paired \ {t.period}
  BY DEF Ended, History, SamePast
<1>2. t.period = Bucket(p)
  BY DEF Timed
<1>3. ASSUME Balanced(p)
      PROVE  Bucket(p) \in Ended(t).paired
  <2>1. Len(p.stack) = Len(t.open) /\ p.stack = <<>> /\ Bucket(p) \in t.paired
    BY <1>3 DEF Balanced, Scoped, Paired
  <2>2. t.open \in Seq(Phases)
    BY DEF History
  <2> QED
    BY <2>1, <2>2, <1>1
<1> QED
  BY <1>1, <1>2, <1>3

LEMMA FinishKeeps ==
    ASSUME NEW p \in Profiler, NEW t \in History, now \in Clock, NEW n \in 0..MaxTicks,
           Live(p), ~p.finished, SlotOK(p, t, TRUE, now, n)
    PROVE  /\ SlotOK(ProfileFinish(p), [Ended(t) EXCEPT !.period = "postHandshake"],
                     TRUE, now, n)
           /\ Live(ProfileFinish(p))
<1> DEFINE c == Charge(p)
           q == ProfileFinish(p)
           e == Ended(t)
           u == [e EXCEPT !.period = "postHandshake"]
           whole == Balanced(p)
<1>1. q = [c EXCEPT !.handshake.complete = whole, !.finished = TRUE, !.periodStart = now]
  BY DEF ProfileFinish
<1>2. /\ c \in Profiler /\ c.stack = p.stack /\ c.phase = p.phase /\ c.running = p.running
      /\ c.broken = p.broken /\ (Live(c) <=> Live(p)) /\ ~c.finished /\ c.lastTick = now
  BY ChargeFields DEF Live
<1>3. p.running
  BY SlotParts
<1>4. /\ Books(c, t, now, n, FALSE) /\ Gone(c.lastTick, now) = 0
      /\ Scoped(c, t) /\ Exclusive(c, t, now)
  BY <1>3, ChargeKeeps
<1>5. /\ e \in History /\ e.open = t.open /\ SamePast(t, e)
      /\ e.paired \subseteq t.paired
      /\ t.paired \ {Bucket(p)} \subseteq e.paired
      /\ whole => Bucket(p) \in e.paired
  BY EndedFacts, HistoryTypes DEF SlotOK
<1>6. Bucket(p) = "handshake" /\ Bucket(c) = "handshake" /\ whole \in BOOLEAN
  BY <1>2 DEF Bucket, Balanced
<1>7. whole => ~p.broken
  BY DEF Balanced
<1> HIDE DEF c, q, e, whole
<1>8. /\ u.period = "postHandshake" /\ u.open = t.open /\ u.paired = e.paired
      /\ u.handshake = t.handshake /\ u.postHandshake = t.postHandshake
  BY <1>5 DEF History, SamePast
<1>9. /\ q.handshake.ticks = c.handshake.ticks /\ q.handshake.elapsed = c.handshake.elapsed
      /\ q.handshake.complete = whole /\ q.postHandshake = c.postHandshake
      /\ q.lastTick = c.lastTick /\ q.periodStart = now /\ q.phase = c.phase
      /\ q.stack = c.stack /\ q.enabled = c.enabled /\ q.running = c.running
      /\ q.finished = TRUE /\ q.closed = c.closed /\ q.broken = c.broken
      /\ q.ecdhe = c.ecdhe /\ q.trust = c.trust
  BY <1>1, <1>2, <1>6 DEF Profiler, Period
<1> HIDE DEF u
<1>10. Bucket(q) = "postHandshake" /\ Live(q) /\ Live(c)
  BY <1>2, <1>9 DEF Bucket, Live
<1>11. /\ c.postHandshake = NoPeriod /\ t.postHandshake = NoTicks
       /\ Total(t.handshake) + Total(t.postHandshake) <= n
  BY <1>2, <1>4, <1>10 DEF Books, Timed
<1>12. Gone(now, now) = 0
  BY NothingTicked
<1>13. Timed(q, u, now, n)
  BY <1>2, <1>8, <1>9, <1>10, <1>11, <1>12, NothingTicked DEF Timed, Live
<1>14. Summed(q, TRUE)
  BY <1>4, <1>9, <1>10 DEF Books, Summed, Periods
<1>15. DetailSummed(q)
  <2>1. \A detail \in Details : q[detail] = c[detail]
    BY <1>9 DEF Details
  <2> QED
    BY <2>1, <1>4, <1>9 DEF Books, DetailSummed
<1>16. Paired(q, u)
  <2>1. {"handshake", "postHandshake"} \subseteq t.paired \/ p.broken
    BY <1>2, <1>4, <1>6, <1>10 DEF Books, Paired
  <2>2. ~q.postHandshake.complete
    BY <1>9, <1>11, NothingTicked
  <2>3. q.handshake.complete => "handshake" \in u.paired
    BY <1>5, <1>6, <1>8, <1>9
  <2>4. ~q.broken => "postHandshake" \in u.paired
    BY <2>1, <1>2, <1>5, <1>6, <1>8, <1>9
  <2> QED
    BY <1>10, <2>2, <2>3, <2>4 DEF Paired, Periods
<1>17. Scoped(q, u)
  BY <1>2, <1>4, <1>8, <1>9, <1>10 DEF Scoped
<1>18. Exclusive(q, u, now)
  <2>1. SUFFICES ASSUME q.enabled, ~q.broken, NEW period \in Periods, NEW phase \in Phases
                 PROVE  q[period].ticks[phase]
                        + (IF period = "postHandshake" THEN Owed(q, phase, now) ELSE 0)
                        = u[period][phase]
    BY <1>10 DEF Exclusive
  <2>2. c[period].ticks[phase] + (IF period = "handshake" THEN Owed(c, phase, now) ELSE 0)
        = t[period][phase]
    BY <2>1, <1>4, <1>6, <1>9 DEF Exclusive
  <2>3. Owed(c, phase, now) = 0 /\ Owed(q, phase, now) = 0
    BY <1>2, <1>4, <1>9 DEF Owed
  <2>4. q[period].ticks = c[period].ticks /\ u[period] = t[period]
    BY <1>8, <1>9 DEF Periods
  <2>5. c[period].ticks \in [Phases -> Nat]
    BY <1>2, PeriodFacts
  <2> QED
    BY <2>2, <2>3, <2>4, <2>5
<1>19. SlotOK(q, u, TRUE, now, n)
  BY <1>2, <1>3, <1>9, <1>13, <1>14, <1>15, <1>16, <1>17, <1>18 DEF SlotOK
<1> QED
  BY <1>10, <1>19 DEF q, u, e

LEMMA CloseKeeps ==
    ASSUME NEW p \in Profiler, NEW t \in History, now \in Clock, NEW n \in 0..MaxTicks,
           Live(p), SlotOK(p, t, TRUE, now, n)
    PROVE  SlotOK(ProfileClose(p), [Ended(t) EXCEPT !.period = "None"], FALSE, now, n)
<1> DEFINE c == Charge(p)
           q == ProfileClose(p)
           e == Ended(t)
           b == Bucket(p)
           u == [e EXCEPT !.period = "None"]
           whole == Balanced(p)
<1>1. q = [c EXCEPT ![b].complete = whole, !.closed = TRUE, !.running = FALSE]
  BY DEF ProfileClose
<1>2. /\ c \in Profiler /\ c.stack = p.stack /\ c.phase = p.phase
      /\ c.broken = p.broken /\ (Live(c) <=> Live(p)) /\ c.enabled = p.enabled
      /\ Bucket(c) = b /\ c.finished = p.finished
  BY ChargeFields DEF Live, Bucket
<1>3. p.running
  BY SlotParts
<1>4. /\ Books(c, t, now, n, FALSE) /\ Gone(c.lastTick, now) = 0
      /\ Scoped(c, t) /\ Exclusive(c, t, now)
  BY <1>3, ChargeKeeps
<1>5. /\ e \in History /\ e.open = t.open /\ SamePast(t, e)
      /\ e.paired \subseteq t.paired
      /\ t.paired \ {b} \subseteq e.paired
      /\ whole => b \in e.paired
  BY EndedFacts, HistoryTypes DEF SlotOK
<1>6. /\ b \in Periods /\ whole \in BOOLEAN
      /\ b = IF p.finished THEN "postHandshake" ELSE "handshake"
  BY PeriodFacts DEF Balanced
<1> HIDE DEF c, q, e, b, whole
<1>7. /\ u.period = "None" /\ u.paired = e.paired
      /\ u.handshake = t.handshake /\ u.postHandshake = t.postHandshake
  BY <1>5 DEF History, SamePast
<1>8. /\ \A period \in Periods :
            /\ q[period].ticks = c[period].ticks /\ q[period].elapsed = c[period].elapsed
            /\ q[period].complete = IF period = b THEN whole ELSE c[period].complete
      /\ q.enabled = c.enabled /\ q.closed = TRUE /\ q.running = FALSE
      /\ q.ecdhe = c.ecdhe /\ q.trust = c.trust
  <2>1. CASE b = "handshake"
    <3>1. q = [c EXCEPT !.handshake.complete = whole, !.closed = TRUE, !.running = FALSE]
      BY <1>1, <2>1
    <3> QED
      BY <1>2, <1>6, <2>1, <3>1 DEF Profiler, Period, Periods
  <2>2. CASE b = "postHandshake"
    <3>1. q = [c EXCEPT !.postHandshake.complete = whole, !.closed = TRUE, !.running = FALSE]
      BY <1>1, <2>2
    <3> QED
      BY <1>2, <1>6, <2>2, <3>1 DEF Profiler, Period, Periods
  <2> QED
    BY <1>6, <2>1, <2>2
<1> HIDE DEF u
<1>9. ~Live(q) /\ Live(c) /\ q.enabled
  BY <1>2, <1>8 DEF Live
<1>10. Timed(q, u, now, n)
  BY <1>4, <1>7, <1>9 DEF Books, Timed
<1>11. Summed(q, FALSE)
  BY <1>4, <1>8 DEF Books, Summed
<1>12. DetailSummed(q)
  <2>1. \A detail \in Details : q[detail] = c[detail]
    BY <1>8 DEF Details
  <2>2. q.handshake.ticks = c.handshake.ticks
    BY <1>8 DEF Periods
  <2> QED
    BY <2>1, <2>2, <1>4 DEF Books, DetailSummed
<1>13. Paired(q, u)
  <2>1. ASSUME NEW period \in Periods, q[period].complete
        PROVE  period \in u.paired
    <3>1. CASE period = b
      BY <2>1, <3>1, <1>5, <1>7, <1>8
    <3>2. CASE period # b
      BY <2>1, <3>2, <1>4, <1>5, <1>7, <1>8 DEF Books, Paired
    <3> QED
      BY <3>1, <3>2
  <2> QED
    BY <2>1, <1>9 DEF Paired
<1>14. Scoped(q, u)
  BY <1>9 DEF Scoped
<1>15. Exclusive(q, u, now)
  <2>1. SUFFICES ASSUME ~q.broken, NEW period \in Periods, NEW phase \in Phases
                 PROVE  q[period].ticks[phase] + 0 = u[period][phase]
    BY <1>8 DEF Exclusive, Owed
  <2>2. ~c.broken
    <3>1. q.broken = c.broken
      <4>1. CASE b = "handshake"
        BY <4>1, <1>1, <1>2 DEF Profiler
      <4>2. CASE b = "postHandshake"
        BY <4>2, <1>1, <1>2 DEF Profiler
      <4> QED
        BY <4>1, <4>2, <1>6 DEF Periods
    <3> QED
      BY <2>1, <3>1
  <2>3. c[period].ticks[phase] + (IF period = b THEN Owed(c, phase, now) ELSE 0)
        = t[period][phase]
    BY <2>2, <1>2, <1>4, <1>8, <1>9 DEF Exclusive
  <2>4. Owed(c, phase, now) = 0
    BY <1>4 DEF Owed
  <2>5. q[period].ticks = c[period].ticks /\ u[period] = t[period]
    BY <1>7, <1>8 DEF Periods
  <2>6. c[period].ticks \in [Phases -> Nat]
    BY <1>2, PeriodFacts
  <2> QED
    BY <2>3, <2>4, <2>5, <2>6
<1>16. SlotOK(q, u, FALSE, now, n)
  BY <1>9, <1>10, <1>11, <1>12, <1>13, <1>14, <1>15 DEF SlotOK
<1> QED
  BY <1>16 DEF q, u, e

(* The gap between two calls goes to Idle.                                  *)
LEMMA BindKeeps ==
    ASSUME NEW p \in Profiler, NEW t \in History, now \in Clock, NEW n \in 0..MaxTicks,
           Live(p), SlotOK(p, t, FALSE, now, n)
    PROVE  /\ SlotOK(ProfileBind(p), t, TRUE, now, n)
           /\ Live(ProfileBind(p))
<1> DEFINE b == Bucket(p)
           k == Since(p.lastTick)
           w == Plus(p[b].ticks, "Idle", k)
           q == ProfileBind(p)
<1>1. ~p.running
  BY DEF SlotOK
<1>2. q = [p EXCEPT ![b].ticks = w, !.lastTick = now, !.running = TRUE]
  BY <1>1 DEF ProfileBind
<1>3. /\ Timed(p, t, now, n) /\ Summed(p, FALSE) /\ DetailSummed(p) /\ Scoped(p, t)
      /\ Exclusive(p, t, now) /\ Paired(p, t)
  BY DEF SlotOK
<1>4. k \in Clock /\ k = Gone(p.lastTick, now) /\ k \in Nat
  BY PeriodFacts, SinceTypes, ClockFacts
<1>5. Total(p[b].ticks) + k = Total(t[b]) /\ Total(p[b].ticks) + k < Wrap
  BY <1>3, <1>4, Fits DEF Timed
<1>6. /\ b \in Periods /\ b = (IF p.finished THEN "postHandshake" ELSE "handshake")
      /\ p[b].ticks \in [Phases -> Clock] /\ "Idle" \in Phases
  BY PeriodFacts DEF Phases
<1> HIDE DEF k, b
<1>7. w = [p[b].ticks EXCEPT !["Idle"] = @ + k] /\ Total(w) = Total(t[b])
  BY <1>4, <1>5, <1>6, PlusTotal
<1> HIDE DEF w, q
<1>8. /\ \A period \in Periods :
            /\ q[period].ticks = IF period = b THEN w ELSE p[period].ticks
            /\ q[period].elapsed = p[period].elapsed
            /\ q[period].complete = p[period].complete
            /\ period # b => q[period] = p[period]
      /\ q.ecdhe = p.ecdhe /\ q.trust = p.trust
      /\ q.lastTick = now /\ q.periodStart = p.periodStart
      /\ q.phase = p.phase /\ q.stack = p.stack
      /\ q.enabled = p.enabled /\ q.running = TRUE /\ q.finished = p.finished
      /\ q.closed = p.closed /\ q.broken = p.broken
  <2>1. CASE b = "handshake"
    <3>1. q = [p EXCEPT !.handshake.ticks = w, !.lastTick = now, !.running = TRUE]
      BY <1>2, <2>1
    <3> QED
      BY <2>1, <3>1 DEF Profiler, Period, Periods
  <2>2. CASE b = "postHandshake"
    <3>1. q = [p EXCEPT !.postHandshake.ticks = w, !.lastTick = now, !.running = TRUE]
      BY <1>2, <2>2
    <3> QED
      BY <2>2, <3>1 DEF Profiler, Period, Periods
  <2> QED
    BY <1>6, <2>1, <2>2
<1>9. Bucket(q) = b /\ Bucket(p) = b /\ Live(q)
  BY <1>8 DEF Bucket, Live, b
<1>10. Gone(now, now) = 0
  BY NothingTicked
<1>11. Total(t[b]) \in Nat /\ Total(p[b].ticks) \in Nat
  BY <1>6, PeriodFacts
<1>12. Timed(q, t, now, n)
  <2>1. ~p.finished => q.postHandshake = p.postHandshake
    BY <1>6, <1>8 DEF Periods
  <2> QED
    BY <1>3, <1>6, <1>7, <1>8, <1>9, <1>10, <1>11, <2>1 DEF Timed, Live
<1>13. Summed(q, TRUE)
  BY <1>3, <1>8, <1>9 DEF Summed
<1>14. DetailSummed(q)
  <2>1. ASSUME NEW detail \in Details
        PROVE  q[detail] = p[detail]
               /\ q.handshake.ticks[PhaseOf(detail)] = p.handshake.ticks[PhaseOf(detail)]
    <3>1. PhaseOf(detail) \in Phases /\ PhaseOf(detail) # "Idle"
      BY DEF PhaseOf, Phases
    <3>2. \A phase \in Phases : phase # "Idle" => w[phase] = p[b].ticks[phase]
      BY <1>6, <1>7
    <3>3. q.handshake.ticks = IF b = "handshake" THEN w ELSE p.handshake.ticks
      BY <1>8 DEF Periods
    <3> QED
      BY <1>8, <3>1, <3>2, <3>3 DEF Details
  <2> QED
    BY <1>3, <2>1 DEF DetailSummed
<1>15. Paired(q, t)
  BY <1>3, <1>6, <1>8, <1>9 DEF Paired
<1>16. Scoped(q, t)
  BY <1>3, <1>8, <1>9 DEF Scoped
<1>17. Exclusive(q, t, now)
  <2>1. SUFFICES ASSUME ~q.broken, NEW period \in Periods, NEW phase \in Phases
                 PROVE  q[period].ticks[phase]
                        + (IF period = b THEN Owed(q, phase, now) ELSE 0)
                        = t[period][phase]
    BY <1>9 DEF Exclusive
  <2>2. p[period].ticks[phase] + (IF period = b THEN Owed(p, phase, now) ELSE 0)
        = t[period][phase]
    BY <2>1, <1>3, <1>8, <1>9 DEF Exclusive, Live
  <2>3. Owed(q, phase, now) = 0
    BY <1>8, <1>10 DEF Owed
  <2>4. p[period].ticks \in [Phases -> Nat]
    BY PeriodFacts
  <2>5. CASE period = b
    <3>1. Owed(p, phase, now) = IF phase = "Idle" THEN k ELSE 0
      BY <1>1, <1>4 DEF Owed, Live
    <3>2. w[phase] = p[b].ticks[phase] + (IF phase = "Idle" THEN k ELSE 0)
      BY <1>4, <1>7, <2>4, <2>5
    <3>3. w[phase] \in Nat
      BY <1>4, <2>4, <2>5, <3>2
    <3> QED
      BY <2>2, <2>3, <2>5, <3>1, <3>2, <3>3, <1>8
  <2>6. CASE period # b
    BY <2>2, <2>6, <1>8
  <2> QED
    BY <2>5, <2>6
<1>18. SlotOK(q, t, TRUE, now, n)
  BY <1>8, <1>12, <1>13, <1>14, <1>15, <1>16, <1>17 DEF SlotOK
<1> QED
  BY <1>9, <1>18 DEF q

LEMMA StartKeeps ==
    ASSUME now \in Clock, NEW n \in 0..MaxTicks, NEW enabled \in BOOLEAN
    PROVE  /\ SlotOK(ProfileStart(enabled),
                     IF enabled THEN [NotStarted EXCEPT !.period = "handshake"] ELSE NotStarted,
                     enabled, now, n)
           /\ enabled => Live(ProfileStart(enabled))
<1> DEFINE q == ProfileStart(enabled)
           t == IF enabled THEN [NotStarted EXCEPT !.period = "handshake"] ELSE NotStarted
<1>1. /\ q.handshake = NoPeriod /\ q.postHandshake = NoPeriod
      /\ q.ecdhe = NoDetail /\ q.trust = NoDetail
      /\ q.lastTick = now /\ q.periodStart = now /\ q.phase = "Other" /\ q.stack = <<>>
      /\ q.enabled = enabled /\ q.running = enabled /\ q.finished = FALSE
      /\ q.closed = FALSE /\ q.broken = FALSE
  BY DEF ProfileStart, Cleared
<1>2. /\ t.period = IF enabled THEN "handshake" ELSE "None"
      /\ t.handshake = NoTicks /\ t.postHandshake = NoTicks /\ t.open = <<>>
      /\ t.paired = Periods
  BY DEF NotStarted
<1>3. /\ Total(NoTicks) = 0 /\ Gone(now, now) = 0 /\ 0 <= n
      /\ \A phase \in Phases : NoTicks[phase] = 0
      /\ NoPeriod.ticks = NoTicks /\ NoPeriod.elapsed = 0 /\ NoPeriod.complete = FALSE
  BY NothingTicked
<1> HIDE DEF q, t
<1>4. (Live(q) <=> enabled) /\ Bucket(q) = "handshake"
  BY <1>1 DEF Live, Bucket
<1>5. Timed(q, t, now, n)
  BY <1>1, <1>2, <1>3, <1>4 DEF Timed
<1>6. Summed(q, enabled)
  BY <1>1, <1>3 DEF Summed, Periods
<1>7. DetailSummed(q)
  <2>1. ASSUME NEW detail \in Details
        PROVE  q[detail] = NoDetail /\ NoTicks[PhaseOf(detail)] = 0
    BY <1>1, <1>3 DEF Details, PhaseOf, Phases
  <2>2. DetailTotal(NoDetail.ticks) = 0 /\ NoDetail.elapsed = 0
    BY DEF NoDetail, DetailTotal, DetailPhases
  <2> QED
    BY <2>1, <2>2, <1>1, <1>3 DEF DetailSummed
<1>8. Scoped(q, t)
  BY <1>1, <1>2 DEF Scoped, Innermost
<1>9. Exclusive(q, t, now)
  <2>1. \A phase \in Phases : Owed(q, phase, now) = 0
    BY <1>1, <1>3 DEF Owed
  <2> QED
    BY <2>1, <1>1, <1>2, <1>3 DEF Exclusive, Periods
<1>10. Paired(q, t)
  BY <1>1, <1>2, <1>3, <1>4 DEF Paired, Periods
<1>11. SlotOK(q, t, enabled, now, n)
  BY <1>1, <1>4, <1>5, <1>6, <1>7, <1>8, <1>9, <1>10 DEF SlotOK
<1> QED
  BY <1>4, <1>11 DEF q, t

(* A tick is owed by every live profile, to the scope it is in if a call is   *)
(* running on it and to Idle if not.                                        *)
LEMMA TickKeeps ==
    ASSUME NEW p \in Profiler, NEW t \in History, NEW at \in Clock, NEW n \in 0..MaxTicks,
           n < MaxTicks, NEW current \in BOOLEAN, SlotOK(p, t, current, at, n),
           NEW doing \in Phases,
           Live(p) => doing = IF current THEN Innermost(t.open) ELSE "Idle"
    PROVE  SlotOK(p, IF t.period = "None" THEN t
                     ELSE [t EXCEPT ![t.period][doing] = @ + 1],
                  current, (at + 1) % Wrap, n + 1)
<1> DEFINE u == IF t.period = "None" THEN t ELSE [t EXCEPT ![t.period][doing] = @ + 1]
           next == (at + 1) % Wrap
           b == Bucket(p)
<1>1. /\ Timed(p, t, at, n) /\ Summed(p, current) /\ DetailSummed(p) /\ Scoped(p, t)
      /\ Exclusive(p, t, at) /\ Paired(p, t) /\ (Live(p) => (p.running <=> current))
  BY DEF SlotOK
<1>2. CASE ~Live(p)
  <2>1. u = t
    BY <1>1, <1>2 DEF Timed
  <2> HIDE DEF u, next
  <2>2. Total(t.handshake) \in Nat /\ Total(t.postHandshake) \in Nat
    BY PeriodFacts DEF Periods
  <2>3. Total(t.handshake) + Total(t.postHandshake) <= n + 1
    BY <1>1, <2>2 DEF Timed
  <2>4. Timed(p, t, next, n + 1)
    BY <1>1, <1>2, <2>3 DEF Timed
  <2>5. Exclusive(p, t, next)
    BY <1>1, <1>2 DEF Exclusive, Owed, Live
  <2>6. SlotOK(p, u, current, next, n + 1)
    BY <1>1, <1>2, <2>1, <2>4, <2>5 DEF SlotOK
  <2> QED
    BY <2>6 DEF u, next
<1>3. CASE Live(p)
  <2>1. t.period = b /\ b \in Periods /\ b = (IF p.finished THEN "postHandshake" ELSE "handshake")
    BY <1>1, <1>3, PeriodFacts DEF Timed
  <2>2. u = [t EXCEPT ![b][doing] = @ + 1]
    BY <2>1 DEF Periods
  <2> HIDE DEF u, next, b
  <2>3. /\ u[b] = [t[b] EXCEPT ![doing] = @ + 1]
        /\ \A period \in Periods : period # b => u[period] = t[period]
        /\ u.period = t.period /\ u.open = t.open /\ u.paired = t.paired
    <3>1. CASE b = "handshake"
      <4>1. u = [t EXCEPT !.handshake[doing] = @ + 1]
        BY <2>2, <3>1
      <4> QED
        BY <3>1, <4>1 DEF History, Periods
    <3>2. CASE b = "postHandshake"
      <4>1. u = [t EXCEPT !.postHandshake[doing] = @ + 1]
        BY <2>2, <3>2
      <4> QED
        BY <3>2, <4>1 DEF History, Periods
    <3> QED
      BY <2>1, <3>1, <3>2 DEF Periods
  <2>4. t[b] \in [Phases -> Nat] /\ Total(t[b]) \in Nat
    BY <2>1, PeriodFacts
  <2>5. Total(u[b]) = Total(t[b]) + 1
    BY <2>3, <2>4, TotalAdds
  <2>6. Total(u.handshake) + Total(u.postHandshake) <= n + 1
    <3>1. Total(t.handshake) \in Nat /\ Total(t.postHandshake) \in Nat
      BY PeriodFacts DEF Periods
    <3>2. Total(t.handshake) + Total(t.postHandshake) <= n
      BY <1>1 DEF Timed
    <3>3. CASE b = "handshake"
      BY <2>3, <2>5, <3>1, <3>2, <3>3 DEF Periods
    <3>4. CASE b = "postHandshake"
      BY <2>3, <2>5, <3>1, <3>2, <3>4 DEF Periods
    <3> QED
      BY <2>1, <3>3, <3>4 DEF Periods
  <2>7. /\ Gone(p.periodStart, at) = Total(t[b])
        /\ Total(p[b].ticks) + Gone(p.lastTick, at) = Total(t[b])
        /\ Total(t[b]) <= n
    BY <1>1, <1>3, Fits DEF Timed, b
  <2>8. /\ Gone(p.periodStart, next) = Gone(p.periodStart, at) + 1
        /\ Gone(p.lastTick, next) = Gone(p.lastTick, at) + 1
        /\ Gone(p.lastTick, at) \in Nat
    <3>1. p.lastTick \in Clock /\ p.periodStart \in Clock /\ Total(p[b].ticks) \in Nat
      BY <2>1, PeriodFacts
    <3>2. Gone(p.lastTick, at) \in Nat /\ Gone(p.periodStart, at) \in Nat
      BY <3>1, GoneTypes, ClockFacts
    <3>3. Gone(p.periodStart, at) + 1 < Wrap /\ Gone(p.lastTick, at) + 1 < Wrap
      BY <2>4, <2>7, <3>1, <3>2, ClockFacts
    <3> QED
      BY <3>1, <3>2, <3>3, GoneTicks DEF next
  <2>9. Timed(p, u, next, n + 1)
    <3>1. Total(p[b].ticks) + Gone(p.lastTick, next) = Total(u[b])
      <4>1. Total(p[b].ticks) \in Nat
        BY <2>1, PeriodFacts
      <4> QED
        BY <2>4, <2>5, <2>7, <2>8, <4>1
    <3>2. Gone(p.periodStart, next) = Total(u[b])
      BY <2>5, <2>7, <2>8
    <3>3. ~p.finished => p.postHandshake = NoPeriod /\ u.postHandshake = NoTicks
      BY <1>1, <1>3, <2>1, <2>3 DEF Timed, Periods
    <3> QED
      BY <1>3, <2>1, <2>3, <2>6, <3>1, <3>2, <3>3 DEF Timed, Live, b
  <2>10. Exclusive(p, u, next)
    <3>1. SUFFICES ASSUME ~p.broken, NEW period \in Periods, NEW phase \in Phases
                   PROVE  p[period].ticks[phase]
                          + (IF period = b THEN Owed(p, phase, next) ELSE 0)
                          = u[period][phase]
      BY DEF Exclusive, b
    <3>2. p[period].ticks[phase] + (IF period = b THEN Owed(p, phase, at) ELSE 0)
          = t[period][phase]
      BY <1>1, <1>3, <3>1 DEF Exclusive, b, Live
    <3>3. doing = IF p.running THEN p.phase ELSE "Idle"
      BY <1>1, <1>3, <3>1 DEF Scoped
    <3>4. /\ Owed(p, phase, at) = IF phase = doing THEN Gone(p.lastTick, at) ELSE 0
          /\ Owed(p, phase, next) = IF phase = doing THEN Gone(p.lastTick, next) ELSE 0
      BY <1>3, <3>3 DEF Owed, Live
    <3>5. p[period].ticks \in [Phases -> Nat]
      BY PeriodFacts
    <3>6. CASE period = b
      <4>1. u[b][phase] = t[b][phase] + (IF phase = doing THEN 1 ELSE 0)
        BY <2>3, <2>4
      <4> QED
        BY <2>4, <2>8, <3>2, <3>4, <3>5, <3>6, <4>1
    <3>7. CASE period # b
      BY <2>3, <3>2, <3>7
    <3> QED
      BY <3>6, <3>7
  <2>11. Scoped(p, u) /\ Paired(p, u)
    BY <1>1, <2>3 DEF Scoped, Paired
  <2>12. SlotOK(p, u, current, next, n + 1)
    BY <1>1, <2>9, <2>10, <2>11 DEF SlotOK
  <2> QED
    BY <2>12 DEF u, next
<1> QED
  BY <1>2, <1>3

-----------------------------------------------------------------------------
(* Every step keeps the invariant.                                          *)

LEMMA ConsistentFacts ==
    ASSUME Consistent
    PROVE  /\ TypeOK /\ now \in Clock /\ spent.ticks \in 0..MaxTicks /\ None \notin Slots
           /\ \A s \in Slots :
                 /\ profiler[s] \in Profiler /\ actual[s] \in History
                 /\ SlotOK(profiler[s], actual[s], gCurrent = s, now, spent.ticks)
                 /\ (gCurrent = s) \in BOOLEAN
           /\ gCurrent # None =>
                 /\ gCurrent \in Slots /\ inCall = gCurrent
                 /\ Live(profiler[gCurrent]) /\ Truth \in History
                 /\ profiler[gCurrent] \in Profiler
                 /\ SlotOK(profiler[gCurrent], Truth, TRUE, now, spent.ticks)
<1>1. spent.ticks \in 0..MaxTicks
  BY DEF Consistent, TypeOK
<1>2. gCurrent # None =>
         /\ gCurrent \in Slots /\ inCall = gCurrent
         /\ Live(profiler[gCurrent]) /\ Truth \in History
  BY TypeFacts DEF Consistent, Truth
<1>3. ASSUME NEW s \in Slots
      PROVE  /\ profiler[s] \in Profiler /\ actual[s] \in History
             /\ SlotOK(profiler[s], actual[s], gCurrent = s, now, spent.ticks)
             /\ (gCurrent = s) \in BOOLEAN
  BY TypeFacts DEF Consistent
<1>4. ASSUME gCurrent # None
      PROVE  SlotOK(profiler[gCurrent], Truth, TRUE, now, spent.ticks)
  <2>1. \A s \in Slots : s = gCurrent =>
           SlotOK(profiler[s], actual[s], gCurrent = s, now, spent.ticks)
    BY <1>3
  <2>2. SlotOK(profiler[gCurrent], actual[gCurrent], gCurrent = gCurrent, now, spent.ticks)
    BY <1>2, <1>4, <2>1
  <2>3. (gCurrent = gCurrent) = TRUE
    OBVIOUS
  <2> QED
    BY <2>2, <2>3 DEF Truth
<1> QED
  BY <1>1, <1>2, <1>3, <1>4, TypeFacts DEF Consistent

LEMMA WithinKeeps ==
    ASSUME Consistent, TypeOK', gCurrent # None, NEW q, NEW u, Within(q, u),
           spent'.ticks = spent.ticks,
           \/ /\ gCurrent' = gCurrent /\ Live(q)
              /\ SlotOK(q, u, TRUE, now, spent.ticks)
           \/ /\ gCurrent' = None /\ ~Live(q)
              /\ SlotOK(q, u, FALSE, now, spent.ticks)
    PROVE  Consistent'
<1>1. gCurrent \in Slots /\ inCall = gCurrent
  BY ConsistentFacts
<1>2. \A s \in Slots :
         /\ profiler'[s] = IF s = gCurrent THEN q ELSE profiler[s]
         /\ actual'[s] = IF s = gCurrent THEN u ELSE actual[s]
  BY DEF Within, Consistent, TypeOK
<1>3. now' = now /\ inCall' = gCurrent
  BY <1>1 DEF Within
<1>4. gCurrent' # None => inCall' = gCurrent' /\ Live(profiler'[gCurrent'])
  BY <1>1, <1>2, <1>3
<1>5. \A s \in Slots : inCall' = s /\ Live(profiler'[s]) => gCurrent' = s
  BY <1>1, <1>2, <1>3
<1>6. ASSUME NEW s \in Slots
      PROVE  SlotOK(profiler'[s], actual'[s], gCurrent' = s, now', spent'.ticks)
  <2>1. CASE s = gCurrent
    <3>1. CASE gCurrent' = gCurrent
      <4>1. (gCurrent' = s) = TRUE /\ SlotOK(q, u, TRUE, now, spent.ticks)
        BY <1>1, <2>1, <3>1
      <4> QED
        BY <4>1, <1>2, <1>3, <2>1
    <3>2. CASE gCurrent' # gCurrent
      <4>1. (gCurrent' = s) = FALSE /\ SlotOK(q, u, FALSE, now, spent.ticks)
        BY <1>1, <2>1, <3>2
      <4> QED
        BY <4>1, <1>2, <1>3, <2>1
    <3> QED
      BY <3>1, <3>2
  <2>2. CASE s # gCurrent
    <3>1. (gCurrent' = s) = (gCurrent = s)
      BY <2>2, ConsistentFacts
    <3>2. SlotOK(profiler[s], actual[s], gCurrent = s, now, spent.ticks)
      BY ConsistentFacts
    <3> QED
      BY <3>1, <3>2, <1>2, <1>3, <2>2
  <2> QED
    BY <2>1, <2>2
<1> QED
  BY <1>4, <1>5, <1>6 DEF Consistent

LEMMA TickStep ==
    ASSUME Consistent, TypeOK', Tick
    PROVE  Consistent'
<1>1. /\ spent.ticks < MaxTicks /\ spent'.ticks = spent.ticks + 1
      /\ now' = (now + 1) % Wrap
      /\ gCurrent' = gCurrent /\ inCall' = inCall /\ profiler' = profiler
  BY ConsistentFacts DEF Tick, TypeOK
<1>2. ASSUME NEW s \in Slots
      PROVE  SlotOK(profiler'[s], actual'[s], gCurrent' = s, now', spent'.ticks)
  <2> DEFINE p == profiler[s]
             t == actual[s]
             current == gCurrent = s
             doing == Doing(s)
  <2>1. actual'[s] = IF t.period = "None" THEN t ELSE [t EXCEPT ![t.period][doing] = @ + 1]
    BY DEF Tick
  <2>2. p \in Profiler /\ t \in History /\ current \in BOOLEAN
        /\ SlotOK(p, t, current, now, spent.ticks)
    BY ConsistentFacts
  <2>3. doing \in Phases
    BY <2>2, HistoryTypes DEF Doing, Phases
  <2>4. Live(p) => doing = IF current THEN Innermost(t.open) ELSE "Idle"
    <3>1. Live(p) => (inCall = s <=> gCurrent = s)
      BY ConsistentFacts DEF Consistent
    <3> QED
      BY <3>1 DEF Doing
  <2>5. now \in Clock /\ spent.ticks \in 0..MaxTicks
    BY ConsistentFacts
  <2> HIDE DEF p, t, current, doing
  <2>6. SlotOK(p, IF t.period = "None" THEN t ELSE [t EXCEPT ![t.period][doing] = @ + 1],
               current, (now + 1) % Wrap, spent.ticks + 1)
    BY <1>1, <2>2, <2>3, <2>4, <2>5, TickKeeps
  <2> QED
    BY <1>1, <2>1, <2>6 DEF p, current
<1> QED
  BY <1>1, <1>2 DEF Consistent

LEMMA CallStep ==
    ASSUME Consistent, TypeOK', NEW s \in Slots, Open(s) \/ Call(s)
    PROVE  Consistent'
<1>1. /\ inCall = None /\ inCall' = s /\ now' = now /\ spent'.ticks = spent.ticks
      /\ gCurrent = None
  <2>1. inCall = None /\ inCall' = s /\ now' = now /\ spent'.ticks = spent.ticks
    BY DEF Open, Call, CallBegins, Consistent, TypeOK
  <2> QED
    BY <2>1 DEF Consistent
<1>2. PICK q, u :
         /\ profiler' = [profiler EXCEPT ![s] = q] /\ actual' = [actual EXCEPT ![s] = u]
         /\ \/ gCurrent' = s /\ Live(q) /\ SlotOK(q, u, TRUE, now, spent.ticks)
            \/ gCurrent' = None /\ ~Live(q) /\ SlotOK(q, u, FALSE, now, spent.ticks)
  <2>0. /\ now \in Clock /\ spent.ticks \in 0..MaxTicks
        /\ profiler[s] \in Profiler /\ actual[s] \in History
        /\ SlotOK(profiler[s], actual[s], FALSE, now, spent.ticks)
    <3>1. (gCurrent = s) = FALSE
      BY <1>1, ConsistentFacts
    <3> QED
      BY <3>1, ConsistentFacts
  <2>1. CASE Open(s)
    <3>1. PICK enabled \in BOOLEAN :
             /\ profiler' = [profiler EXCEPT ![s] = ProfileStart(enabled)]
             /\ gCurrent' = IF enabled THEN s ELSE None
             /\ actual' = [actual EXCEPT
                    ![s] = IF enabled THEN [NotStarted EXCEPT !.period = "handshake"]
                           ELSE NotStarted]
      BY <2>1 DEF Open
    <3>2. SlotOK(ProfileStart(enabled),
                 IF enabled THEN [NotStarted EXCEPT !.period = "handshake"] ELSE NotStarted,
                 enabled, now, spent.ticks)
      BY <2>0, StartKeeps
    <3>3. Live(ProfileStart(enabled)) <=> enabled
      BY DEF Live, ProfileStart, Cleared
    <3> QED
      BY <3>1, <3>2, <3>3
  <2>2. CASE Call(s)
    <3>1. actual' = [actual EXCEPT ![s] = actual[s]]
      BY <2>2 DEF Call, Consistent, TypeOK
    <3>2. CASE Binds(profiler[s])
      <4>1. Live(profiler[s])
        BY <3>2 DEF Binds, Live
      <4>2. /\ SlotOK(ProfileBind(profiler[s]), actual[s], TRUE, now, spent.ticks)
            /\ Live(ProfileBind(profiler[s]))
        BY <2>0, <4>1, BindKeeps
      <4>3. profiler' = [profiler EXCEPT ![s] = ProfileBind(profiler[s])] /\ gCurrent' = s
        BY <2>2, <3>2 DEF Call
      <4> QED
        BY <3>1, <4>2, <4>3
    <3>3. CASE ~Binds(profiler[s])
      <4>1. ~Live(profiler[s])
        BY <3>3 DEF Binds, Live
      <4>2. profiler' = [profiler EXCEPT ![s] = profiler[s]] /\ gCurrent' = None
        BY <2>2, <3>3 DEF Call, Consistent, TypeOK
      <4> QED
        BY <2>0, <3>1, <4>1, <4>2
    <3> QED
      BY <3>2, <3>3
  <2> QED
    BY <2>1, <2>2
<1>3. \A x \in Slots :
         /\ profiler'[x] = IF x = s THEN q ELSE profiler[x]
         /\ actual'[x] = IF x = s THEN u ELSE actual[x]
  BY <1>2 DEF Consistent, TypeOK
<1>4. gCurrent' # None => inCall' = gCurrent' /\ Live(profiler'[gCurrent'])
  BY <1>1, <1>2, <1>3
<1>5. \A x \in Slots : inCall' = x /\ Live(profiler'[x]) => gCurrent' = x
  BY <1>1, <1>2, <1>3
<1>6. ASSUME NEW x \in Slots
      PROVE  SlotOK(profiler'[x], actual'[x], gCurrent' = x, now', spent'.ticks)
  <2>1. CASE x = s
    <3>1. CASE gCurrent' = s
      <4>1. (gCurrent' = x) = TRUE /\ SlotOK(q, u, TRUE, now, spent.ticks)
        BY <1>2, <2>1, <3>1, ConsistentFacts
      <4> QED
        BY <4>1, <1>1, <1>3, <2>1
    <3>2. CASE gCurrent' # s
      <4>1. (gCurrent' = x) = FALSE /\ SlotOK(q, u, FALSE, now, spent.ticks)
        BY <1>2, <2>1, <3>2, ConsistentFacts
      <4> QED
        BY <4>1, <1>1, <1>3, <2>1
    <3> QED
      BY <3>1, <3>2
  <2>2. CASE x # s
    <3>1. (gCurrent' = x) = (gCurrent = x)
      BY <1>1, <1>2, <2>2, ConsistentFacts
    <3>2. SlotOK(profiler[x], actual[x], gCurrent = x, now, spent.ticks)
      BY ConsistentFacts
    <3> QED
      BY <3>1, <3>2, <1>1, <1>3, <2>2
  <2> QED
    BY <2>1, <2>2
<1> QED
  BY <1>4, <1>5, <1>6 DEF Consistent

LEMMA ReturnStep ==
    ASSUME Consistent, TypeOK', Return
    PROVE  Consistent'
<1>0. /\ inCall \in Slots /\ inCall' = None /\ gCurrent' = None /\ now' = now
      /\ spent' = spent /\ None \notin Slots
  BY ConsistentFacts, TypeFacts DEF Return
<1>1. \A s \in Slots :
         actual'[s] = IF s = inCall
                      THEN IF actual[s].open = <<>> \/ actual[s].period = "None"
                           THEN actual[s] ELSE Unpaired(actual[s])
                      ELSE actual[s]
  BY <1>0 DEF Return, Consistent, TypeOK
<1>2. \A s \in Slots :
         profiler'[s] = IF s = gCurrent THEN ProfileSuspend(profiler[s]) ELSE profiler[s]
  BY <1>0 DEF Return, Consistent, TypeOK
<1>3. ASSUME NEW s \in Slots
      PROVE  SlotOK(profiler'[s], actual'[s], gCurrent' = s, now', spent'.ticks)
  <2>1. (gCurrent' = s) = FALSE
    BY <1>0
  <2>2. CASE s = gCurrent
    <3>1. /\ gCurrent # None /\ inCall = gCurrent
          /\ Truth = actual[s]
      BY <1>0, <2>2, ConsistentFacts DEF Truth
    <3>2. SlotOK(ProfileSuspend(profiler[s]),
                 IF actual[s].open = <<>> \/ actual[s].period = "None"
                 THEN actual[s] ELSE Unpaired(actual[s]), FALSE, now, spent.ticks)
      BY <2>2, <3>1, ConsistentFacts, SuspendKeeps
    <3> QED
      BY <1>0, <1>1, <1>2, <2>1, <2>2, <3>1, <3>2
  <2>3. CASE s # gCurrent
    <3>1. (gCurrent = s) = FALSE
      BY <2>3
    <3>2. SlotOK(profiler[s], actual[s], FALSE, now, spent.ticks)
      BY <3>1, ConsistentFacts
    <3>3. actual'[s] = actual[s]
      <4>1. CASE s = inCall
        <5>1. ~Live(profiler[s])
          BY <2>3, <4>1 DEF Consistent
        <5>2. actual[s].period = "None"
          BY <3>2, <5>1 DEF SlotOK, Timed
        <5> QED
          BY <5>2, <1>1
      <4>2. CASE s # inCall
        BY <4>2, <1>1
      <4> QED
        BY <4>1, <4>2
    <3> QED
      BY <1>0, <1>2, <2>1, <2>3, <3>2, <3>3
  <2> QED
    BY <2>2, <2>3
<1> QED
  BY <1>0, <1>3 DEF Consistent

LEMMA ConsistentStep ==
    ASSUME Consistent, [Next]_vars
    PROVE  Consistent'
<1> DEFINE p == profiler[gCurrent]
<1>0. TypeOK'
  BY TypeStep DEF Consistent
<1>1. CASE Tick
  BY <1>0, <1>1, TickStep
<1>2. CASE Return
  BY <1>0, <1>2, ReturnStep
<1>3. CASE Leave
  <2>1. gCurrent # None /\ ~p.broken /\ gCurrent' = gCurrent /\ spent' = spent
    BY <1>3 DEF Leave
  <2>2. /\ SlotOK(ProfileLeave(p),
                  IF Truth.open = <<>> THEN Unpaired(Truth)
                  ELSE [Truth EXCEPT !.open = Pop(@)], TRUE, now, spent.ticks)
        /\ Live(ProfileLeave(p))
    BY <2>1, ConsistentFacts, LeaveKeeps
  <2> QED
    BY <1>0, <1>3, <2>1, <2>2, WithinKeeps DEF Leave
<1>4. CASE Finish
  <2>1. gCurrent # None /\ ~p.finished /\ gCurrent' = gCurrent /\ spent' = spent
    BY <1>4 DEF Finish
  <2>2. /\ SlotOK(ProfileFinish(p), [Ended(Truth) EXCEPT !.period = "postHandshake"],
                  TRUE, now, spent.ticks)
        /\ Live(ProfileFinish(p))
    BY <2>1, ConsistentFacts, FinishKeeps
  <2> QED
    BY <1>0, <1>4, <2>1, <2>2, WithinKeeps DEF Finish
<1>5. CASE Close
  <2>1. gCurrent # None /\ gCurrent' = None /\ spent' = spent
    BY <1>5 DEF Close
  <2>2. SlotOK(ProfileClose(p), [Ended(Truth) EXCEPT !.period = "None"],
               FALSE, now, spent.ticks)
    BY <2>1, ConsistentFacts, CloseKeeps
  <2>3. ~Live(ProfileClose(p))
    <3>1. Charge(p) \in Profiler /\ Bucket(p) \in {"handshake", "postHandshake"}
      BY <2>1, ConsistentFacts, ChargeFields DEF Bucket
    <3>2. ProfileClose(p).closed = TRUE
      BY <3>1 DEF ProfileClose, Profiler
    <3> QED
      BY <3>2 DEF Live
  <2> QED
    BY <1>0, <1>5, <2>1, <2>2, <2>3, WithinKeeps DEF Close
<1>6. CASE \E s \in Slots : Open(s) \/ Call(s)
  BY <1>0, <1>6, CallStep
<1>7. CASE \E phase \in Phases \ {"Other", "Idle"} : Enter(phase)
  <2> PICK phase \in Phases \ {"Other", "Idle"} : Enter(phase)
    BY <1>7
  <2>1. gCurrent # None /\ ~p.broken /\ gCurrent' = gCurrent /\ spent'.ticks = spent.ticks
    BY DEF Enter, Scope, Consistent, TypeOK
  <2>2. /\ SlotOK(ProfileEnter(p, phase), [Truth EXCEPT !.open = Append(@, phase)],
                  TRUE, now, spent.ticks)
        /\ Live(ProfileEnter(p, phase))
    BY <2>1, ConsistentFacts, EnterKeeps
  <2> QED
    BY <1>0, <2>1, <2>2, WithinKeeps DEF Enter
<1>8. CASE \E detail \in Detailed : EnterDetail(detail) \/ LeaveDetail(detail)
  <2>1. PICK detail \in Detailed : EnterDetail(detail) \/ LeaveDetail(detail)
    BY <1>8
  <2>2. PICK q \in {DetailEnter(p, detail, "Work"), DetailLeave(p, detail)} :
           /\ gCurrent # None /\ gCurrent' = gCurrent /\ spent'.ticks = spent.ticks
           /\ Within(q, Truth)
    BY <2>1 DEF EnterDetail, LeaveDetail, Scope, Consistent, TypeOK
  <2>3. detail \in Details
    BY ProfileAssumption DEF Details
  <2>4. SlotOK(q, Truth, TRUE, now, spent.ticks) /\ Live(q)
    <3>1. /\ p \in Profiler /\ Truth \in History /\ now \in Clock
          /\ spent.ticks \in 0..MaxTicks /\ Live(p)
          /\ SlotOK(p, Truth, TRUE, now, spent.ticks)
      BY <2>2, ConsistentFacts
    <3> HIDE DEF p
    <3> QED
      BY <2>2, <2>3, <3>1, DetailKeeps
  <2> QED
    BY <1>0, <2>2, <2>4, WithinKeeps
<1>9. CASE UNCHANGED vars
  <2>1. /\ profiler' = profiler /\ actual' = actual /\ gCurrent' = gCurrent
        /\ inCall' = inCall /\ now' = now /\ spent' = spent
    BY <1>9 DEF vars
  <2>2. ASSUME NEW s \in Slots
        PROVE  SlotOK(profiler'[s], actual'[s], gCurrent' = s, now', spent'.ticks)
    <3>1. (gCurrent' = s) = (gCurrent = s)
      BY <2>1
    <3>2. SlotOK(profiler[s], actual[s], gCurrent = s, now, spent.ticks)
      BY ConsistentFacts
    <3> QED
      BY <2>1, <3>1, <3>2
  <2>3. /\ gCurrent' # None => inCall' = gCurrent' /\ Live(profiler'[gCurrent'])
        /\ \A s \in Slots : inCall' = s /\ Live(profiler'[s]) => gCurrent' = s
    BY <2>1 DEF Consistent
  <2> QED
    BY <1>0, <2>2, <2>3 DEF Consistent
<1> QED
  BY <1>1, <1>2, <1>3, <1>4, <1>5, <1>6, <1>7, <1>8, <1>9 DEF Next

LEMMA ConsistentInit == Init => Consistent
<1> SUFFICES ASSUME Init PROVE Consistent
  OBVIOUS
<1>1. ASSUME NEW s \in Slots
      PROVE  SlotOK(profiler[s], actual[s], gCurrent = s, now, spent.ticks)
  <2>1. /\ profiler[s] = Cleared /\ actual[s] = NotStarted /\ (gCurrent = s) = FALSE
        /\ spent.ticks = 0
    BY ProfileAssumption DEF Init
  <2> DEFINE p == Cleared
             t == NotStarted
  <2>2. /\ p.handshake = NoPeriod /\ p.postHandshake = NoPeriod
        /\ p.ecdhe = NoDetail /\ p.trust = NoDetail
        /\ p.enabled = FALSE /\ p.running = FALSE /\ p.finished = FALSE
    BY DEF Cleared
  <2>3. /\ t.period = "None" /\ t.handshake = NoTicks /\ t.postHandshake = NoTicks
    BY DEF NotStarted
  <2> HIDE DEF p, t
  <2>4. ~Live(p)
    BY <2>2 DEF Live
  <2>5. Timed(p, t, now, 0)
    BY <2>2, <2>3, <2>4, NothingTicked DEF Timed
  <2>6. Summed(p, FALSE)
    BY <2>2, NothingTicked DEF Summed, Periods
  <2>7. DetailSummed(p)
    <3>1. ASSUME NEW detail \in Details
          PROVE  p[detail] = NoDetail /\ NoTicks[PhaseOf(detail)] = 0
      BY <2>2, NothingTicked DEF Details, PhaseOf, Phases
    <3>2. DetailTotal(NoDetail.ticks) = 0 /\ NoDetail.elapsed = 0
      BY DEF NoDetail, DetailTotal, DetailPhases
    <3> QED
      BY <3>1, <3>2, <2>2, NothingTicked DEF DetailSummed
  <2>8. Scoped(p, t) /\ Exclusive(p, t, now) /\ Paired(p, t)
    BY <2>2, <2>4, NothingTicked DEF Scoped, Exclusive, Paired, Periods
  <2>9. SlotOK(p, t, FALSE, now, 0)
    BY <2>4, <2>5, <2>6, <2>7, <2>8 DEF SlotOK
  <2> QED
    BY <2>1, <2>9 DEF p, t
<1>2. gCurrent = None /\ inCall = None
  BY DEF Init
<1> QED
  BY <1>1, <1>2, TypeInit, ProfileAssumption DEF Consistent

-----------------------------------------------------------------------------
(* Theorems.                                                                *)

(* The inductive invariant always holds.                                    *)
THEOREM AlwaysConsistent == Spec => []Consistent
<1>1. Init => Consistent
  BY ConsistentInit
<1>2. Consistent /\ [Next]_vars => Consistent'
  BY ConsistentStep
<1> QED
  BY <1>1, <1>2, PTL DEF Spec

(* Every time is a time on the clock, and no scope, however deep, is written *)
(* beyond the profiler's stacks.                                            *)
THEOREM TypeCorrect == Spec => []TypeOK
<1>1. Consistent => TypeOK
  BY DEF Consistent
<1> QED
  BY <1>1, AlwaysConsistent, PTL

(* While the scopes are paired every tick is counted once, for the innermost  *)
(* scope of a running call and for Idle otherwise, although the code looks at *)
(* a clock that wraps only when something is charged.                       *)
THEOREM TicksStayExclusive == Spec => []ExclusiveTicks
<1>1. Consistent => ExclusiveTicks
  <2> SUFFICES ASSUME Consistent, NEW s \in Slots,
                      profiler[s].enabled, ~profiler[s].broken,
                      NEW period \in Periods, NEW phase \in Phases
               PROVE  profiler[s][period].ticks[phase]
                      + (IF period = Bucket(profiler[s]) THEN Pending(s, phase) ELSE 0)
                      = actual[s][period][phase]
    BY DEF ExclusiveTicks
  <2>1. Exclusive(profiler[s], actual[s], now)
    BY ConsistentFacts DEF SlotOK
  <2>2. Pending(s, phase) = Owed(profiler[s], phase, now)
    BY DEF Pending, Owed, Since, Gone
  <2> QED
    BY <2>1, <2>2 DEF Exclusive
<1> QED
  BY <1>1, AlwaysConsistent, PTL

(* The published totals: a period's ticks add up to its elapsed time whenever *)
(* the profile can be read, and a detail's to those of its phase.           *)
THEOREM TotalsAgree == Spec => []Partition
<1>1. Consistent => Partition
  <2> SUFFICES ASSUME Consistent, NEW s \in Slots
               PROVE  LET p == profiler[s]
                      IN  /\ gCurrent # s =>
                               \A period \in Periods :
                                   Total(p[period].ticks) = p[period].elapsed
                          /\ \A detail \in Details :
                               /\ DetailTotal(p[detail].ticks) = p[detail].elapsed
                               /\ p[detail].elapsed = p.handshake.ticks[PhaseOf(detail)]
    BY DEF Partition
  <2>1. Summed(profiler[s], gCurrent = s) /\ DetailSummed(profiler[s])
    BY ConsistentFacts DEF SlotOK
  <2>2. ASSUME gCurrent # s, NEW period \in Periods
        PROVE  Total(profiler[s][period].ticks) = profiler[s][period].elapsed
    BY <2>1, <2>2 DEF Summed
  <2> QED
    BY <2>1, <2>2 DEF DetailSummed
<1> QED
  BY <1>1, AlwaysConsistent, PTL

(* A period is reported complete only if every scope in it was left, and no   *)
(* call returned inside one.                                                *)
THEOREM CompleteMeansPaired == Spec => []CompleteIsPaired
<1>1. Consistent => CompleteIsPaired
  BY ConsistentFacts DEF SlotOK, Paired, CompleteIsPaired
<1> QED
  BY <1>1, AlwaysConsistent, PTL

(* Nothing reaches a closed profile but the start of a new one: it is never   *)
(* bound again, so it is never current.                                     *)
THEOREM ClosedProfilesKeep == Spec => ClosedIsKept
<1>1. ASSUME Consistent, [Next]_vars, NEW s \in Slots,
             profiler[s].closed, profiler'[s].closed
      PROVE  profiler'[s] = profiler[s]
  <2>1. gCurrent # s
    BY <1>1, ConsistentFacts DEF Live
  <2>2. CASE Tick \/ UNCHANGED vars
    BY <2>2 DEF Tick, vars
  <2>3. CASE Return
    BY <1>1, <2>1, <2>3 DEF Return, Consistent, TypeOK
  <2>4. CASE Leave \/ Finish \/ Close
             \/ (\E phase \in Phases \ {"Other", "Idle"} : Enter(phase))
             \/ (\E detail \in Detailed : EnterDetail(detail) \/ LeaveDetail(detail))
    <3>1. \E q, u : Within(q, u)
      BY <2>4 DEF Leave, Finish, Close, Enter, EnterDetail, LeaveDetail
    <3> QED
      BY <1>1, <2>1, <3>1 DEF Within, Consistent, TypeOK
  <2>5. CASE \E x \in Slots : Open(x)
    <3>1. PICK x \in Slots, enabled \in BOOLEAN :
             profiler' = [profiler EXCEPT ![x] = ProfileStart(enabled)]
      BY <2>5 DEF Open
    <3>2. ProfileStart(enabled).closed = FALSE
      BY DEF ProfileStart, Cleared
    <3> QED
      BY <1>1, <3>1, <3>2 DEF Consistent, TypeOK
  <2>6. CASE \E x \in Slots : Call(x)
    <3>1. PICK x \in Slots : Call(x)
      BY <2>6
    <3>2. CASE x = s
      BY <1>1, <3>1, <3>2 DEF Call, Binds
    <3>3. CASE x # s
      BY <1>1, <3>1, <3>3 DEF Call, Consistent, TypeOK
    <3> QED
      BY <3>2, <3>3
  <2> QED
    BY <1>1, <2>2, <2>3, <2>4, <2>5, <2>6 DEF Next
<1>2. Consistent /\ [Next]_vars =>
         [\A s \in Slots :
             profiler[s].closed /\ profiler'[s].closed => profiler'[s] = profiler[s]]_vars
  BY <1>1
<1> QED
  BY <1>2, AlwaysConsistent, PTL DEF Spec, ClosedIsKept
=============================================================================
