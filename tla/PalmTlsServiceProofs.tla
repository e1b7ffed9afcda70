-------------------------- MODULE PalmTlsServiceProofs --------------------------
(***************************************************************************)
(* What one trap of PalmTlsLibrary may do to the sessions of others: the    *)
(* action properties of the library, and the refinement of                  *)
(* TlsSessionService.  The proofs rest on PalmTlsLibraryProofs!Consistent   *)
(* and on a summary of what each kind of trap does to the slots.            *)
(***************************************************************************)
EXTENDS PalmTlsLibraryProofs

-----------------------------------------------------------------------------
(* What each kind of trap does.                                             *)

(* A call goes on with the session of its slot.                             *)
GoesOn(d, c) ==
    /\ d.id = c.id /\ d.session = c.session /\ d.context = c.context
    /\ d.profile # None => c.profile # None
    /\ d.phase = c.phase \/ (c.phase = "opening" /\ d.phase = "active")

SharingEffect ==
    /\ engine' = engine /\ control' = control
    /\ reply'.op \in {"LibOpen", "LibClose"} /\ reply'.status = "Ok"

UnloadingEffect ==
    /\ engine' = NoEngine /\ Cleared(control')
    /\ reply'.op \in {"Purge", "LibClose"} /\ reply'.status = "Ok"

(* The engine there was is gone, if there was one.                          *)
Replaced(e, f) == e.loaded => ~f.loaded \/ f.protocol # e.protocol

(* The slots an open starts from: those there are, or those of an engine    *)
(* loaded for it while no session was alive.                                *)
OpensFrom(c) ==
    \/ c = control /\ engine' = engine
    \/ ~AnyLive(control) /\ Cleared(c) /\ Replaced(engine, engine')

(* What an open leaves in the slot it was given: a session only if it says  *)
(* so, and in either case no profile but its own.                           *)
Given(d, id) ==
    /\ d \in Control
    /\ IsLive(d) => /\ d.id = id /\ reply'.id = id
                    /\ reply'.op = "Open" /\ reply'.status \in {"Ok", "WouldBlock"}
    /\ OwnProfile(d.profile, id)

(* An open leaves the slots it started from, but for the first that was     *)
(* free.                                                                    *)
Opens(c) ==
    \/ control' = c
    \/ \E slot \in FreeSlots(c), d \in Control :
        /\ \A t \in FreeSlots(c) : slot <= t
        /\ control' = [c EXCEPT ![slot] = d]
        /\ engine' \in Engine /\ engine'.loaded
        /\ reply'.status # "Busy" /\ Given(d, nextSessionId')

OpeningEffect ==
    /\ reply'.op \in {"Open", "Exchange"}
    /\ reply'.status = "Busy" => AnyLive(control)
    /\ Full => reply'.status = "Busy"
    /\ nextSessionId' = NextSessionId(nextSessionId, control)
    /\ nextSessionId' \in SessionIds \ Reserved(control)
    /\ \E c \in [Slots -> Control] : OpensFrom(c) /\ Opens(c)

CallEffect(id) ==
    /\ reply'.op \in {"Handshake", "Write", "Read", "Close", "Cancel"}
    /\ reply'.id = id
    /\ reply'.status # "Busy"
    /\ EndingCall => ~LiveAs(control', id)
    /\ \/ engine' = engine /\ control' = control
       \/ ~AnyLive(control) /\ Cleared(control') /\ \A s \in Slots : Blank(control[s])
       \/ /\ engine' = engine
          /\ \E slot \in Holder(control, id), d \in Control :
                /\ control' = [control EXCEPT ![slot] = d]
                /\ \/ GoesOn(d, control[slot])
                   \/ ~IsLive(d) /\ reply'.op \in {"Handshake", "Close", "Cancel"}

TestingEffect ==
    /\ reply'.op = "SelfTest"
    /\ reply'.status = "Busy" => AnyLive(control)
    /\ \/ engine' = engine /\ control' = control
       \/ ~AnyLive(control) /\ ~AnyLive(control')

-----------------------------------------------------------------------------
(* The head of PalmTlsExecute.                                              *)

(* Only a live session makes it Busy.                                       *)
LEMMA PrepareEffect ==
    ASSUME NEW e, NEW c, SlotsOK(e, c),
           NEW protocol \in Protocols, NEW arm \in ArmStatuses, NEW load,
           load \in (ArmStatuses \cup Statuses) \ {"Busy"}
             \/ (e.loaded /\ e.protocol = protocol)
    PROVE  LET prep == Prepare(e, c, protocol, arm, load) IN
           /\ \/ prep.engine = e /\ prep.control = c
              \/ /\ ~AnyLive(c) /\ Cleared(prep.control)
                 /\ Replaced(e, prep.engine)
           /\ prep.status = "Busy" => AnyLive(c)
           /\ e.loaded /\ e.protocol = protocol =>
                prep = [ready |-> TRUE, status |-> "BadParameter",
                        engine |-> e, control |-> c]
           /\ AnyLive(c) =>
                /\ prep.engine = e /\ prep.control = c
                /\ prep.ready \/ prep.status = "Busy"
<1> DEFINE prep == Prepare(e, c, protocol, arm, load)
<1>1. CASE e.loaded /\ e.protocol = protocol
  BY <1>1 DEF Prepare
<1>2. CASE ~(e.loaded /\ e.protocol = protocol) /\ e.loaded /\ AnyLive(c)
  BY <1>2 DEF Prepare
<1>3. CASE ~(e.loaded /\ e.protocol = protocol) /\ ~(e.loaded /\ AnyLive(c))
  <2>1. prep = LoadEngine(ZeroedSlots, protocol, arm, load)
    BY <1>3, UnloadedSlots DEF Prepare
  <2>2. load \in ArmStatuses \cup Statuses /\ load # "Busy"
    BY <1>3 DEF ArmStatuses
  <2>3. Cleared(prep.control)
    BY <2>1, <2>2, LoadEngineOK
  <2>4. prep.status # "Busy"
    BY <2>1, <2>2 DEF LoadEngine
  <2>5. ~AnyLive(c)
    BY <1>3, LiveMeansLoaded DEF AnyLive
  <2>6. Replaced(e, prep.engine)
    BY <1>3, <2>1 DEF Replaced, LoadEngine, LoadedEngine, NoEngine
  <2> HIDE DEF prep
  <2> QED
    BY <1>3, <2>3, <2>4, <2>5, <2>6 DEF prep
<1> QED
  BY <1>1, <1>2, <1>3

LEMMA LoadsNotBusy ==
    ASSUME NEW protocol, NEW load \in Loads(protocol)
    PROVE  load \in (ArmStatuses \cup Statuses) \ {"Busy"}
             \/ (engine.loaded /\ engine.protocol = protocol)
BY DEF Loads, LoadFaults, Verdicts, ArmStatuses, Statuses

LEMMA NobodyLive ==
    ASSUME NEW c, ~AnyLive(c)
    PROVE  FreeSlots(c) = Slots /\ FreeSlots(c) # {}
BY FirstSlot DEF AnyLive, FreeSlots

LEMMA ClearedNobodyLive ==
    ASSUME NEW c, Cleared(c)
    PROVE  ~AnyLive(c)
BY DEF Cleared, AnyLive

-----------------------------------------------------------------------------
(* Opens and exchanges.                                                     *)

(* What an open or an exchange comes to, from what Prepare left.            *)
LEMMA OpeningFrom ==
    ASSUME Consistent, NEW protocol \in Installed,
           NEW load \in Loads(protocol), NEW op \in {"Open", "Exchange"},
           nextSessionId' = NextSessionId(nextSessionId, control),
           LET prep == Prepare(engine, control, protocol, armStatus, load) IN
           /\ engine' = prep.engine
           /\ reply'.op = op
           /\ \/ /\ ~prep.ready \/ FreeSlots(prep.control) = {}
                 /\ control' = prep.control
                 /\ reply'.status = IF prep.ready THEN "Busy" ELSE prep.status
              \/ /\ prep.ready /\ FreeSlots(prep.control) # {}
                 /\ reply'.status # "Busy"
                 /\ \E d :
                      /\ control' = [prep.control EXCEPT
                                        ![FirstOf(FreeSlots(prep.control))] = d]
                      /\ Given(d, nextSessionId')
    PROVE  /\ OpeningEffect
           /\ reply'.status = "Busy" => Full \/ engine.protocol # protocol
<1> DEFINE prep == Prepare(engine, control, protocol, armStatus, load)
<1>1. protocol \in Protocols
  BY InputAssumption
<1>2. /\ \/ prep.engine = engine /\ prep.control = control
         \/ /\ ~AnyLive(control) /\ Cleared(prep.control)
            /\ Replaced(engine, prep.engine)
      /\ prep.status = "Busy" => AnyLive(control)
      /\ AnyLive(control) =>
           /\ prep.engine = engine /\ prep.control = control
           /\ prep.ready \/ prep.status = "Busy"
      /\ engine.loaded /\ engine.protocol = protocol => prep.ready
  BY <1>1, LoadsNotBusy, PrepareEffect DEF Consistent
<1>3. Prepared(prep) /\ nextSessionId' \in SessionIds
  BY OpeningPrepared
<1>4. nextSessionId' \in SessionIds \ Reserved(control)
  BY NextSessionIdFree DEF Consistent
<1>5. /\ engine' = prep.engine
      /\ reply'.op = op
      /\ \/ /\ ~prep.ready \/ FreeSlots(prep.control) = {}
            /\ control' = prep.control
            /\ reply'.status = IF prep.ready THEN "Busy" ELSE prep.status
         \/ /\ prep.ready /\ FreeSlots(prep.control) # {}
            /\ reply'.status # "Busy"
            /\ \E d :
                 /\ control' = [prep.control EXCEPT
                                   ![FirstOf(FreeSlots(prep.control))] = d]
                 /\ Given(d, nextSessionId')
  OBVIOUS
<1> HIDE DEF prep
<1>6. prep.control \in [Slots -> Control] /\ OpensFrom(prep.control)
  BY <1>2, <1>3, <1>5 DEF OpensFrom, Prepared, SlotsOK
<1>7. FreeSlots(prep.control) = {} => AnyLive(control)
  <2>1. ~AnyLive(prep.control) => FreeSlots(prep.control) # {}
    BY NobodyLive
  <2> QED
    BY <1>2, <2>1, ClearedNobodyLive
<1>8. /\ FreeSlots(control) = {} <=> Full
      /\ Full => AnyLive(control)
  BY NobodyLive DEF FreeSlots, Full
<1>9. Opens(prep.control)
  <2>1. CASE control' = prep.control
    BY <2>1 DEF Opens
  <2>2. ASSUME prep.ready, FreeSlots(prep.control) # {}, reply'.status # "Busy", NEW d,
               control' = [prep.control EXCEPT
                              ![FirstOf(FreeSlots(prep.control))] = d],
               Given(d, nextSessionId')
        PROVE  Opens(prep.control)
    <3> DEFINE slot == FirstOf(FreeSlots(prep.control))
    <3>1. /\ slot \in FreeSlots(prep.control)
          /\ \A t \in FreeSlots(prep.control) : slot <= t
      BY <2>2, FirstOfFree DEF FreeSlots
    <3>2. engine' \in Engine /\ engine'.loaded
      BY <1>3, <1>5, <2>2 DEF Prepared, SlotsOK
    <3>3. d \in Control /\ control' = [prep.control EXCEPT ![slot] = d]
      BY <2>2 DEF Given
    <3> HIDE DEF slot
    <3> QED
      BY <2>2, <3>1, <3>2, <3>3 DEF Opens
  <2> QED
    BY <1>5, <2>1, <2>2
<1>10. reply'.status = "Busy" => AnyLive(control)
  BY <1>2, <1>5, <1>7
<1>11. Full => reply'.status = "Busy"
  BY <1>2, <1>5, <1>8
<1>12. reply'.status = "Busy" => Full \/ engine.protocol # protocol
  <2>1. AnyLive(control) => engine.loaded
    BY LiveMeansLoaded DEF Consistent, AnyLive
  <2> QED
    BY <1>2, <1>5, <1>8, <1>10, <2>1
<1> QED
  BY <1>4, <1>5, <1>6, <1>9, <1>10, <1>11, <1>12 DEF OpeningEffect

(* The slot an open that failed or succeeded leaves: free, or live under    *)
(* the ID it was given.                                                     *)
LEMMA RecordedSlot ==
    ASSUME NEW p, NEW status \in Statuses, NEW c, SlotOK(c, p)
    PROVE  LET d == RecordStatus(c, status) IN
           /\ d \in Control /\ SlotOK(d, p)
           /\ d.phase = c.phase /\ d.id = c.id
           /\ d.session = c.session /\ d.context = c.context
           /\ SameProfileId(d.profile, c.profile)
<1> DEFINE d == RecordStatus(c, status)
<1>1. SlotOK(d, p) /\ d.phase = c.phase /\ d.id = c.id
      /\ SameProfileId(d.profile, c.profile)
  BY RecordStatusOK
<1>2. c \in Control
  BY DEF SlotOK
<1>3. d.session = c.session /\ d.context = c.context
  BY <1>2 DEF RecordStatus, Control
<1> QED
  BY <1>1, <1>3 DEF SlotOK

LEMMA HandshakeNotBusy ==
    ASSUME NEW c, NEW cooperative, NEW handshake
    PROVE  ContinueHandshake(c, cooperative, handshake).status # "Busy"
BY DEF ContinueHandshake

LEMMA ReplyFields ==
    ASSUME NEW op, NEW id, NEW status, Return(op, id, status)
    PROVE  reply'.op = op /\ reply'.id = id /\ reply'.status = status
BY DEF Return

LEMMA OpenRejectedEffect ==
    ASSUME NEW prep, NEW op, OpenRejected(op, prep)
    PROVE  /\ ~prep.ready \/ FreeSlots(prep.control) = {}
           /\ control' = prep.control
           /\ reply'.op = op
           /\ reply'.status = IF prep.ready THEN "Busy" ELSE prep.status
BY ReplyFields DEF OpenRejected

LEMMA OpenSetupFailedEffect ==
    ASSUME NEW prep, Prepared(prep), NEW op, NEW r \in Requests, NEW options,
           NEW id \in SessionIds, OpenSetupFailed(op, prep, r, options, id)
    PROVE  /\ prep.ready /\ FreeSlots(prep.control) # {}
           /\ reply'.op = op /\ reply'.status # "Busy"
           /\ \E d : /\ control' = [prep.control EXCEPT
                                       ![FirstOf(FreeSlots(prep.control))] = d]
                     /\ Given(d, id)
<1> DEFINE slot == FirstOf(FreeSlots(prep.control))
           p == prep.engine.protocol
           c == Acquire(prep.control[slot])
           d == OpenSetupFails(c, r, options, p, id)
<1>1. prep.ready /\ FreeSlots(prep.control) # {}
  BY DEF OpenSetupFailed
<1>2. p \in Protocols /\ SlotOK(c, p) /\ ~IsLive(c)
  BY <1>1, ChosenSlot
<1>3. r \in Request
  BY InputAssumption
<1>4. SlotOK(d, p) /\ TakesId(d, id) /\ ~IsLive(d)
  <2> DEFINE a == Configured(c, r, options, p, id)
  <2>1. SlotOK(d, p) /\ TakesId(d, id)
    <3> HIDE DEF c, p
    <3> QED
      BY <1>2, <1>3, OpenSetupFailsOK
  <2>2. SlotOK(a, p)
    <3> HIDE DEF c, p
    <3> QED
      BY <1>2, <1>3, ConfiguredOK
  <2>3. d = CloseDiscarding(a)
    BY DEF OpenSetupFails
  <2> HIDE DEF a, d
  <2> QED
    BY <2>1, <2>2, <2>3, CloseDiscardingOK
<1>5. PICK status \in SetupFaults :
        /\ control' = [prep.control EXCEPT ![slot] = RecordStatus(d, status)]
        /\ Return(op, 0, status)
  BY DEF OpenSetupFailed
<1>6. status \in Statuses /\ status # "Busy"
  BY DEF SetupFaults, Statuses
<1>7. reply'.op = op /\ reply'.status = status
  BY <1>5, ReplyFields
<1> DEFINE n == RecordStatus(d, status)
<1>8. Given(n, id)
  <2> HIDE DEF d
  <2> QED
    BY <1>4, <1>6, RecordedSlot
       DEF TakesId, IsLive, Given, OwnProfile, SameProfileId
<1> HIDE DEF d, slot, n
<1> QED
  BY <1>1, <1>5, <1>6, <1>7, <1>8 DEF slot, n

(* An open that reaches the handshake has a session if and as it says.      *)
LEMMA OpenedOrNot ==
    ASSUME NEW p \in Protocols, NEW r \in Request, NEW options,
           NEW id \in SessionIds, NEW accepted, NEW handshake,
           NEW c, SlotOK(c, p), ~IsLive(c)
    PROVE  LET ran == OpenSession(c, r, options, p, id, accepted, handshake) IN
           /\ ran.status # "Busy"
           /\ IsLive(ran.control) =>
                \/ ran.status = "Ok"
                \/ ran.status = "WouldBlock" /\ "cooperative" \in options
<1> DEFINE a == Configured(c, r, options, p, id)
           b == FilterResume(a, r, options, accepted)
           e == AttachSession(b, r, options, p, id)
           ran == ContinueHandshake(e, "cooperative" \in options, handshake)
<1>1. /\ SlotOK(a, p) /\ ~IsLive(a) /\ OwnProfile(a.profile, id)
      /\ a.context # None /\ a.context.trust = TrustOf(r)
  BY ConfiguredOK
<1>2. /\ SlotOK(b, p) /\ ~IsLive(b) /\ OwnProfile(b.profile, id)
      /\ b.context # None /\ b.context.trust = TrustOf(r)
      /\ b.resume # None => /\ b.resume.host = r.host
                            /\ b.resume.trust = TrustOf(r)
  <2>1. /\ SlotOK(b, p) /\ ~IsLive(b)
        /\ b.context = a.context /\ b.profile = a.profile
        /\ b.resume # None => /\ b.resume.host = r.host
                              /\ b.resume.trust = TrustOf(r)
    <3> HIDE DEF a
    <3> QED
      BY <1>1, FilterResumeOK
  <2> HIDE DEF a, b
  <2> QED
    BY <1>1, <2>1
<1>3. SlotOK(e, p)
  <2> HIDE DEF b
  <2> QED
    BY <1>2, AttachSessionOK
<1>4. ~IsLive(CloseDiscarding(e))
  <2> HIDE DEF e
  <2> QED
    BY <1>3, CloseDiscardingOK
<1>5. /\ ran.status # "Busy"
      /\ IsLive(ran.control) =>
           \/ ran.status = "Ok"
           \/ ran.status = "WouldBlock" /\ "cooperative" \in options
  <2> HIDE DEF e
  <2> QED
    BY <1>4 DEF ContinueHandshake
<1> QED
  BY <1>5 DEF OpenSession

LEMMA SessionStartedEffect ==
    ASSUME NEW prep, Prepared(prep), NEW r \in Requests, NEW options,
           NEW id \in SessionIds, SessionStarted(prep, r, options, id)
    PROVE  /\ prep.ready /\ FreeSlots(prep.control) # {}
           /\ reply'.op = "Open" /\ reply'.status # "Busy"
           /\ \E d : /\ control' = [prep.control EXCEPT
                                       ![FirstOf(FreeSlots(prep.control))] = d]
                     /\ Given(d, id)
<1> DEFINE slot == FirstOf(FreeSlots(prep.control))
           p == prep.engine.protocol
           c == Acquire(prep.control[slot])
<1>1. prep.ready /\ FreeSlots(prep.control) # {}
  BY DEF SessionStarted
<1>2. p \in Protocols /\ SlotOK(c, p) /\ ~IsLive(c)
  BY <1>1, ChosenSlot
<1>3. r \in Request
  BY InputAssumption
<1>4. PICK accepted \in BOOLEAN, handshake \in RunnableHandshakes :
        LET ran == OpenSession(c, r, options, p, id, accepted, handshake) IN
        /\ control' = [prep.control EXCEPT
             ![slot] = RecordStatus(ran.control, ran.status)]
        /\ Return("Open", id, ran.status)
  BY DEF SessionStarted
<1> DEFINE ran == OpenSession(c, r, options, p, id, accepted, handshake)
           n == RecordStatus(ran.control, ran.status)
<1>5. /\ SlotOK(ran.control, p) /\ TakesId(ran.control, id)
      /\ ran.status \in Statuses
  <2> HIDE DEF c, p
  <2> QED
    BY <1>2, <1>3, OpenSessionOK
<1>6. ran.status # "Busy" /\ (IsLive(ran.control) => ran.status \in {"Ok", "WouldBlock"})
  <2> HIDE DEF c, p
  <2> QED
    BY <1>2, <1>3, OpenedOrNot
<1>7. /\ control' = [prep.control EXCEPT ![slot] = n]
      /\ reply'.op = "Open" /\ reply'.status = ran.status /\ reply'.id = id
  BY <1>4, ReplyFields
<1>8. Given(n, id)
  <2> HIDE DEF ran
  <2> QED
    BY <1>5, <1>6, <1>7, RecordedSlot
       DEF TakesId, IsLive, Given, OwnProfile, SameProfileId
<1> HIDE DEF ran, n, slot
<1> QED
  BY <1>1, <1>6, <1>7, <1>8 DEF slot

LEMMA ExchangedEffect ==
    ASSUME NEW prep, Prepared(prep), NEW r \in Requests,
           NEW id \in SessionIds, Exchanged(prep, r, id)
    PROVE  /\ prep.ready /\ FreeSlots(prep.control) # {}
           /\ reply'.op = "Exchange" /\ reply'.status # "Busy"
           /\ \E d : /\ control' = [prep.control EXCEPT
                                       ![FirstOf(FreeSlots(prep.control))] = d]
                     /\ Given(d, id)
<1> DEFINE slot == FirstOf(FreeSlots(prep.control))
           p == prep.engine.protocol
           c == Acquire(prep.control[slot])
<1>1. prep.ready /\ FreeSlots(prep.control) # {}
  BY DEF Exchanged
<1>2. p \in Protocols /\ SlotOK(c, p) /\ ~IsLive(c)
  BY <1>1, ChosenSlot
<1>3. r \in Request
  BY InputAssumption
<1>4. PICK accepted \in BOOLEAN, kept \in BOOLEAN,
           handshake \in RunnableHandshakes, transfer \in TransferResults :
        LET ran  == OpenSession(c, r, ExchangeOptions, p, id, accepted,
                                handshake)
            shut == CloseSaving(ran.control, p, kept)
        IN  IF ran.status # "Ok"
            THEN /\ control' = [prep.control EXCEPT ![slot] = ran.control]
                 /\ Return("Exchange", 0, ran.status)
            ELSE /\ control' = [prep.control EXCEPT ![slot] = shut]
                 /\ Return("Exchange", 0, transfer)
  BY DEF Exchanged
<1> DEFINE ran == OpenSession(c, r, ExchangeOptions, p, id, accepted, handshake)
           shut == CloseSaving(ran.control, p, kept)
<1>5. SlotOK(ran.control, p) /\ TakesId(ran.control, id)
  <2> HIDE DEF c, p
  <2> QED
    BY <1>2, <1>3, OpenSessionOK
<1>6. ran.status # "Busy" /\ (IsLive(ran.control) => ran.status = "Ok")
  <2>1. "cooperative" \notin ExchangeOptions
    BY DEF ExchangeOptions
  <2> HIDE DEF c, p
  <2> QED
    BY <1>2, <1>3, <2>1, OpenedOrNot
<1>7. SlotOK(shut, p) /\ ~IsLive(shut) /\ TakesId(shut, id)
  <2> HIDE DEF ran
  <2> QED
    BY <1>2, <1>5, CloseSavingOK DEF TakesId, OwnProfile, SameProfileId
<1>8. \/ /\ control' = [prep.control EXCEPT ![slot] = ran.control]
         /\ ran.status # "Ok"
         /\ reply'.op = "Exchange" /\ reply'.status = ran.status
      \/ /\ control' = [prep.control EXCEPT ![slot] = shut]
         /\ reply'.op = "Exchange" /\ reply'.status = transfer
  BY <1>4, ReplyFields
<1>9. transfer # "Busy"
  BY DEF TransferResults
<1> HIDE DEF ran, shut, slot
<1>10. /\ ran.status # "Ok" => Given(ran.control, id)
       /\ Given(shut, id)
  BY <1>5, <1>6, <1>7 DEF SlotOK, Given, TakesId
<1> QED
  BY <1>1, <1>6, <1>8, <1>9, <1>10 DEF slot

LEMMA OpeningOn ==
    ASSUME Consistent, nextSessionId' = NextSessionId(nextSessionId, control),
           NEW protocol \in Installed,
           SessionOpenOn(protocol) \/ ExchangeOn(protocol)
    PROVE  /\ OpeningEffect
           /\ reply'.status = "Busy" => Full \/ engine.protocol # protocol
<1> DEFINE Prep(load) == Prepare(engine, control, protocol, armStatus, load)
<1>1. nextSessionId' = NextSessionId(nextSessionId, control)
  OBVIOUS
<1>2. PICK op \in {"Open", "Exchange"}, r \in Requests,
           options \in OptionSets \cup {ExchangeOptions} :
        \E load \in Loads(protocol) :
          /\ engine' = Prep(load).engine
          /\ \/ OpenRejected(op, Prep(load))
             \/ OpenSetupFailed(op, Prep(load), r, options, nextSessionId')
             \/ op = "Open" /\ SessionStarted(Prep(load), r, options,
                                              nextSessionId')
             \/ op = "Exchange" /\ Exchanged(Prep(load), r, nextSessionId')
  BY DEF SessionOpenOn, ExchangeOn
<1>3. PICK load \in Loads(protocol) :
          /\ engine' = Prep(load).engine
          /\ \/ OpenRejected(op, Prep(load))
             \/ OpenSetupFailed(op, Prep(load), r, options, nextSessionId')
             \/ op = "Open" /\ SessionStarted(Prep(load), r, options,
                                              nextSessionId')
             \/ op = "Exchange" /\ Exchanged(Prep(load), r, nextSessionId')
  BY <1>2
<1> DEFINE prep == Prep(load)
<1>4. Prepared(prep) /\ nextSessionId' \in SessionIds
  BY <1>1, OpeningPrepared
<1>5. /\ reply'.op = op
      /\ \/ /\ ~prep.ready \/ FreeSlots(prep.control) = {}
            /\ control' = prep.control
            /\ reply'.status = IF prep.ready THEN "Busy" ELSE prep.status
         \/ /\ prep.ready /\ FreeSlots(prep.control) # {}
            /\ reply'.status # "Busy"
            /\ \E d :
                 /\ control' = [prep.control EXCEPT
                                   ![FirstOf(FreeSlots(prep.control))] = d]
                 /\ Given(d, nextSessionId')
  <2>1. \/ OpenRejected(op, prep)
        \/ OpenSetupFailed(op, prep, r, options, nextSessionId')
        \/ op = "Open" /\ SessionStarted(prep, r, options, nextSessionId')
        \/ op = "Exchange" /\ Exchanged(prep, r, nextSessionId')
    BY <1>3
  <2> HIDE DEF prep
  <2>2. CASE OpenRejected(op, prep)
    BY <2>2, OpenRejectedEffect
  <2>3. CASE OpenSetupFailed(op, prep, r, options, nextSessionId')
    BY <1>4, <2>3, OpenSetupFailedEffect
  <2>4. CASE op = "Open" /\ SessionStarted(prep, r, options, nextSessionId')
    BY <1>4, <2>4, SessionStartedEffect
  <2>5. CASE op = "Exchange" /\ Exchanged(prep, r, nextSessionId')
    BY <1>4, <2>5, ExchangedEffect
  <2> QED
    BY <2>1, <2>2, <2>3, <2>4, <2>5
<1>6. engine' = prep.engine
  BY <1>3
<1> QED
  BY <1>1, <1>5, <1>6, OpeningFrom

LEMMA OpeningsEffect ==
    ASSUME Consistent, SessionOpen \/ Exchange
    PROVE  OpeningEffect
<1>1. /\ nextSessionId' = NextSessionId(nextSessionId, control)
      /\ \E protocol \in Installed :
            SessionOpenOn(protocol) \/ ExchangeOn(protocol)
  BY DEF SessionOpen, Exchange
<1> QED
  BY <1>1, OpeningOn

-----------------------------------------------------------------------------
(* Calls on a session ID.                                                   *)

(* What a call finds when no slot holds its ID.                             *)
LEMMA NoSuchSessionEffect ==
    ASSUME Consistent, NEW load \in Loads(engine.protocol),
           NEW op \in {"Handshake", "Write", "Read"}, NEW id \in SessionIds,
           LET prep == Prepare(engine, control, engine.protocol, armStatus,
                               load) IN
           engine' = prep.engine /\ NoSuchSession(op, id, prep)
    PROVE  CallEffect(id)
<1>0. op \notin {"Close", "Cancel"}
  OBVIOUS
<1> DEFINE prep == Prepare(engine, control, engine.protocol, armStatus, load)
<1>1. engine.protocol \in Protocols
  BY DEF Consistent, SlotsOK, Engine
<1>2. /\ \/ prep.engine = engine /\ prep.control = control
         \/ /\ ~AnyLive(control) /\ Cleared(prep.control)
            /\ Replaced(engine, prep.engine)
      /\ prep.status = "Busy" => AnyLive(control)
      /\ engine.loaded =>
           prep = [ready |-> TRUE, status |-> "BadParameter",
                   engine |-> engine, control |-> control]
  BY <1>1, LoadsNotBusy, PrepareEffect DEF Consistent
<1>3. AnyLive(control) => engine.loaded
  BY LiveMeansLoaded DEF Consistent, AnyLive
<1>4. engine' = prep.engine /\ control' = prep.control
      /\ reply'.op = op /\ reply'.id = id /\ reply'.status = prep.status
  BY ReplyFields DEF NoSuchSession
<1>5. engine.loaded => /\ prep.engine = engine /\ prep.control = control
                       /\ prep.status = "BadParameter"
  BY <1>2
<1> HIDE DEF prep
<1>6. CASE engine.loaded
  BY <1>0, <1>4, <1>5, <1>6 DEF CallEffect, EndingCall
<1>7. CASE ~engine.loaded
  <2>1. \A s \in Slots : Blank(control[s])
    BY <1>7 DEF Consistent, SlotsOK
  <2>2. prep.status # "Busy"
    BY <1>2, <1>3, <1>7
  <2>3. ~AnyLive(control')
    BY <1>2, <1>3, <1>4, <1>7, ClearedNobodyLive
  <2>4. ~LiveAs(control', id)
    BY <2>3 DEF AnyLive, LiveAs
  <2> QED
    BY <1>2, <1>4, <2>1, <2>2, <2>4 DEF CallEffect
<1> QED
  BY <1>6, <1>7

(* The answers that say the session is over.                                *)
Ending(op, status) ==
    \/ op = "Cancel"
    \/ op = "Close" /\ status = "Ok"
    \/ op = "Handshake" /\ status = "HandshakeFailed"

(* The engine ran the command on the slot that holds the ID.                *)
LEMMA SlotRanEffect ==
    ASSUME Consistent, NEW id \in SessionIds,
           NEW slot \in Holder(control, id),
           NEW op \in {"Handshake", "Write", "Read", "Close", "Cancel"},
           NEW d, SlotOK(d, engine.protocol),
           NEW status \in Statuses \ {"Busy"},
           SlotRan(op, id, slot, d, status), engine' = engine,
           \/ GoesOn(d, control[slot]) /\ ~Ending(op, status)
           \/ ~IsLive(d) /\ op \in {"Handshake", "Close", "Cancel"}
    PROVE  CallEffect(id)
<1> DEFINE n == RecordStatus(d, status)
<1>1. /\ n \in Control /\ n.phase = d.phase /\ n.id = d.id
      /\ n.session = d.session /\ n.context = d.context
      /\ n.profile # None => d.profile # None
  BY RecordedSlot DEF SameProfileId
<1>2. /\ control' = [control EXCEPT ![slot] = n]
      /\ reply'.op = op /\ reply'.id = id /\ reply'.status = status
  BY ReplyFields DEF SlotRan
<1> HIDE DEF n
<1>3. \/ GoesOn(n, control[slot]) /\ ~Ending(op, status)
      \/ ~IsLive(n) /\ op \in {"Handshake", "Close", "Cancel"}
  BY <1>1 DEF GoesOn, IsLive
<1>4. EndingCall => ~LiveAs(control', id)
  <2> SUFFICES ASSUME EndingCall, NEW s \in Slots,
                      IsLive(control'[s]), control'[s].id = id
               PROVE  FALSE
    BY DEF LiveAs
  <2>1. ~IsLive(n)
    BY <1>2, <1>3 DEF EndingCall, Ending
  <2>2. control \in [Slots -> Control] /\ slot \in Slots
        /\ IsLive(control[slot]) /\ control[slot].id = id
    BY DEF Consistent, SlotsOK, Holder
  <2>3. s # slot /\ control'[s] = control[s]
    BY <1>2, <2>1, <2>2
  <2> QED
    BY <2>2, <2>3 DEF Consistent, SlotsOK, IdsApart
<1> QED
  BY <1>1, <1>2, <1>3, <1>4 DEF CallEffect

(* A slot the call leaves as it found it goes on.                           *)
LEMMA Untouched == \A c : GoesOn(c, c)
BY DEF GoesOn

LEMMA ContinuedOrEnded ==
    ASSUME NEW p, NEW handshake, NEW c, SlotOK(c, p), c.phase = "opening"
    PROVE  LET ran == ContinueHandshake(c, TRUE, handshake) IN
           /\ SlotOK(ran.control, p)
           /\ ran.status \in Statuses \ {"Busy"}
           /\ \/ GoesOn(ran.control, c) /\ ran.status # "HandshakeFailed"
              \/ ~IsLive(ran.control)
<1> DEFINE ran == ContinueHandshake(c, TRUE, handshake)
           d == [c EXCEPT !.phase = "active"]
<1>1. SlotOK(ran.control, p) /\ ran.status \in Statuses
  BY ContinueHandshakeOK DEF IsLive
<1>2. ran.status # "Busy"
  BY HandshakeNotBusy
<1>3. GoesOn(d, c)
  BY DEF GoesOn, SlotOK, Control
<1>4. ~IsLive(CloseDiscarding(c))
  BY CloseDiscardingOK
<1>5. \/ ran.control \in {c, d} /\ ran.status # "HandshakeFailed"
      \/ ran.control = CloseDiscarding(c)
  BY DEF ContinueHandshake
<1> HIDE DEF ran, d
<1> QED
  BY <1>1, <1>2, <1>3, <1>4, <1>5, Untouched DEF ran

LEMMA SessionHandshakeEffect ==
    ASSUME Consistent, NEW id \in SessionIds, SessionHandshake(id)
    PROVE  CallEffect(id)
<1> DEFINE Prep(load) == Prepare(engine, control, engine.protocol, armStatus,
                                 load)
<1>1. PICK load \in Loads(engine.protocol) :
        /\ engine' = Prep(load).engine
        /\ \/ NoSuchSession("Handshake", id, Prep(load))
           \/ \E slot \in Holder(Prep(load).control, id),
                 handshake \in RunnableHandshakes :
                LET c   == Prep(load).control[slot]
                    ran == ContinueHandshake(c, TRUE, handshake)
                IN  IF c.phase = "opening"
                    THEN SlotRan("Handshake", id, slot, ran.control, ran.status)
                    ELSE SlotRan("Handshake", id, slot, c, "BadParameter")
  BY DEF SessionHandshake
<1> DEFINE prep == Prep(load)
<1>2. CASE NoSuchSession("Handshake", id, prep)
  BY <1>1, <1>2, NoSuchSessionEffect
<1>3. CASE \E slot \in Holder(prep.control, id),
              handshake \in RunnableHandshakes :
             LET c   == prep.control[slot]
                 ran == ContinueHandshake(c, TRUE, handshake)
             IN  IF c.phase = "opening"
                 THEN SlotRan("Handshake", id, slot, ran.control, ran.status)
                 ELSE SlotRan("Handshake", id, slot, c, "BadParameter")
  <2>1. prep.engine = engine /\ prep.control = control
    <3>1. Holder(prep.control, id) # {} =>
            prep.engine = engine /\ prep.control = control
      BY CallPrepared
    <3> HIDE DEF prep
    <3> QED
      BY <1>3, <3>1
  <2>2. engine' = engine
    BY <1>1, <2>1
  <2>3. PICK slot \in Holder(control, id), handshake \in RunnableHandshakes :
          LET c   == control[slot]
              ran == ContinueHandshake(c, TRUE, handshake)
          IN  IF c.phase = "opening"
              THEN SlotRan("Handshake", id, slot, ran.control, ran.status)
              ELSE SlotRan("Handshake", id, slot, c, "BadParameter")
    <3> HIDE DEF prep
    <3> QED
      BY <1>3, <2>1
  <2> DEFINE ran == ContinueHandshake(control[slot], TRUE, handshake)
  <2>4. SlotOK(control[slot], engine.protocol)
    BY FoundSlot
  <2>5. CASE control[slot].phase = "opening"
    <3>1. /\ SlotOK(ran.control, engine.protocol)
          /\ ran.status \in Statuses \ {"Busy"}
          /\ \/ GoesOn(ran.control, control[slot])
                /\ ~Ending("Handshake", ran.status)
             \/ ~IsLive(ran.control)
      BY <2>4, <2>5, ContinuedOrEnded DEF Ending
    <3>2. SlotRan("Handshake", id, slot, ran.control, ran.status)
      BY <2>3, <2>5
    <3> HIDE DEF ran
    <3> QED
      BY <2>2, <3>1, <3>2, SlotRanEffect
  <2>6. CASE control[slot].phase # "opening"
    <3>1. SlotRan("Handshake", id, slot, control[slot], "BadParameter")
      BY <2>3, <2>6
    <3>2. "BadParameter" \in Statuses \ {"Busy"}
          /\ ~Ending("Handshake", "BadParameter")
      BY DEF Statuses, Ending
    <3> QED
      BY <2>2, <2>4, <3>1, <3>2, Untouched, SlotRanEffect
  <2> QED
    BY <2>5, <2>6
<1> QED
  BY <1>1, <1>2, <1>3

LEMMA SessionIoEffect ==
    ASSUME Consistent, NEW id \in SessionIds, NEW op \in {"Write", "Read"},
           SessionIo(op, id)
    PROVE  CallEffect(id)
<1> DEFINE Prep(load) == Prepare(engine, control, engine.protocol, armStatus,
                                 load)
<1>1. PICK load \in Loads(engine.protocol) :
        /\ engine' = Prep(load).engine
        /\ \/ NoSuchSession(op, id, Prep(load))
           \/ \E slot \in Holder(Prep(load).control, id),
                 status \in IoResults(op) :
                IF Prep(load).control[slot].phase = "active"
                THEN SlotRan(op, id, slot, Prep(load).control[slot], status)
                ELSE SlotRan(op, id, slot, Prep(load).control[slot],
                             "BadParameter")
  BY DEF SessionIo
<1> DEFINE prep == Prep(load)
<1>2. CASE NoSuchSession(op, id, prep)
  BY <1>1, <1>2, NoSuchSessionEffect
<1>3. CASE \E slot \in Holder(prep.control, id), status \in IoResults(op) :
             IF prep.control[slot].phase = "active"
             THEN SlotRan(op, id, slot, prep.control[slot], status)
             ELSE SlotRan(op, id, slot, prep.control[slot], "BadParameter")
  <2>1. prep.engine = engine /\ prep.control = control
    <3>1. Holder(prep.control, id) # {} =>
            prep.engine = engine /\ prep.control = control
      BY CallPrepared
    <3> HIDE DEF prep
    <3> QED
      BY <1>3, <3>1
  <2>2. engine' = engine
    BY <1>1, <2>1
  <2>3. IoResults(op) \cup {"BadParameter"} \subseteq Statuses \ {"Busy"}
    BY DEF IoResults, Statuses
  <2>4. PICK slot \in Holder(control, id), status \in Statuses \ {"Busy"} :
          SlotRan(op, id, slot, control[slot], status)
    <3> HIDE DEF prep
    <3> QED
      BY <1>3, <2>1, <2>3
  <2>5. SlotOK(control[slot], engine.protocol) /\ ~Ending(op, status)
    BY FoundSlot DEF Ending
  <2> QED
    BY <2>2, <2>4, <2>5, Untouched, SlotRanEffect
<1> QED
  BY <1>1, <1>2, <1>3

LEMMA SessionCloseEffect ==
    ASSUME Consistent, NEW id \in SessionIds, SessionClose(id)
    PROVE  CallEffect(id)
<1>1. engine' = engine
  BY DEF SessionClose
<1>2. {"Ok", "BadParameter"} \subseteq Statuses \ {"Busy"}
  BY DEF Statuses
<1>3. CASE control' = control /\ Return("Close", id, "BadParameter")
  BY <1>1, <1>3, ReplyFields DEF CallEffect, EndingCall
<1>4. CASE \E slot \in Holder(control, id), kept \in BOOLEAN :
             IF control[slot].phase = "active"
             THEN SlotRan("Close", id, slot,
                     CloseSaving(control[slot], engine.protocol, kept), "Ok")
             ELSE SlotRan("Close", id, slot, control[slot], "BadParameter")
  <2>1. PICK slot \in Holder(control, id), kept \in BOOLEAN :
             IF control[slot].phase = "active"
             THEN SlotRan("Close", id, slot,
                     CloseSaving(control[slot], engine.protocol, kept), "Ok")
             ELSE SlotRan("Close", id, slot, control[slot], "BadParameter")
    BY <1>4
  <2> DEFINE d == CloseSaving(control[slot], engine.protocol, kept)
  <2>2. SlotOK(control[slot], engine.protocol) /\ engine.protocol \in Protocols
    BY FoundSlot
  <2>3. SlotOK(d, engine.protocol) /\ ~IsLive(d)
    BY <2>2, CloseSavingOK
  <2>4. \/ SlotRan("Close", id, slot, d, "Ok")
        \/ SlotRan("Close", id, slot, control[slot], "BadParameter")
    BY <2>1
  <2>5. ~Ending("Close", "BadParameter")
    BY DEF Ending
  <2> HIDE DEF d
  <2> QED
    BY <1>1, <1>2, <2>2, <2>3, <2>4, <2>5, Untouched, SlotRanEffect
<1> QED
  BY <1>3, <1>4 DEF SessionClose

LEMMA SessionCancelEffect ==
    ASSUME Consistent, NEW id \in SessionIds, SessionCancel(id)
    PROVE  CallEffect(id)
<1>1. engine' = engine
  BY DEF SessionCancel
<1>2. "Cancelled" \in Statuses \ {"Busy"}
  BY DEF Statuses
<1>3. CASE /\ Holder(control, id) = {}
           /\ control' = control /\ Return("Cancel", id, "BadParameter")
  <2>1. ~LiveAs(control', id)
    BY <1>3 DEF Holder, LiveAs
  <2> QED
    BY <1>1, <1>3, <2>1, ReplyFields DEF CallEffect
<1>4. CASE \E slot \in Holder(control, id) :
             SlotRan("Cancel", id, slot, CloseDiscarding(control[slot]),
                     "Cancelled")
  <2>1. PICK slot \in Holder(control, id) :
             SlotRan("Cancel", id, slot, CloseDiscarding(control[slot]),
                     "Cancelled")
    BY <1>4
  <2> DEFINE d == CloseDiscarding(control[slot])
  <2>2. SlotOK(control[slot], engine.protocol)
    BY FoundSlot
  <2>3. SlotOK(d, engine.protocol) /\ ~IsLive(d)
    BY <2>2, CloseDiscardingOK
  <2>4. SlotRan("Cancel", id, slot, d, "Cancelled")
    BY <2>1
  <2> HIDE DEF d
  <2> QED
    BY <1>1, <1>2, <2>3, <2>4, SlotRanEffect
<1> QED
  BY <1>3, <1>4 DEF SessionCancel

-----------------------------------------------------------------------------
(* The self-test.                                                           *)

(* Beside a live session it does nothing; without one it starts none.       *)
LEMMA OfflineTestEffect ==
    ASSUME NEW e, NEW c, SlotsOK(e, c),
           NEW protocol \in Protocols, NEW arm \in ArmStatuses, NEW load,
           load \in (ArmStatuses \cup Statuses) \ {"Busy"}
             \/ (e.loaded /\ e.protocol = protocol),
           NEW right
    PROVE  LET test == RunOfflineSelfTest(e, c, protocol, arm, load, right) IN
           /\ AnyLive(c) => /\ test.engine = e /\ test.control = c
                            /\ test.status # "Ok"
           /\ ~AnyLive(c) => ~AnyLive(test.control) /\ test.status # "Busy"
<1> DEFINE prep == Prepare(e, c, protocol, arm, load)
           verdict == IF prep.engine.armStatus = "Passed" /\ ~right
                      THEN "Failed" ELSE prep.engine.armStatus
           status == IF verdict = "Passed" THEN "Ok" ELSE "SelfTestFailed"
           after == [prep.engine EXCEPT !.armStatus = verdict,
                        !.hook = @ /\ verdict = "Passed"]
           slot == RecordStatus(prep.control[0], status)
           test == RunOfflineSelfTest(e, c, protocol, arm, load, right)
<1>1. /\ \/ prep.engine = e /\ prep.control = c
         \/ ~AnyLive(c) /\ Cleared(prep.control)
      /\ prep.status = "Busy" => AnyLive(c)
      /\ AnyLive(c) => /\ prep.engine = e /\ prep.control = c
                       /\ prep.ready \/ prep.status = "Busy"
  BY PrepareEffect
<1>2. ~AnyLive(c) => ~AnyLive(prep.control)
  BY <1>1, ClearedNobodyLive
<1>3. Prepared(prep)
  <2>1. load \in ArmStatuses \cup Statuses \/ (e.loaded /\ e.protocol = protocol)
    OBVIOUS
  <2> QED
    BY <2>1, PrepareOK DEF Prepared
<1>4. CASE ~prep.ready
  <2>1. test = [engine |-> prep.engine, control |-> prep.control,
                status |-> prep.status, armStatus |-> "Unavailable"]
    BY <1>4 DEF RunOfflineSelfTest
  <2>2. test.engine = prep.engine /\ test.control = prep.control
        /\ test.status = prep.status
    BY <2>1
  <2> HIDE DEF prep, test
  <2> QED
    BY <1>1, <1>2, <1>4, <2>2 DEF test
<1>5. CASE prep.ready /\ AnyLive(prep.control)
  <2>1. test = [engine |-> prep.engine, control |-> prep.control,
                status |-> "Busy", armStatus |-> "Unavailable"]
    BY <1>5 DEF RunOfflineSelfTest
  <2>2. test.engine = prep.engine /\ test.control = prep.control
        /\ test.status = "Busy"
    BY <2>1
  <2> HIDE DEF prep, test
  <2> QED
    BY <1>1, <1>2, <1>5, <2>2 DEF test
<1>6. CASE prep.ready /\ ~AnyLive(prep.control)
  <2>1. test = [engine |-> after,
                control |-> [prep.control EXCEPT ![0] = slot],
                status |-> status, armStatus |-> verdict]
    BY <1>6 DEF RunOfflineSelfTest
  <2>2. ~AnyLive(c)
    BY <1>1, <1>6
  <2>3. test.control = [prep.control EXCEPT ![0] = slot]
        /\ test.status \in {"Ok", "SelfTestFailed"}
    BY <2>1
  <2>4. /\ prep.control \in [Slots -> Control]
        /\ SlotOK(prep.control[0], prep.engine.protocol)
    BY <1>3, FirstSlot DEF Prepared, SlotsOK
  <2>5. slot.phase = prep.control[0].phase
    <3> DEFINE c0 == prep.control[0]
               p0 == prep.engine.protocol
    <3>1. SlotOK(c0, p0) /\ status \in Statuses
      BY <2>4 DEF Statuses
    <3> HIDE DEF c0, p0, status
    <3> QED
      BY <3>1, RecordedSlot DEF c0
  <2> HIDE DEF prep, slot, test
  <2>6. \A s \in Slots : test.control[s].phase = prep.control[s].phase
    BY <2>3, <2>4, <2>5
  <2>7. ~AnyLive(test.control)
    BY <1>6, <2>6 DEF AnyLive, IsLive
  <2> QED
    BY <2>2, <2>3, <2>7 DEF test
<1> QED
  BY <1>4, <1>5, <1>6

LEMMA RunSelfTestEffect ==
    ASSUME Consistent, RunSelfTest
    PROVE  TestingEffect
<1> DEFINE Test(protocol, load, right) ==
               RunOfflineSelfTest(engine, control, protocol, armStatus,
                                  load, right)
           Harmless(test) ==
               /\ AnyLive(control) => /\ test.engine = engine
                                      /\ test.control = control
                                      /\ test.status # "Ok"
               /\ ~AnyLive(control) => /\ ~AnyLive(test.control)
                                       /\ test.status # "Busy"
<1>1. "tls12" \in Protocols /\ "tls13" \in Protocols
  BY DEF Protocols
<1>2. ASSUME NEW protocol \in Protocols, NEW load \in Loads(protocol),
             NEW right
      PROVE  /\ Harmless(Test(protocol, load, right))
             /\ SlotsOK(Test(protocol, load, right).engine,
                        Test(protocol, load, right).control)
             /\ Test(protocol, load, right).armStatus \in ArmStatuses
  <2>1. /\ load \in ArmStatuses \cup Statuses
              \/ (engine.loaded /\ engine.protocol = protocol)
        /\ load \in (ArmStatuses \cup Statuses) \ {"Busy"}
              \/ (engine.loaded /\ engine.protocol = protocol)
    BY LoadsType, LoadsNotBusy
  <2>2. SlotsOK(engine, control) /\ armStatus \in ArmStatuses
    BY DEF Consistent
  <2>3. /\ SlotsOK(Test(protocol, load, right).engine,
                   Test(protocol, load, right).control)
        /\ Test(protocol, load, right).armStatus \in ArmStatuses
    BY <2>1, <2>2, RunOfflineSelfTestOK
  <2> DEFINE test == Test(protocol, load, right)
  <2>4. /\ AnyLive(control) => /\ test.engine = engine
                               /\ test.control = control
                               /\ test.status # "Ok"
        /\ ~AnyLive(control) => ~AnyLive(test.control) /\ test.status # "Busy"
    <3>1. (engine.loaded /\ engine.protocol = protocol)
            \/ load \in (ArmStatuses \cup Statuses) \ {"Busy"}
      BY <2>1
    <3> HIDE DEF test
    <3>2. test = RunOfflineSelfTest(engine, control, protocol, armStatus,
                                    load, right)
      BY DEF test
    <3> QED
      BY <2>2, <3>1, <3>2, OfflineTestEffect
  <2>5. Harmless(test)
    <3> HIDE DEF test
    <3> QED
      BY <2>4
  <2> QED
    BY <2>3, <2>5
<1>3. ASSUME NEW test, Tested(test), Harmless(test)
      PROVE  TestingEffect
  BY <1>3, ReplyFields DEF TestingEffect, Tested
<1>4. CASE "tls12" \notin Installed
  <2>1. PICK load \in Loads("tls13"), right \in BOOLEAN :
          Tested(Test("tls13", load, right))
    BY <1>4 DEF RunSelfTest
  <2> DEFINE test == Test("tls13", load, right)
  <2>2. Harmless(test) /\ Tested(test)
    BY <1>1, <1>2, <2>1
  <2> HIDE DEF test
  <2> QED
    BY <1>3, <2>2
<1>5. CASE "tls12" \in Installed
  <2>1. PICK load \in Loads("tls12"), right \in BOOLEAN :
          LET first == Test("tls12", load, right) IN
          IF "tls13" \in Installed /\ first.status = "Ok"
          THEN \E next \in LoadFaults \cup Verdicts, also \in BOOLEAN :
                  Tested(RunOfflineSelfTest(first.engine, first.control,
                             "tls13", first.armStatus, next, also))
          ELSE Tested(first)
    BY <1>5 DEF RunSelfTest
  <2> DEFINE first == Test("tls12", load, right)
  <2>2. /\ Harmless(first)
        /\ SlotsOK(first.engine, first.control)
        /\ first.armStatus \in ArmStatuses
    BY <1>1, <1>2
  <2>3. \/ Tested(first)
        \/ /\ first.status = "Ok"
           /\ \E next \in LoadFaults \cup Verdicts, also \in BOOLEAN :
                Tested(RunOfflineSelfTest(first.engine, first.control,
                           "tls13", first.armStatus, next, also))
    BY <2>1
  <2> HIDE DEF first
  <2>4. CASE Tested(first)
    BY <1>3, <2>2, <2>4
  <2>5. ASSUME first.status = "Ok",
               NEW next \in LoadFaults \cup Verdicts, NEW also \in BOOLEAN,
               Tested(RunOfflineSelfTest(first.engine, first.control,
                          "tls13", first.armStatus, next, also))
        PROVE  TestingEffect
    <3> DEFINE test == RunOfflineSelfTest(first.engine, first.control,
                           "tls13", first.armStatus, next, also)
    <3>1. next \in (ArmStatuses \cup Statuses) \ {"Busy"}
      BY DEF LoadFaults, Verdicts, ArmStatuses, Statuses
    <3>2. ~AnyLive(control) /\ ~AnyLive(first.control)
      BY <2>2, <2>5
    <3>3. ~AnyLive(test.control) /\ test.status # "Busy"
      BY <1>1, <2>2, <3>1, <3>2, OfflineTestEffect
    <3>4. Harmless(test) /\ Tested(test)
      BY <2>5, <3>2, <3>3
    <3> HIDE DEF test, Harmless
    <3> QED
      BY <1>3, <3>4
  <2> QED
    BY <2>3, <2>4, <2>5
<1> QED
  BY <1>4, <1>5

-----------------------------------------------------------------------------
(* All traps.                                                               *)

LEMMA StepEffect ==
    ASSUME Consistent, Next
    PROVE  \/ SharingEffect \/ UnloadingEffect
           \/ OpeningEffect \/ TestingEffect
           \/ \E id \in SessionIds : CallEffect(id)
<1>1. CASE LibOpen \/ LibCloseShared
  BY <1>1, ReplyFields DEF LibOpen, LibCloseShared, SharingEffect
<1>2. CASE LibCloseLast \/ PurgeCache
  <2>1. engine' = NoEngine /\ control' = ZeroedSlots
    BY <1>2, UnloadedSlots DEF Consistent, LibCloseLast, PurgeCache
  <2>2. reply'.op \in {"Purge", "LibClose"} /\ reply'.status = "Ok"
    BY <1>2, ReplyFields DEF LibCloseLast, PurgeCache
  <2> QED
    BY <2>1, <2>2, ZeroedSlotsCleared DEF UnloadingEffect
<1>3. CASE SessionOpen \/ Exchange
  BY <1>3, OpeningsEffect
<1>4. CASE RunSelfTest
  BY <1>4, RunSelfTestEffect
<1>5. ASSUME NEW id \in SessionIds,
             \/ SessionHandshake(id)
             \/ SessionIo("Write", id) \/ SessionIo("Read", id)
             \/ SessionClose(id) \/ SessionCancel(id)
      PROVE  CallEffect(id)
  BY <1>5, SessionHandshakeEffect, SessionIoEffect, SessionCloseEffect,
     SessionCancelEffect
<1> QED
  BY <1>1, <1>2, <1>3, <1>4, <1>5 DEF Next

-----------------------------------------------------------------------------
(* The action properties.                                                   *)

(* What OpeningEffect says of a slot.                                       *)
LEMMA OpeningSlots ==
    ASSUME Consistent, OpeningEffect, NEW s \in Slots, IsLive(control[s])
    PROVE  engine' = engine /\ control'[s] = control[s]
<1>1. AnyLive(control)
  BY DEF AnyLive
<1>2. PICK c \in [Slots -> Control] : OpensFrom(c) /\ Opens(c)
  BY DEF OpeningEffect
<1>3. c = control /\ engine' = engine
  BY <1>1, <1>2 DEF OpensFrom
<1> QED
  BY <1>2, <1>3 DEF Opens, FreeSlots

(* A call touches no slot but the one that holds its ID.                    *)
LEMMA CallSlots ==
    ASSUME Consistent, NEW id \in SessionIds, CallEffect(id),
           NEW s \in Slots, ~(IsLive(control[s]) /\ control[s].id = id),
           ~Blank(control[s])
    PROVE  engine' = engine /\ control'[s] = control[s]
<1>1. control \in [Slots -> Control]
  BY DEF Consistent, SlotsOK
<1> QED
  BY <1>1 DEF CallEffect, Holder

(* A slot with a live session holds something.                              *)
LEMMA LiveNotBlank ==
    ASSUME Consistent, NEW s \in Slots, IsLive(control[s])
    PROVE  ~Blank(control[s]) /\ engine.loaded /\ control[s] \in Control
BY LiveMeansLoaded DEF Consistent, SlotsOK, SlotOK, SlotShape, Blank

(* Between two calls of its owner nobody disturbs a session: PalmTlsExecute *)
(* refuses to load over it, and each call finds its own slot by its ID.     *)
THEOREM SessionsStayUndisturbed == Spec => LiveSessionUndisturbed
<1> DEFINE Undisturbed(s) ==
             /\ control'[s].id = control[s].id
             /\ control'[s].session = control[s].session
             /\ control'[s].context = control[s].context
             /\ control[s].phase = "active" => control'[s].phase = "active"
             /\ engine'.loaded /\ engine'.protocol = engine.protocol
           Ended(s) == EndsSession(s) /\ ~IsLive(control'[s])
<1>1. ASSUME Consistent, Next, NEW s \in Slots, IsLive(control[s])
      PROVE  Undisturbed(s) \/ Ended(s)
  <2>1. engine.loaded /\ ~Blank(control[s]) /\ control[s] \in Control
    BY <1>1, LiveNotBlank
  <2>2. AnyLive(control)
    BY <1>1 DEF AnyLive
  <2>3. CASE engine' = engine /\ control'[s] = control[s]
    BY <2>1, <2>3
  <2>4. CASE SharingEffect
    BY <2>3, <2>4 DEF SharingEffect
  <2>5. CASE UnloadingEffect
    BY <2>5 DEF UnloadingEffect, EndsSession, Cleared
  <2>6. CASE OpeningEffect
    BY <1>1, <2>3, <2>6, OpeningSlots
  <2>7. CASE TestingEffect
    BY <2>2, <2>3, <2>7 DEF TestingEffect
  <2>8. ASSUME NEW id \in SessionIds, CallEffect(id)
        PROVE  Undisturbed(s) \/ Ended(s)
    <3>1. CASE control[s].id # id
      BY <1>1, <2>1, <2>3, <2>8, <3>1, CallSlots
    <3>2. CASE control[s].id = id
      <4>1. CASE control' = control /\ engine' = engine
        BY <2>3, <4>1
      <4>2. ASSUME engine' = engine,
                   NEW slot \in Holder(control, id), NEW d \in Control,
                   control' = [control EXCEPT ![slot] = d],
                   \/ GoesOn(d, control[slot])
                   \/ /\ ~IsLive(d)
                      /\ reply'.op \in {"Handshake", "Close", "Cancel"}
            PROVE  Undisturbed(s) \/ Ended(s)
        <5>1. slot = s
          BY <1>1, <3>2, <4>2 DEF Holder, Consistent, SlotsOK, IdsApart
        <5>2. control'[s] = d
          BY <1>1, <4>2, <5>1 DEF Consistent, SlotsOK
        <5>3. CASE GoesOn(d, control[s])
          BY <2>1, <4>2, <5>2, <5>3 DEF GoesOn
        <5>4. CASE /\ ~IsLive(d)
                   /\ reply'.op \in {"Handshake", "Close", "Cancel"}
          BY <2>8, <3>2, <5>2, <5>4 DEF CallEffect, EndsSession
        <5> QED
          BY <4>2, <5>1, <5>3, <5>4
      <4> HIDE DEF Undisturbed, Ended
      <4> QED
        BY <2>2, <2>8, <4>1, <4>2 DEF CallEffect
    <3> QED
      BY <3>1, <3>2
  <2> HIDE DEF Undisturbed, Ended
  <2> QED
    BY <1>1, <2>4, <2>5, <2>6, <2>7, <2>8, StepEffect
<1>2. Consistent /\ [Next]_vars
        => [\A s \in Slots : IsLive(control[s]) =>
              \/ /\ control'[s].id = control[s].id
                 /\ control'[s].session = control[s].session
                 /\ control'[s].context = control[s].context
                 /\ control[s].phase = "active" => control'[s].phase = "active"
                 /\ engine'.loaded /\ engine'.protocol = engine.protocol
              \/ EndsSession(s) /\ ~IsLive(control'[s])]_vars
  BY <1>1
<1> QED
  BY <1>2, AlwaysConsistent, PTL DEF Spec, LiveSessionUndisturbed

(* A slot becomes live only in an open that says so.                        *)
LEMMA OnlyOpensTake ==
    ASSUME Consistent, Next, NEW s \in Slots,
           ~IsLive(control[s]), IsLive(control'[s])
    PROVE  /\ reply'.op = "Open" /\ reply'.status \in {"Ok", "WouldBlock"}
           /\ reply'.id = control'[s].id
<1>1. control \in [Slots -> Control]
  BY DEF Consistent, SlotsOK
<1>2. CASE OpeningEffect
  <2>1. PICK c \in [Slots -> Control] : OpensFrom(c) /\ Opens(c)
    BY <1>2 DEF OpeningEffect
  <2>2. ~IsLive(c[s])
    BY <2>1 DEF OpensFrom, Cleared
  <2>3. control' # c
    BY <2>2
  <2>4. PICK slot \in FreeSlots(c), d \in Control :
          control' = [c EXCEPT ![slot] = d] /\ Given(d, nextSessionId')
    BY <2>1, <2>3 DEF Opens
  <2>5. slot = s /\ control'[s] = d
    BY <2>2, <2>4 DEF FreeSlots
  <2> QED
    BY <2>4, <2>5 DEF Given
<1>3. ASSUME NEW id \in SessionIds, CallEffect(id)
      PROVE  FALSE
  <2>1. CASE control' = control
    BY <2>1
  <2>2. CASE Cleared(control')
    BY <2>2 DEF Cleared
  <2>3. ASSUME NEW slot \in Holder(control, id), NEW d \in Control,
               control' = [control EXCEPT ![slot] = d]
        PROVE  FALSE
    BY <1>1, <2>3 DEF Holder
  <2> QED
    BY <1>3, <2>1, <2>2, <2>3 DEF CallEffect
<1>4. CASE SharingEffect
  BY <1>4 DEF SharingEffect
<1>5. CASE UnloadingEffect
  BY <1>5 DEF UnloadingEffect, Cleared
<1>6. CASE TestingEffect
  BY <1>6 DEF TestingEffect, AnyLive
<1> QED
  BY <1>2, <1>3, <1>4, <1>5, <1>6, StepEffect

(* Busy is answered only beside a live session; to an open it means a full  *)
(* library or sessions of another protocol (FindFreeSession and the check   *)
(* in PalmTlsExecute are its only sources).  And slots come back: only an   *)
(* open that says so takes one, and what a call ends leaves it free.        *)
THEOREM BusyTellsTheTruth == Spec => BusyMeansInUse
<1>1. Consistent /\ Next => BusyIsTrue
  <2> SUFFICES ASSUME Consistent, Next PROVE BusyIsTrue
    OBVIOUS
  <2>1. /\ reply'.op \in {"Open", "Exchange"} /\ Full => reply'.status = "Busy"
        /\ reply'.status = "Busy" => AnyLive(control)
    BY StepEffect DEF SharingEffect, UnloadingEffect, OpeningEffect,
                      TestingEffect, CallEffect
  <2>2. ASSUME reply'.status = "Busy", NEW protocol \in Installed,
               SessionOpenOn(protocol) \/ ExchangeOn(protocol)
        PROVE  Full \/ engine.protocol # protocol
    <3>1. reply'.op \in {"Open", "Exchange"}
      BY <2>2, ReplyFields
         DEF SessionOpenOn, ExchangeOn, OpenRejected, OpenSetupFailed,
             SessionStarted, Exchanged
    <3>2. nextSessionId' = NextSessionId(nextSessionId, control)
      BY <3>1, StepEffect
         DEF SharingEffect, UnloadingEffect, OpeningEffect, TestingEffect,
             CallEffect
    <3> QED
      BY <2>2, <3>2, OpeningOn
  <2> QED
    BY <2>1, <2>2 DEF BusyIsTrue
<1>2. Consistent /\ Next => SlotsComeBack
  <2> SUFFICES ASSUME Consistent, Next PROVE SlotsComeBack
    OBVIOUS
  <2>1. EndingCall => ~LiveAs(control', reply'.id)
    BY StepEffect DEF SharingEffect, UnloadingEffect, OpeningEffect,
                      TestingEffect, CallEffect, EndingCall
  <2>2. reply'.op = "Purge" => ~AnyLive(control')
    BY StepEffect, ClearedNobodyLive
       DEF SharingEffect, UnloadingEffect, OpeningEffect, TestingEffect,
           CallEffect
  <2> QED
    BY <2>1, <2>2, OnlyOpensTake DEF SlotsComeBack
<1>3. Consistent /\ [Next]_vars => [BusyIsTrue /\ SlotsComeBack]_vars
  BY <1>1, <1>2
<1> QED
  BY <1>3, AlwaysConsistent, PTL DEF Spec, BusyMeansInUse

(* An open changes the profile of no slot but the one it is given.          *)
LEMMA OpeningKeeps ==
    ASSUME Consistent, OpeningEffect, NEW s \in Slots, ~Blank(control[s])
    PROVE  ProfileKept(s)
<1>1. engine.loaded /\ control \in [Slots -> Control]
  BY DEF Consistent, SlotsOK
<1>2. PICK c \in [Slots -> Control] : OpensFrom(c) /\ Opens(c)
  BY DEF OpeningEffect
<1>3. CASE Replaced(engine, engine')
  BY <1>1, <1>3 DEF Replaced, ProfileKept
<1>4. CASE control' = control
  BY <1>4 DEF ProfileKept
<1>5. CASE /\ c = control
           /\ \E slot \in FreeSlots(c), d \in Control :
                /\ \A t \in FreeSlots(c) : slot <= t
                /\ control' = [c EXCEPT ![slot] = d]
                /\ reply'.status # "Busy" /\ Given(d, nextSessionId')
  <2>1. PICK slot \in FreeSlots(control), d \in Control :
          /\ \A t \in FreeSlots(control) : slot <= t
          /\ control' = [control EXCEPT ![slot] = d]
          /\ reply'.status # "Busy" /\ Given(d, nextSessionId')
    BY <1>5
  <2>2. CASE s # slot
    BY <1>1, <2>1, <2>2 DEF ProfileKept
  <2>3. CASE s = slot
    <3>1. control'[s].profile # None => control'[s].profile.id = nextSessionId'
      BY <1>1, <2>1, <2>3 DEF Given, OwnProfile
    <3>2. \A t \in Slots : t < s => IsLive(control[t])
      <4> SUFFICES ASSUME NEW t \in Slots, t < s, ~IsLive(control[t])
                   PROVE  FALSE
        OBVIOUS
      <4>1. s <= t
        BY <2>1, <2>3 DEF FreeSlots
      <4>2. s \in Int /\ t \in Int
        BY SizeAssumption DEF Slots
      <4> QED
        BY <4>1, <4>2
    <3>3. Taken(s)
      BY <2>1, <3>2 DEF Taken, OpeningEffect
    <3> QED
      BY <3>1, <3>3 DEF ProfileKept
  <2> QED
    BY <2>2, <2>3
<1> QED
  BY <1>2, <1>3, <1>4, <1>5 DEF OpensFrom, Opens

(* API.md: "A closed profile is immutable": only the open that is given its *)
(* own slot touches it, or a new engine, up to the self-test, which writes  *)
(* its own status into the profile of slot 0.                               *)
THEOREM ClosedProfilesKeep == Spec => ClosedProfileKept
<1> DEFINE Kept ==
             \A s \in Slots :
               (/\ control[s].profile # None /\ ~IsLive(control[s])
                /\ reply'.op # "SelfTest") => ProfileKept(s)
<1>1. ASSUME Consistent, Next, NEW s \in Slots,
             control[s].profile # None, ~IsLive(control[s]),
             reply'.op # "SelfTest"
      PROVE  ProfileKept(s)
  <2>1. ~Blank(control[s])
    BY <1>1 DEF Blank
  <2>2. ASSUME NEW id \in SessionIds, CallEffect(id)
        PROVE  ProfileKept(s)
    BY <1>1, <2>1, <2>2, CallSlots DEF ProfileKept
  <2>3. CASE OpeningEffect
    BY <1>1, <2>1, <2>3, OpeningKeeps
  <2> QED
    BY <1>1, <2>2, <2>3, StepEffect
       DEF ProfileKept, SharingEffect, UnloadingEffect, TestingEffect, NoEngine
<1>2. Consistent /\ [Next]_vars => [Kept]_vars
  BY <1>1
<1> QED
  BY <1>2, AlwaysConsistent, PTL DEF Spec, ClosedProfileKept

-----------------------------------------------------------------------------
(* The refinement of the session service.                                   *)

LiveSlots == {t \in Slots : IsLive(control[t])}

SessionOf(s) == [id |-> control[s].id, phase |-> control[s].phase,
                 protocol |-> engine.protocol]

(* The sessions are the images of the live slots, one each.                 *)
LEMMA SessionsAreSlots ==
    /\ LiveSessions = {SessionOf(s) : s \in LiveSlots}
    /\ Consistent => \A s, t \in LiveSlots : SessionOf(s) = SessionOf(t) => s = t
    /\ Consistent => \A s \in LiveSlots :
         /\ SessionOf(s).id \in SessionIds /\ SessionOf(s).id \in Reserved(control)
         /\ SessionOf(s).phase \in {"opening", "active"}
         /\ SessionOf(s).protocol = engine.protocol
<1>1. LiveSessions = {SessionOf(s) : s \in LiveSlots}
  BY DEF LiveSessions, LiveSlots, SessionOf
<1>2. ASSUME Consistent, NEW s \in LiveSlots, NEW t \in LiveSlots,
             SessionOf(s) = SessionOf(t)
      PROVE  s = t
  <2>1. control[s].id = control[t].id
    BY <1>2 DEF SessionOf
  <2> QED
    BY <1>2, <2>1 DEF LiveSlots, Consistent, SlotsOK, IdsApart
<1>3. ASSUME Consistent, NEW s \in LiveSlots
      PROVE  /\ SessionOf(s).id \in SessionIds
             /\ SessionOf(s).id \in Reserved(control)
             /\ SessionOf(s).phase \in {"opening", "active"}
             /\ SessionOf(s).protocol = engine.protocol
  <2>1. control[s] \in Control /\ control[s].id # 0 /\ s \in Slots
    BY <1>3 DEF LiveSlots, Consistent, SlotsOK, SlotOK, SlotShape
  <2>2. control[s].id \in SessionIds
    BY <2>1, SizeAssumption DEF Control, SessionIds
  <2> QED
    BY <1>3, <2>1, <2>2 DEF SessionOf, Reserved, Control, LiveSlots, IsLive
<1> QED
  BY <1>1, <1>2, <1>3

(* While a slot is free there are fewer sessions than slots.                *)
LEMMA RoomLeft ==
    ASSUME NEW slot \in Slots, ~IsLive(control[slot])
    PROVE  Cardinality(LiveSessions) < MaxSessions
<1>1. IsFiniteSet(Slots) /\ Cardinality(Slots) = MaxSessions
  <2>1. MaxSessions - 1 \in Int /\ ~(0 > MaxSessions - 1)
    BY SizeAssumption
  <2>2. /\ IsFiniteSet(0..(MaxSessions - 1))
        /\ Cardinality(0..(MaxSessions - 1)) = MaxSessions - 1 - 0 + 1
    BY <2>1, FS_Interval
  <2> QED
    BY <2>2, SizeAssumption DEF Slots
<1> DEFINE Others == Slots \ {slot}
<1>2. IsFiniteSet(Others) /\ Cardinality(Others) = MaxSessions - 1
  BY <1>1, FS_RemoveElement
<1>3. LiveSlots \subseteq Others
  BY DEF LiveSlots
<1> HIDE DEF Others
<1>4. /\ IsFiniteSet(LiveSlots) /\ Cardinality(LiveSlots) <= Cardinality(Others)
  BY <1>2, <1>3, FS_Subset
<1> DEFINE f == [s \in LiveSlots |-> SessionOf(s)]
           Images == {SessionOf(s) : s \in LiveSlots}
<1>5. IsFiniteSet(Images) /\ Cardinality(Images) <= Cardinality(LiveSlots)
  <2>1. f \in Surjection(LiveSlots, Images)
    BY DEF Surjection
  <2> HIDE DEF f, Images
  <2> QED
    BY <1>4, <2>1, FS_Surjection
<1>6. /\ Cardinality(LiveSlots) \in Nat
      /\ Cardinality(Images) \in Nat
  BY <1>4, <1>5, FS_CardinalityType
<1>7. LiveSessions = Images
  BY SessionsAreSlots
<1> HIDE DEF Images
<1> QED
  BY <1>2, <1>4, <1>5, <1>6, <1>7, SizeAssumption

(* Slots that keep their IDs and phases keep the sessions.                  *)
LEMMA SameSessions ==
    ASSUME engine'.protocol = engine.protocol,
           \A s \in Slots : /\ control'[s].id = control[s].id
                            /\ control'[s].phase = control[s].phase
    PROVE  LiveSessions' = LiveSessions
<1>1. \A s \in Slots : IsLive(control[s])' <=> IsLive(control[s])
  BY DEF IsLive
<1> QED
  BY <1>1 DEF LiveSessions

LEMMA NoSessions == ~AnyLive(control) => LiveSessions = {}
BY DEF LiveSessions, AnyLive

LEMMA NoSessionsAfter == ~AnyLive(control') => LiveSessions' = {}
BY DEF LiveSessions, AnyLive

(* A free slot that an open made live adds the session of a free ID.        *)
LEMMA OpenAdds ==
    ASSUME Consistent, Consistent', NEW slot \in Slots, ~IsLive(control[slot]),
           IsLive(control'[slot]),
           control'[slot].id \in SessionIds \ Reserved(control),
           \/ /\ engine' = engine
              /\ \A s \in Slots \ {slot} : control'[s] = control[s]
           \/ /\ ~AnyLive(control)
              /\ \A s \in Slots \ {slot} : ~IsLive(control'[s])
    PROVE  Service!Next
<1> DEFINE new == SessionOf(slot)'
<1>1. /\ new.id \in SessionIds /\ new.id \notin Reserved(control)
      /\ new.phase \in Service!Phases /\ new.protocol \in Protocols
      /\ new = [id |-> new.id, phase |-> new.phase, protocol |-> new.protocol]
  <2>1. control'[slot] \in Control /\ engine' \in Engine
    BY DEF Consistent, SlotsOK
  <2> QED
    BY <2>1 DEF SessionOf, Service!Phases, Control, Engine, IsLive
<1>2. LiveSessions' = LiveSessions \cup {new}
  <2>1. CASE /\ engine' = engine
             /\ \A s \in Slots \ {slot} : control'[s] = control[s]
    BY <2>1 DEF LiveSessions, SessionOf
  <2>2. CASE /\ ~AnyLive(control)
             /\ \A s \in Slots \ {slot} : ~IsLive(control'[s])
    BY <2>2, NoSessions DEF LiveSessions, SessionOf
  <2> QED
    BY <2>1, <2>2
<1>3. \A x \in LiveSessions : x.id # new.id /\ x.protocol = new.protocol
  <2> SUFFICES ASSUME NEW x \in LiveSessions
               PROVE  x.id # new.id /\ x.protocol = new.protocol
    OBVIOUS
  <2>1. PICK s \in LiveSlots : x = SessionOf(s)
    BY SessionsAreSlots
  <2>2. x.id \in Reserved(control) /\ x.protocol = engine.protocol
    BY <2>1, SessionsAreSlots
  <2>3. engine' = engine
    BY <2>1 DEF LiveSlots, AnyLive
  <2> QED
    BY <1>1, <2>2, <2>3 DEF SessionOf
<1>4. Cardinality(LiveSessions) < MaxSessions
  BY RoomLeft
<1> HIDE DEF new
<1>5. PICK id \in SessionIds, phase \in Service!Phases, protocol \in Protocols :
        new = [id |-> id, phase |-> phase, protocol |-> protocol]
  BY <1>1
<1>6. new.id = id /\ new.protocol = protocol
  BY <1>5
<1>7. Service!Open(id, phase, protocol)
  <2>1. \A x \in LiveSessions : x.id # id /\ x.protocol = protocol
    BY <1>3, <1>6
  <2>2. LiveSessions' = LiveSessions \cup {[id |-> id, phase |-> phase,
                                            protocol |-> protocol]}
    BY <1>2, <1>5
  <2>3. Service!Cardinality(LiveSessions) = Cardinality(LiveSessions)
    BY DEF Service!Cardinality, Cardinality
  <2> QED
    BY <1>4, <2>1, <2>2, <2>3 DEF Service!Open
<1> QED
  BY <1>7 DEF Service!Next

(* One slot of the engine there is changes: its session is replaced.        *)
LEMMA OneSlotChanges ==
    ASSUME Consistent, engine' = engine, NEW slot \in Slots,
           IsLive(control[slot]),
           \A s \in Slots \ {slot} : control'[s] = control[s]
    PROVE  LiveSessions' = (LiveSessions \ {SessionOf(slot)})
                           \cup (IF IsLive(control'[slot])
                                 THEN {SessionOf(slot)'} ELSE {})
<1>1. \A s \in LiveSlots : SessionOf(s) = SessionOf(slot) => s = slot
  BY SessionsAreSlots DEF LiveSlots
<1>2. LiveSessions = {SessionOf(s) : s \in LiveSlots}
  BY SessionsAreSlots
<1>3. LiveSessions' = {SessionOf(s)' : s \in LiveSlots'}
  BY DEF LiveSessions, LiveSlots, SessionOf
<1>4. \A s \in Slots \ {slot} : SessionOf(s)' = SessionOf(s)
                                /\ (s \in LiveSlots' <=> s \in LiveSlots)
  BY DEF SessionOf, LiveSlots
<1>5. slot \in LiveSlots /\ (slot \in LiveSlots' <=> IsLive(control'[slot]))
      /\ LiveSlots \subseteq Slots /\ LiveSlots' \subseteq Slots
  BY DEF LiveSlots
<1>6. LiveSessions \ {SessionOf(slot)} = {SessionOf(s) : s \in LiveSlots \ {slot}}
  BY <1>1, <1>2, <1>5
<1>7. LiveSlots \ {slot} = LiveSlots' \ {slot}
  BY <1>4, <1>5
<1>8. {SessionOf(s) : s \in LiveSlots \ {slot}}
        = {SessionOf(s)' : s \in LiveSlots' \ {slot}}
  BY <1>4, <1>5, <1>7
<1> QED
  BY <1>3, <1>5, <1>6, <1>8

LEMMA StepRefines ==
    ASSUME Consistent, Consistent', [Next]_vars
    PROVE  [Service!Next]_LiveSessions
<1>1. CASE engine' = engine /\ control' = control
  BY <1>1, SameSessions
<1>2. CASE LiveSessions' = {}
  BY <1>2 DEF Service!Next, Service!EndAll
<1>3. CASE OpeningEffect
  <2>1. PICK c \in [Slots -> Control] : OpensFrom(c) /\ Opens(c)
    BY <1>3 DEF OpeningEffect
  <2>2. nextSessionId' \in SessionIds \ Reserved(control)
    BY <1>3 DEF OpeningEffect
  <2>3. CASE control' = c
    <3>1. CASE c = control /\ engine' = engine
      BY <1>1, <2>3, <3>1
    <3>2. CASE Cleared(c)
      BY <1>2, <2>3, <3>2, ClearedNobodyLive, NoSessionsAfter
    <3> QED
      BY <2>1, <3>1, <3>2 DEF OpensFrom
  <2>4. ASSUME NEW slot \in FreeSlots(c), NEW d \in Control,
               control' = [c EXCEPT ![slot] = d], Given(d, nextSessionId')
        PROVE  [Service!Next]_LiveSessions
    <3>0. IsLive(d) => d.id = nextSessionId'
      BY <2>4 DEF Given
    <3>1. /\ slot \in Slots /\ ~IsLive(c[slot])
          /\ control'[slot] = d
          /\ \A s \in Slots \ {slot} : control'[s] = c[s]
      BY <2>4 DEF FreeSlots
    <3>2. CASE IsLive(d)
      <4>1. CASE c = control /\ engine' = engine
        BY <2>2, <3>0, <3>1, <3>2, <4>1, OpenAdds
      <4>2. CASE ~AnyLive(control) /\ Cleared(c)
        <5>1. ~IsLive(control[slot])
          BY <3>1, <4>2 DEF AnyLive
        <5>2. \A s \in Slots \ {slot} : ~IsLive(control'[s])
          BY <3>1, <4>2 DEF Cleared
        <5> QED
          BY <2>2, <3>0, <3>1, <3>2, <4>2, <5>1, <5>2, OpenAdds
      <4> QED
        BY <2>1, <4>1, <4>2 DEF OpensFrom
    <3>3. CASE ~IsLive(d)
      <4>1. CASE c = control /\ engine' = engine
        <5>1. \A s \in Slots : IsLive(control'[s]) <=> IsLive(control[s])
          BY <3>1, <3>3, <4>1
        <5>2. LiveSessions' = LiveSessions
          BY <3>1, <3>3, <4>1, <5>1 DEF LiveSessions
        <5> QED
          BY <5>2
      <4>2. CASE Cleared(c)
        <5>1. ~AnyLive(control')
          BY <3>1, <3>3, <4>2 DEF AnyLive, Cleared
        <5> QED
          BY <1>2, <5>1, NoSessionsAfter
      <4> QED
        BY <2>1, <4>1, <4>2 DEF OpensFrom
    <3> QED
      BY <3>2, <3>3
  <2> QED
    BY <2>1, <2>3, <2>4 DEF Opens
<1>4. ASSUME NEW id \in SessionIds, CallEffect(id)
      PROVE  [Service!Next]_LiveSessions
  <2>1. CASE Cleared(control')
    BY <1>2, <2>1, ClearedNobodyLive, NoSessionsAfter
  <2>2. ASSUME engine' = engine,
               NEW slot \in Holder(control, id), NEW d \in Control,
               control' = [control EXCEPT ![slot] = d],
               GoesOn(d, control[slot]) \/ ~IsLive(d)
        PROVE  [Service!Next]_LiveSessions
    <3> DEFINE x == SessionOf(slot)
    <3>1. /\ slot \in Slots /\ IsLive(control[slot])
          /\ control'[slot] = d
          /\ \A s \in Slots \ {slot} : control'[s] = control[s]
      BY <2>2 DEF Holder, Consistent, SlotsOK
    <3>2. LiveSessions' = (LiveSessions \ {x})
                          \cup (IF IsLive(d) THEN {SessionOf(slot)'} ELSE {})
      BY <2>2, <3>1, OneSlotChanges
    <3>3. x \in LiveSessions
      BY <3>1 DEF LiveSessions, SessionOf
    <3>4. CASE ~IsLive(d)
      <4>1. Service!End(x)
        BY <3>2, <3>4 DEF Service!End
      <4> QED
        BY <3>3, <4>1 DEF Service!Next
    <3>5. CASE IsLive(d) /\ d.phase = control[slot].phase
      <4>1. GoesOn(d, control[slot])
        BY <2>2, <3>5
      <4>2. \A s \in Slots : /\ control'[s].id = control[s].id
                             /\ control'[s].phase = control[s].phase
        BY <3>1, <3>5, <4>1 DEF GoesOn
      <4> QED
        BY <2>2, <4>2, SameSessions
    <3>6. CASE IsLive(d) /\ d.phase # control[slot].phase
      <4>1. /\ d.id = control[slot].id
            /\ control[slot].phase = "opening" /\ d.phase = "active"
        BY <2>2, <3>6 DEF GoesOn
      <4>2. x.phase = "opening" /\ SessionOf(slot)' = [x EXCEPT !.phase = "active"]
        BY <2>2, <3>1, <4>1 DEF SessionOf
      <4>3. LiveSessions' = (LiveSessions \ {x}) \cup {[x EXCEPT !.phase = "active"]}
        BY <3>2, <3>6, <4>2
      <4>4. Service!Establish(x)
        BY <4>2, <4>3 DEF Service!Establish
      <4> QED
        BY <3>3, <4>4 DEF Service!Next
    <3> QED
      BY <3>4, <3>5, <3>6
  <2> QED
    BY <1>1, <1>4, <2>1, <2>2 DEF CallEffect
<1>5. CASE UnloadingEffect
  BY <1>2, <1>5, ClearedNobodyLive, NoSessionsAfter DEF UnloadingEffect
<1>6. CASE TestingEffect
  BY <1>1, <1>2, <1>6, NoSessionsAfter DEF TestingEffect
<1>7. CASE SharingEffect
  BY <1>1, <1>7 DEF SharingEffect
<1>8. CASE UNCHANGED vars
  BY <1>1, <1>8 DEF vars
<1> QED
  BY <1>3, <1>4, <1>5, <1>6, <1>7, <1>8, StepEffect

(* API.md, "Incremental sessions": whatever the traps, the loads and the    *)
(* self-tests of all callers come to, what callers see is a set of numbered *)
(* sessions of one protocol, each opened under a fresh ID while there is    *)
(* room, established at most once, and ended by a call on it or all at once.*)
THEOREM ImplementsService == Spec => ServiceSpec
<1>1. Init => Service!Init
  <2>1. Init => ~AnyLive(control)
    BY DEF Init, AnyLive, ZeroedControl, IsLive
  <2> QED
    BY <2>1, NoSessions DEF Service!Init
<1>2. Consistent /\ Consistent' /\ [Next]_vars => [Service!Next]_LiveSessions
  BY StepRefines
<1> QED
  BY <1>1, <1>2, AlwaysConsistent, PTL DEF Spec, ServiceSpec, Service!Spec
=============================================================================
