-------------------------- MODULE EngineLoaderProofs --------------------------
(***************************************************************************)
(* Theorems about EngineLoader for any number of segments and slots, any    *)
(* segment contents and relocation tables, and any number of AES keys.      *)
(***************************************************************************)
EXTENDS EngineLoader, FiniteSetTheorems, SequenceTheorems, NumberLemmas,
        TLAPS

-----------------------------------------------------------------------------
(* The inductive invariant.                                                 *)

ArmletThings == {"armletDb", "armlet", "armletLock", "armletRequest"}

(* The ledger w holds what the records of the load say ...                  *)
LoadHeld(w) ==
    /\ Single("libraryDb") \in w.held <=> load.libraryDb
    /\ Single("relocation") \in w.held <=> load.relocation
    /\ Single("relocationLock") \in w.held <=> load.relocations
    /\ \A s \in Segments : <<"resource", s>> \in w.held <=> s \in load.resources
    /\ \A s \in Segments : <<"resourceLock", s>> \notin w.held

(* ... and what the records of the engine and its adapter say.              *)
EngineHeld(w) ==
    /\ Single("workDb") \in w.held <=> engine.workDb
    /\ \A s \in Segments : <<"segment", s>> \in w.held <=> s \in engine.handles
    /\ \A s \in Segments : <<"segmentLock", s>> \in w.held <=> s \in engine.segments

RunningHeld(w) ==
    /\ Single("wolfSSL") \in w.held <=> engine.control[0].initialized
    /\ \A s \in Slots : <<"context", s>> \in w.held <=> engine.control[s].context
    /\ \A name \in ArmletThings : Single(name) \in w.held <=> armlet.database

LedgerOK ==
    /\ ~world.misused
    /\ LoadHeld(world)
    /\ EngineHeld(world)
    /\ RunningHeld(world)

(* A work database is the engine's, or one a reset left behind.             *)
StorageOK ==
    /\ world.work <= world.created
    /\ load.step \in {"open", "work"} => world.created < MaxCreated
    /\ \/ world.work = 0
       \/ world.work = engine.workDbID
       \/ engine.workDbID = 0 /\ world.stale
    /\ engine.workDb => engine.workDbID # 0 /\ world.work = engine.workDbID

(* What the load holds at each of its steps.                                *)
LoadOK ==
    /\ load.step \in {"idle", "open"} => ~load.libraryDb
    /\ load.step \in {"work", "copy", "relocate", "start"} => load.libraryDb
    /\ load.step \in {"work", "copy", "relocate"} => ~load.relocation
    /\ load.step = "start" => load.relocations
    /\ load.step # "cleanup" => load.resources = {}
    /\ load.step \in {"open", "work"} => load.index = 0
    /\ load.relocations => load.relocation
    /\ load.relocation \/ load.resources # {} => load.libraryDb
    /\ load.step \notin {"idle", "cleanup"} => load.protocol \in Protocols

(* How far the engine is at each step of the load.                          *)
EngineOK ==
    /\ load.step \in {"open", "work"} => engine = NoEngine
    /\ load.step = "idle" =>
          IF engine.loaded THEN engine.control[0].initialized
          ELSE engine = NoEngine
    /\ load.step \in {"copy", "relocate", "start"} => engine.workDb /\ ~engine.loaded
    /\ load.step = "copy" => /\ load.index \in Segments
                             /\ engine.handles = 0..(load.index - 1)
                             /\ engine.segments = engine.handles
    /\ load.step \in {"relocate", "start"} \/ engine.loaded =>
          engine.segments = Segments /\ engine.handles = Segments
    /\ load.step = "cleanup" => (load.status = "Ok" <=> engine.control[0].initialized)
    /\ engine.segments \subseteq engine.handles
    /\ engine.handles # {} => engine.workDb
    /\ \A s \in Slots : engine.control[s].context => engine.control[0].initialized
    /\ \A s \in Slots : engine.control[s].open => engine.control[s].context
    /\ ~engine.loaded => /\ engine.control = NoEngine.control
                         /\ armlet = Zeroed
                         /\ aes = NoKeys

ArmletOK ==
    /\ armlet.handle = armlet.database
    /\ armlet.entry = armlet.database
    /\ armlet.request = armlet.database
    /\ armlet.enabled => armlet.database /\ armlet.status = "Passed"
    /\ armlet.enabled /\ engine.control[0].initialized =>
          engine.control[0].status = "Passed"

(* An entry belongs to one keyed object and holds its key; an object with a *)
(* short key has an entry.                                                  *)
KeysOK(a, keyOf) ==
    /\ \A i \in 1..KeySlots : a.keys[i].owner # Nobody =>
          /\ a.keys[i].owner \in Objects
          /\ keyOf[a.keys[i].owner] # {}
          /\ a.keys[i].key = keyOf[a.keys[i].owner]
    /\ \A i, j \in 1..KeySlots :
          a.keys[i].owner = a.keys[j].owner /\ a.keys[i].owner # Nobody => i = j
    /\ \A x \in Objects : keyOf[x] # {} /\ keyOf[x] \subseteq ShortKeys =>
          \E i \in 1..KeySlots : a.keys[i].owner = x

(* What has been copied is still as linked until all of it is relocated.    *)
MemoryOK ==
    /\ memory = [s \in Segments |-> memory[s]]
    /\ load.step = "copy" =>
          \A s \in Segments : s < load.index => memory[s] = Images[s]
    /\ load.step = "relocate" => \A s \in Segments : memory[s] = Images[s]
    /\ RelocationsExact

Consistent ==
    /\ TypeOK
    /\ LedgerOK
    /\ StorageOK
    /\ LoadOK
    /\ EngineOK
    /\ ArmletOK
    /\ KeysOK(armlet, aes)
    /\ MemoryOK

-----------------------------------------------------------------------------
(* The ledger.                                                              *)

(* v is w after calls that were all in order, except that it holds H.       *)
Holding(v, w, H) ==
    /\ v \in World
    /\ ~v.misused
    /\ v.held = H
    /\ v.work = w.work
    /\ v.created = w.created
    /\ v.stale = w.stale

(* Nothing that is held stands on x.                                        *)
Bare(w, x) == \A y \in w.held : x \notin Base(y)

LEMMA AcquireFine ==
    ASSUME NEW w \in World, ~w.misused, NEW x \in Things,
           x \notin w.held, Base(x) \subseteq w.held
    PROVE  Holding(Acquire(w, x), w, w.held \cup {x})
<1> DEFINE mis == w.misused \/ x \in w.held \/ ~(Base(x) \subseteq w.held)
           v == [w EXCEPT !.held = w.held \cup {x}, !.misused = mis]
<1>1. Acquire(w, x) = v
  BY DEF Acquire, World
<1>2. mis = FALSE
  OBVIOUS
<1> HIDE DEF mis
<1>3. v \in World /\ ~v.misused
  BY <1>2 DEF World
<1> QED
  BY <1>1, <1>3 DEF Holding, World

LEMMA ReleaseFine ==
    ASSUME NEW w \in World, ~w.misused, NEW x, x \in w.held, Bare(w, x)
    PROVE  Holding(Release(w, x), w, w.held \ {x})
<1> DEFINE mis == w.misused \/ x \notin w.held \/ \E y \in w.held : x \in Base(y)
           v == [w EXCEPT !.held = w.held \ {x}, !.misused = mis]
<1>1. Release(w, x) = v
  BY DEF Release, World
<1>2. mis = FALSE
  BY DEF Bare
<1> HIDE DEF mis
<1>3. v \in World /\ ~v.misused
  BY <1>2 DEF World
<1> QED
  BY <1>1, <1>3 DEF Holding, World

LEMMA ReleaseIfFine ==
    ASSUME NEW w \in World, ~w.misused, NEW x, NEW b \in BOOLEAN,
           b <=> x \in w.held, Bare(w, x)
    PROVE  Holding(ReleaseIf(w, b, x), w, w.held \ {x})
<1>1. CASE b
  BY <1>1, ReleaseFine DEF ReleaseIf
<1>2. CASE ~b
  <2>1. w.held \ {x} = w.held
    BY <1>2
  <2> QED BY <1>2, <2>1 DEF ReleaseIf, Holding
<1> QED BY <1>1, <1>2

LEMMA ReleaseAllFine ==
    ASSUME NEW w \in World, ~w.misused, NEW S, S \subseteq w.held,
           \A x \in S : Bare(w, x)
    PROVE  Holding(ReleaseAll(w, S), w, w.held \ S)
<1> DEFINE mis == \/ w.misused
                  \/ ~(S \subseteq w.held)
                  \/ \E y \in w.held : Base(y) \cap S # {}
           v == [w EXCEPT !.held = w.held \ S, !.misused = mis]
<1>1. ReleaseAll(w, S) = v
  BY DEF ReleaseAll, World
<1>2. mis = FALSE
  BY DEF Bare
<1> HIDE DEF mis
<1>3. v \in World /\ ~v.misused
  BY <1>2 DEF World
<1> QED
  BY <1>1, <1>3 DEF Holding, World

LEMMA EnterFine ==
    ASSUME NEW w \in World, ~w.misused,
           \A s \in Segments : <<"segmentLock", s>> \in w.held
    PROVE  Holding(Enter(w), w, w.held)
<1> DEFINE mis == w.misused \/ \E s \in Segments : <<"segmentLock", s>> \notin w.held
           v == [w EXCEPT !.misused = mis]
<1>1. Enter(w) = v
  BY DEF Enter, World
<1>2. mis = FALSE
  OBVIOUS
<1> HIDE DEF mis
<1>3. v \in World /\ ~v.misused
  BY <1>2 DEF World
<1> QED
  BY <1>1, <1>3 DEF Holding, World

(* Every thing is of one kind.                                              *)
LEMMA ThingKinds ==
    ASSUME NEW x \in Things
    PROVE  \/ x \in {Single("libraryDb"), Single("workDb"), Single("relocation"),
                     Single("relocationLock"), Single("wolfSSL")}
           \/ \E name \in ArmletThings : x = Single(name)
           \/ \E s \in Segments : x \in {<<"resource", s>>, <<"resourceLock", s>>,
                                         <<"segment", s>>, <<"segmentLock", s>>}
           \/ \E s \in Slots : x = <<"context", s>>
<1>1. CASE x \in {Single(name) : name \in {"libraryDb", "workDb", "relocation",
                              "relocationLock", "wolfSSL", "armletDb",
                              "armlet", "armletLock", "armletRequest"}}
  BY <1>1 DEF ArmletThings
<1>2. CASE x \in {"resource", "resourceLock", "segment", "segmentLock"} \X Segments
  BY <1>2
<1>3. CASE x \in {"context"} \X Slots
  BY <1>3
<1> QED BY <1>1, <1>2, <1>3 DEF Things

(* What each kind stands on.                                                *)
LEMMA Bases ==
    /\ Base(Single("libraryDb")) = {}
    /\ Base(Single("workDb")) = {}
    /\ Base(Single("wolfSSL")) = {}
    /\ Base(Single("armletDb")) = {}
    /\ Base(Single("armletRequest")) = {}
    /\ Base(Single("relocation")) = {Single("libraryDb")}
    /\ Base(Single("relocationLock")) = {Single("relocation")}
    /\ Base(Single("armlet")) = {Single("armletDb")}
    /\ Base(Single("armletLock")) = {Single("armlet")}
    /\ \A s : Base(<<"resource", s>>) = {Single("libraryDb")}
    /\ \A s : Base(<<"resourceLock", s>>) = {<<"resource", s>>}
    /\ \A s : Base(<<"segment", s>>) = IF Stored(s) THEN {Single("workDb")} ELSE {}
    /\ \A s : Base(<<"segmentLock", s>>) = {<<"segment", s>>}
    /\ \A s : Base(<<"context", s>>) = {Single("wolfSSL")}
  BY DEF Base, Single

(* What can stand on a thing of each kind.                                  *)
LEMMA StandingOn ==
    ASSUME NEW y \in Things, NEW x, x \in Base(y)
    PROVE  \/ x = Single("libraryDb") /\ y = Single("relocation")
           \/ x = Single("libraryDb") /\ \E s \in Segments : y = <<"resource", s>>
           \/ x = Single("workDb") /\ \E s \in Segments : y = <<"segment", s>>
           \/ x = Single("relocation") /\ y = Single("relocationLock")
           \/ x = Single("wolfSSL") /\ \E s \in Slots : y = <<"context", s>>
           \/ x = Single("armletDb") /\ y = Single("armlet")
           \/ x = Single("armlet") /\ y = Single("armletLock")
           \/ \E s \in Segments : x = <<"resource", s>> /\ y = <<"resourceLock", s>>
           \/ \E s \in Segments : x = <<"segment", s>> /\ y = <<"segmentLock", s>>
<1>1. CASE y \in {Single("libraryDb"), Single("workDb"), Single("relocation"),
                     Single("relocationLock"), Single("wolfSSL")}
  BY <1>1, Bases
<1>2. CASE \E name \in ArmletThings : y = Single(name)
  BY <1>2, Bases DEF ArmletThings
<1>3. CASE \E s \in Segments : y \in {<<"resource", s>>, <<"resourceLock", s>>,
                                         <<"segment", s>>, <<"segmentLock", s>>}
  BY <1>3, Bases
<1>4. CASE \E s \in Slots : y = <<"context", s>>
  BY <1>4, Bases
<1> QED BY <1>1, <1>2, <1>3, <1>4, ThingKinds

(* Things of different kinds, or of different segments or slots, differ.    *)
LEMMA Distinct ==
    /\ \A a, b, i, j : <<a, i>> = <<b, j>> <=> a = b /\ i = j
    /\ \A a, b : Single(a) = Single(b) <=> a = b
    /\ \A a, b, i : <<a, i>> = Single(b) <=> a = b /\ i = 0
  BY DEF Single

LEMMA ThingsAre ==
    /\ \A name \in ArmletThings : Single(name) \in Things
    /\ Single("libraryDb") \in Things
    /\ Single("workDb") \in Things
    /\ Single("relocation") \in Things
    /\ Single("relocationLock") \in Things
    /\ Single("wolfSSL") \in Things
    /\ \A s \in Segments : /\ <<"resource", s>> \in Things
                           /\ <<"resourceLock", s>> \in Things
                           /\ <<"segment", s>> \in Things
                           /\ <<"segmentLock", s>> \in Things
    /\ \A s \in Slots : <<"context", s>> \in Things
  BY DEF Things, ArmletThings

-----------------------------------------------------------------------------
(* Unloading.                                                               *)

(* The things of a load are gone from w.                                    *)
LoadReleased(w) ==
    /\ Single("libraryDb") \notin w.held
    /\ Single("relocation") \notin w.held
    /\ Single("relocationLock") \notin w.held
    /\ \A s \in Segments : <<"resource", s>> \notin w.held
    /\ \A s \in Segments : <<"resourceLock", s>> \notin w.held

(* The adapter gives back what it took.                                     *)
LEMMA ArmletShutdownFine ==
    ASSUME NEW w \in World, ~w.misused, NEW a \in Adapter,
           a.handle = a.database, a.entry = a.database, a.request = a.database,
           \A name \in ArmletThings : Single(name) \in w.held <=> a.database
    PROVE  Holding(ArmletShutdown(a, w).world, w,
                   w.held \ {Single(name) : name \in ArmletThings})
<1> DEFINE freed    == ReleaseIf(w, a.request, Single("armletRequest"))
           unlocked == ReleaseIf(freed, a.entry, Single("armletLock"))
           released == ReleaseIf(unlocked, a.handle, Single("armlet"))
           closed   == ReleaseIf(released, a.database, Single("armletDb"))
           H1 == w.held \ {Single("armletRequest")}
           H2 == H1 \ {Single("armletLock")}
           H3 == H2 \ {Single("armlet")}
           H4 == H3 \ {Single("armletDb")}
<1>a. /\ a.request \in BOOLEAN /\ a.entry \in BOOLEAN
      /\ a.handle \in BOOLEAN /\ a.database \in BOOLEAN
  BY DEF Adapter
<1>b. w.held \subseteq Things
  BY DEF World
<1>c. \A name \in ArmletThings : Single(name) \in w.held <=> a.database
  OBVIOUS
<1>1. Holding(freed, w, H1)
  <2>1. Bare(w, Single("armletRequest"))
    BY <1>b, StandingOn, Distinct DEF Bare
  <2>2. a.request <=> Single("armletRequest") \in w.held
    BY <1>c DEF ArmletThings
  <2> QED BY <1>a, <2>1, <2>2, ReleaseIfFine
<1>2. Holding(unlocked, w, H2)
  <2> HIDE DEF freed
  <2>0. freed \in World /\ ~freed.misused /\ freed.held = H1
    BY <1>1 DEF Holding
  <2>1. Bare(freed, Single("armletLock"))
    BY <1>b, <2>0, StandingOn, Distinct DEF Bare
  <2>2. a.entry <=> Single("armletLock") \in freed.held
    BY <1>c, <2>0, Distinct DEF ArmletThings
  <2>3. Holding(unlocked, freed, H2)
    BY <1>a, <2>0, <2>1, <2>2, ReleaseIfFine
  <2> QED BY <1>1, <2>3 DEF Holding
<1>3. Holding(released, w, H3)
  <2> HIDE DEF unlocked
  <2>0. unlocked \in World /\ ~unlocked.misused /\ unlocked.held = H2
    BY <1>2 DEF Holding
  <2>1. Bare(unlocked, Single("armlet"))
    <3>1. \A y \in Things : Single("armlet") \in Base(y) => y = Single("armletLock")
      BY StandingOn, Distinct
    <3> QED BY <1>b, <2>0, <3>1 DEF Bare
  <2>2. a.handle <=> Single("armlet") \in unlocked.held
    BY <1>c, <2>0, Distinct DEF ArmletThings
  <2>3. Holding(released, unlocked, H3)
    BY <1>a, <2>0, <2>1, <2>2, ReleaseIfFine
  <2> QED BY <1>2, <2>3 DEF Holding
<1>4. Holding(closed, w, H4)
  <2> HIDE DEF released
  <2>0. released \in World /\ ~released.misused /\ released.held = H3
    BY <1>3 DEF Holding
  <2>1. Bare(released, Single("armletDb"))
    <3>1. \A y \in Things : Single("armletDb") \in Base(y) => y = Single("armlet")
      BY StandingOn, Distinct
    <3> QED BY <1>b, <2>0, <3>1 DEF Bare
  <2>2. a.database <=> Single("armletDb") \in released.held
    BY <1>c, <2>0, Distinct DEF ArmletThings
  <2>3. Holding(closed, released, H4)
    BY <1>a, <2>0, <2>1, <2>2, ReleaseIfFine
  <2> QED BY <1>3, <2>3 DEF Holding
<1>5. ArmletShutdown(a, w).world = closed
  BY DEF ArmletShutdown
<1>6. H4 = w.held \ {Single(name) : name \in ArmletThings}
  BY DEF ArmletThings
<1> QED BY <1>4, <1>5, <1>6

(* The shutdown command of a loaded engine leaves its segments and its work *)
(* database.                                                                *)
LEMMA ShutdownFine ==
    ASSUME NEW w \in World, ~w.misused, TypeOK, EngineOK, ArmletOK,
           LoadReleased(w), EngineHeld(w), RunningHeld(w), engine.loaded
    PROVE  /\ Holding(ShutdownEngine(w), w, ShutdownEngine(w).held)
           /\ EngineHeld(ShutdownEngine(w))
           /\ \A x \in ShutdownEngine(w).held :
                 \/ x = Single("workDb")
                 \/ \E s \in Segments : x \in {<<"segment", s>>, <<"segmentLock", s>>}
<1> DEFINE entered  == Enter(w)
           K        == {<<"context", s>> : s \in {t \in Slots : engine.control[t].context}}
           contexts == ReleaseAll(entered, K)
           cleaned  == ReleaseIf(contexts, engine.control[0].initialized, Single("wolfSSL"))
           stopped  == ArmletShutdown(armlet, cleaned).world
           H1 == w.held \ K
           H2 == H1 \ {Single("wolfSSL")}
           H3 == H2 \ {Single(name) : name \in ArmletThings}
<1>0. ShutdownEngine(w) = stopped
  BY DEF ShutdownEngine
<1>a. /\ w.held \subseteq Things
      /\ 0 \in Slots
      /\ engine.control[0].initialized \in BOOLEAN
      /\ armlet \in Adapter
  BY CountAssumption DEF World, TypeOK, Engine, SlotControl, Slots
<1>b. \A s \in Slots : <<"context", s>> \in w.held <=> <<"context", s>> \in K
  BY Distinct DEF RunningHeld
<1>1. Holding(entered, w, w.held)
  BY EnterFine DEF EngineHeld, EngineOK
<1>2. Holding(contexts, w, H1)
  <2> HIDE DEF entered
  <2>0. entered \in World /\ ~entered.misused /\ entered.held = w.held
    BY <1>1 DEF Holding
  <2>1. \A x \in K : Bare(entered, x)
    BY <1>a, <2>0, StandingOn, Distinct DEF Bare
  <2>2. K \subseteq entered.held
    BY <1>b, <2>0
  <2>3. Holding(contexts, entered, H1)
    <3> HIDE DEF K
    <3> QED BY <2>0, <2>1, <2>2, ReleaseAllFine
  <2> QED BY <1>1, <2>3 DEF Holding
<1>3. Holding(cleaned, w, H2)
  <2> HIDE DEF contexts
  <2>0. contexts \in World /\ ~contexts.misused /\ contexts.held = H1
    BY <1>2 DEF Holding
  <2>1. Bare(contexts, Single("wolfSSL"))
    BY <1>a, <1>b, <2>0, StandingOn, Distinct DEF Bare
  <2>2. engine.control[0].initialized <=> Single("wolfSSL") \in contexts.held
    <3>1. Single("wolfSSL") \notin K
      BY Distinct
    <3> HIDE DEF K
    <3> QED BY <2>0, <3>1 DEF RunningHeld
  <2>3. Holding(cleaned, contexts, H2)
    <3> HIDE DEF H1
    <3> QED BY <1>a, <2>0, <2>1, <2>2, ReleaseIfFine
  <2> QED BY <1>2, <2>3 DEF Holding
<1>4. Holding(stopped, w, H3)
  <2> HIDE DEF cleaned
  <2>0. cleaned \in World /\ ~cleaned.misused /\ cleaned.held = H2
    BY <1>3 DEF Holding
  <2>1. \A name \in ArmletThings : Single(name) \in cleaned.held <=> armlet.database
    BY <2>0, Distinct DEF RunningHeld, ArmletThings
  <2>2. Holding(stopped, cleaned, H3)
    <3> HIDE DEF H2
    <3> QED BY <1>a, <2>0, <2>1, ArmletShutdownFine DEF ArmletOK
  <2> QED BY <1>3, <2>2 DEF Holding
<1> HIDE DEF stopped
<1>5. stopped.held = H3
  BY <1>4 DEF Holding
<1>6. EngineHeld(stopped)
  BY <1>5, Distinct DEF EngineHeld, ArmletThings
<1>7. \A x \in H3 : \/ x = Single("workDb")
                    \/ \E s \in Segments : x \in {<<"segment", s>>, <<"segmentLock", s>>}
  BY <1>a, <1>b, ThingKinds DEF LoadReleased
<1> QED BY <1>0, <1>4, <1>5, <1>6, <1>7

(* An unload leaves nothing, and no work database but one a reset left.     *)
LEMMA UnloadFine ==
    ASSUME NEW w \in World, ~w.misused, TypeOK, EngineOK, ArmletOK,
           LoadReleased(w), EngineHeld(w), RunningHeld(w),
           \/ w.work = 0
           \/ w.work = engine.workDbID
           \/ engine.workDbID = 0 /\ w.stale
    PROVE  /\ Unloaded(w) \in World
           /\ ~Unloaded(w).misused
           /\ Unloaded(w).held = {}
           /\ Unloaded(w).created = w.created
           /\ Unloaded(w).work \in {0, w.work}
           /\ Unloaded(w).work # 0 => Unloaded(w).stale
<1> DEFINE stopped  == IF engine.loaded /\ 0 \in engine.segments
                       THEN ShutdownEngine(w) ELSE w
           L        == {<<"segmentLock", s>> : s \in engine.segments}
           unlocked == ReleaseAll(stopped, L)
           G        == {<<"segment", s>> : s \in engine.handles}
           freed    == ReleaseAll(unlocked, G)
           closed   == ReleaseIf(freed, engine.workDb, Single("workDb"))
           H1 == stopped.held \ L
           H2 == H1 \ G
           H3 == H2 \ {Single("workDb")}
           EngineThing(x) ==
              \/ x = Single("workDb")
              \/ \E s \in Segments : x \in {<<"segment", s>>, <<"segmentLock", s>>}
<1>0. Unloaded(w) = DeleteWork(closed, engine.workDbID)
  BY DEF Unloaded
<1>a. /\ w.held \subseteq Things
      /\ engine.workDb \in BOOLEAN
      /\ engine.segments \subseteq Segments
      /\ engine.handles \subseteq Segments
      /\ 0 \in Segments
  BY CountAssumption DEF World, TypeOK, Engine, Segments
<1>1. /\ Holding(stopped, w, stopped.held)
      /\ EngineHeld(stopped)
      /\ \A x \in stopped.held : EngineThing(x)
  <2>1. CASE engine.loaded
    <3>1. 0 \in engine.segments
      BY <1>a, <2>1 DEF EngineOK
    <3>2. stopped = ShutdownEngine(w)
      BY <2>1, <3>1
    <3> HIDE DEF stopped
    <3> QED BY <2>1, <3>2, ShutdownFine
  <2>2. CASE ~engine.loaded
    <3>1. stopped = w
      BY <2>2
    <3>2. /\ ~engine.control[0].initialized
          /\ \A s \in Slots : ~engine.control[s].context
          /\ ~armlet.database
      BY <2>2, CountAssumption DEF EngineOK, NoEngine, FreeControl, Zeroed, Slots
    <3>3. \A x \in w.held : EngineThing(x)
      BY <1>a, <3>2, ThingKinds DEF LoadReleased, RunningHeld
    <3> HIDE DEF stopped, EngineThing
    <3> QED BY <3>1, <3>3 DEF Holding
  <2> QED BY <2>1, <2>2
<1>2. stopped \in World /\ ~stopped.misused /\ stopped.held \subseteq Things
  <2> HIDE DEF stopped
  <2> QED BY <1>1 DEF Holding, World
<1>3. /\ \A s \in Segments : <<"segmentLock", s>> \in stopped.held <=> s \in engine.segments
      /\ \A s \in Segments : <<"segment", s>> \in stopped.held <=> s \in engine.handles
      /\ Single("workDb") \in stopped.held <=> engine.workDb
  <2> HIDE DEF stopped
  <2> QED BY <1>1 DEF EngineHeld
<1>4. Holding(unlocked, stopped, H1)
  <2> HIDE DEF stopped
  <2>1. L \subseteq stopped.held
    BY <1>a, <1>3
  <2>2. \A x \in L : Bare(stopped, x)
    BY <1>2, StandingOn, Distinct DEF Bare
  <2> HIDE DEF L
  <2> QED BY <1>2, <2>1, <2>2, ReleaseAllFine
<1>5. unlocked \in World /\ ~unlocked.misused /\ unlocked.held = H1
  <2> HIDE DEF unlocked
  <2> QED BY <1>4 DEF Holding
<1>6. Holding(freed, unlocked, H2)
  <2> HIDE DEF unlocked, stopped
  <2>1. G \subseteq unlocked.held
    BY <1>a, <1>3, <1>5, Distinct
  <2>2. \A x \in G : Bare(unlocked, x)
    BY <1>a, <1>2, <1>3, <1>5, StandingOn, Distinct DEF Bare
  <2> HIDE DEF L, G, H1
  <2> QED BY <1>5, <2>1, <2>2, ReleaseAllFine
<1>7. freed \in World /\ ~freed.misused /\ freed.held = H2
  <2> HIDE DEF freed
  <2> QED BY <1>6 DEF Holding
<1>8. Holding(closed, freed, H3)
  <2> HIDE DEF freed, unlocked, stopped
  <2>1. engine.workDb <=> Single("workDb") \in freed.held
    BY <1>3, <1>7, Distinct
  <2>2. Bare(freed, Single("workDb"))
    BY <1>2, <1>3, <1>7, StandingOn, Distinct DEF Bare
  <2> HIDE DEF L, G, H1, H2
  <2> QED BY <1>a, <1>7, <2>1, <2>2, ReleaseIfFine
<1>9. H3 = {}
  <2> HIDE DEF stopped
  <2> QED BY <1>1, <1>3
<1>10. /\ closed \in World
       /\ ~closed.misused
       /\ closed.held = {}
       /\ closed.created = w.created
       /\ closed.work = w.work
       /\ closed.stale = w.stale
  <2> HIDE DEF closed, freed, unlocked, stopped
  <2> QED BY <1>1, <1>4, <1>6, <1>8, <1>9 DEF Holding
<1> HIDE DEF closed
<1>11. CASE engine.workDbID = 0 \/ engine.workDbID # w.work
  BY <1>0, <1>10, <1>11 DEF DeleteWork, World
<1>12. CASE engine.workDbID # 0 /\ engine.workDbID = w.work
  <2> DEFINE mis == closed.misused \/ Single("workDb") \in closed.held
             v == [closed EXCEPT !.work = 0, !.stale = FALSE, !.misused = mis]
  <2>1. Unloaded(w) = v
    BY <1>0, <1>10, <1>12 DEF DeleteWork, World
  <2>2. mis = FALSE
    BY <1>10
  <2> HIDE DEF mis
  <2>3. v \in World
    <3>1. 0 \in 0..MaxCreated
      BY CountAssumption
    <3>2. v = [closed EXCEPT !.work = 0, !.stale = FALSE, !.misused = FALSE]
      BY <2>2
    <3>3. closed \in World
      BY <1>10
    <3> HIDE DEF v
    <3> QED BY <3>1, <3>2, <3>3 DEF World
  <2> QED BY <1>10, <2>1, <2>2, <2>3 DEF World
<1> QED BY <1>11, <1>12

-----------------------------------------------------------------------------
(* States without an engine, before a load and after an unload or a reset.  *)

Empty ==
    /\ world \in World
    /\ ~world.misused
    /\ world.held = {}
    /\ world.work <= world.created
    /\ world.work # 0 => world.stale
    /\ engine = NoEngine
    /\ armlet = Zeroed
    /\ memory = Blank
    /\ aes = NoKeys
    /\ table \in Tables
    /\ load \in Load
    /\ load.step \in {"idle", "open"}
    /\ load.step = "open" => /\ world.created < MaxCreated
                             /\ load.protocol \in Protocols
                             /\ load.index = 0
    /\ ~load.libraryDb /\ ~load.relocation /\ ~load.relocations
    /\ load.resources = {}

LEMMA ConstantTypes ==
    /\ NoEngine \in Engine
    /\ Zeroed \in Adapter
    /\ NoKeys \in [Objects -> {{}} \cup {{k} : k \in Keys}]
    /\ NoLoad \in Load
    /\ 0 \in Slots
    /\ 0 \in Segments
<1>1. 0 \in Slots /\ 0 \in Segments
  BY CountAssumption DEF Slots, Segments
<1>2. FreeControl \in SlotControl
  BY DEF FreeControl, SlotControl, Statuses
<1>3. NoEngine \in Engine
  <2>1. 0 \in 0..MaxCreated
    BY CountAssumption
  <2>2. [s \in Slots |-> FreeControl] \in [Slots -> SlotControl]
    BY <1>2
  <2> QED BY <2>1, <2>2 DEF NoEngine, Engine
<1>4. Zeroed \in Adapter
  <2>1. FreeEntry \in KeyEntry
    BY DEF FreeEntry, KeyEntry, Owners
  <2>2. [i \in 1..KeySlots |-> FreeEntry] \in [1..KeySlots -> KeyEntry]
    BY <2>1
  <2> HIDE DEF FreeEntry
  <2> QED BY <2>2 DEF Zeroed, Adapter, Statuses
<1>5. NoKeys \in [Objects -> {{}} \cup {{k} : k \in Keys}]
  BY DEF NoKeys
<1>6. NoLoad \in Load
  BY CountAssumption DEF NoLoad, Load, Steps, LoadStatuses
<1> QED BY <1>1, <1>3, <1>4, <1>5, <1>6

LEMMA NobodyIsNoObject == Nobody \notin Objects /\ TestObject \notin Objects
  BY CountAssumption DEF Nobody, TestObject, Objects, Slots

LEMMA EmptyConsistent == Empty => Consistent
<1> SUFFICES ASSUME Empty PROVE Consistent
  OBVIOUS
<1> USE DEF Empty
<1>1. TypeOK
  <2>1. \A s \in Segments : memory[s] = << >>
    BY DEF Blank
  <2> QED BY <2>1, ConstantTypes DEF TypeOK
<1>2. LedgerOK
  <2>1. /\ ~engine.control[0].initialized
        /\ \A s \in Slots : ~engine.control[s].context
        /\ ~engine.workDb /\ engine.handles = {} /\ engine.segments = {}
        /\ ~armlet.database
    BY ConstantTypes DEF NoEngine, FreeControl, Zeroed
  <2> QED BY <2>1 DEF LedgerOK, LoadHeld, EngineHeld, RunningHeld
<1>3. StorageOK
  BY DEF StorageOK, NoEngine
<1>4. LoadOK
  BY DEF LoadOK
<1>5. EngineOK
  BY ConstantTypes DEF EngineOK, NoEngine, FreeControl
<1>6. ArmletOK
  BY DEF ArmletOK, Zeroed
<1>7. KeysOK(armlet, aes)
  BY DEF KeysOK, Zeroed, FreeEntry, NoKeys
<1>8. MemoryOK
  BY DEF MemoryOK, RelocationsExact, Blank, NoEngine
<1> QED BY <1>1, <1>2, <1>3, <1>4, <1>5, <1>6, <1>7, <1>8 DEF Consistent

LEMMA InitConsistent == Init => Consistent
<1> SUFFICES ASSUME Init PROVE Empty
  BY EmptyConsistent
<1>1. EmptyWorld \in World
  BY CountAssumption DEF EmptyWorld, World
<1> QED BY <1>1, ConstantTypes DEF Init, Empty, EmptyWorld, NoLoad

LEMMA ResetStep == ASSUME Consistent, Reset PROVE Consistent'
<1>1. Empty'
  <2>1. world \in World /\ ~world.misused /\ world.work <= world.created
    BY DEF Consistent, TypeOK, LedgerOK, StorageOK
  <2>2. /\ world' \in World /\ ~world'.misused /\ world'.held = {}
        /\ world'.work = world.work /\ world'.created = world.created
        /\ world'.work # 0 => world'.stale
    <3>1. world' = [world EXCEPT !.held = {}, !.stale = (world.work # 0)]
      BY DEF Reset, SoftReset
    <3> QED BY <2>1, <3>1 DEF World
  <2>3. table' \in Tables
    BY DEF Reset, Consistent, TypeOK
  <2> QED BY <2>1, <2>2, <2>3, ConstantTypes DEF Reset, Empty, NoLoad
<1> QED BY <1>1, EmptyConsistent, PTL

(* An unload from w, where nothing of a load is left.                       *)
LEMMA UnloadEngineStep ==
    ASSUME Consistent, NEW w \in World, ~w.misused, UnloadEngine(w),
           LoadReleased(w), EngineHeld(w), RunningHeld(w),
           w.work = world.work, w.created = world.created, w.stale = world.stale,
           load' \in Load, load'.step \in {"idle", "open"},
           load'.step = "open" =>
              /\ world.created < MaxCreated
              /\ load'.protocol \in Protocols
              /\ load'.index = 0,
           ~load'.libraryDb, ~load'.relocation, ~load'.relocations,
           load'.resources = {}, table' = table
    PROVE  Consistent'
<1>1. /\ world' \in World
      /\ ~world'.misused
      /\ world'.held = {}
      /\ world'.created = world.created
      /\ world'.work \in {0, world.work}
      /\ world'.work # 0 => world'.stale
  BY UnloadFine DEF UnloadEngine, Consistent, StorageOK
<1>2. world'.work <= world'.created
  BY <1>1 DEF Consistent, StorageOK, World
<1>3. Empty'
  BY <1>1, <1>2 DEF Empty, UnloadEngine, Consistent, TypeOK
<1> QED BY <1>3, EmptyConsistent, PTL

LEMMA UnloadStep == ASSUME Consistent, Unload PROVE Consistent'
<1>1. world \in World /\ ~world.misused
  BY DEF Consistent, TypeOK, LedgerOK
<1>2. LoadReleased(world) /\ EngineHeld(world) /\ RunningHeld(world)
  BY DEF Consistent, LedgerOK, LoadHeld, LoadReleased, LoadOK, Unload, Ready
<1> QED
  BY <1>1, <1>2, UnloadEngineStep
  DEF Unload, Ready, Consistent, TypeOK, LoadOK

LEMMA ExecuteStep ==
    ASSUME Consistent, NEW p \in Protocols, NEW disable \in BOOLEAN,
           Execute(p, disable)
    PROVE  Consistent'
<1>1. world \in World /\ ~world.misused /\ load.step = "idle"
  BY DEF Consistent, TypeOK, LedgerOK, Execute
<1>2. LoadReleased(world) /\ EngineHeld(world) /\ RunningHeld(world)
  BY <1>1 DEF Consistent, LedgerOK, LoadHeld, LoadReleased, LoadOK
<1>3. /\ load' \in Load
      /\ load'.step = "open" /\ load'.protocol = p /\ load'.index = 0
      /\ ~load'.libraryDb /\ ~load'.relocation /\ ~load'.relocations
      /\ load'.resources = {}
  <2>1. load' = [NoLoad EXCEPT !.step = "open", !.protocol = p,
                               !.disable = disable, !.status = "BadParameter"]
    BY DEF Execute
  <2>2. NoLoad \in Load /\ "open" \in Steps /\ "BadParameter" \in LoadStatuses
    BY ConstantTypes DEF Steps, LoadStatuses
  <2>3. load' \in Load
    BY <2>1, <2>2 DEF Load
  <2> QED BY <2>1, <2>3 DEF NoLoad
<1>4. CASE engine.loaded
  BY <1>1, <1>2, <1>3, <1>4, UnloadEngineStep DEF Execute
<1>5. CASE ~engine.loaded
  <2>1. UNCHANGED <<world, engine, armlet, memory, aes, table>>
    BY <1>5 DEF Execute
  <2>2. engine = NoEngine /\ armlet = Zeroed /\ aes = NoKeys
    BY <1>1, <1>5 DEF Consistent, EngineOK, NoEngine
  <2>3. Consistent'
    <3>1. TypeOK'
      BY <1>3, <2>1 DEF Consistent, TypeOK
    <3>2. LedgerOK'
      BY <1>2, <1>3, <2>1
      DEF Consistent, LedgerOK, LoadHeld, EngineHeld, RunningHeld, LoadReleased
    <3>3. StorageOK'
      BY <1>3, <2>1 DEF Consistent, StorageOK, Execute
    <3>4. LoadOK'
      BY <1>3 DEF LoadOK
    <3>5. EngineOK'
      BY <1>1, <1>3, <1>5, <2>1, <2>2 DEF Consistent, EngineOK
    <3>6. ArmletOK' /\ KeysOK(armlet, aes)'
      BY <2>1 DEF Consistent, ArmletOK, KeysOK
    <3>7. MemoryOK'
      BY <1>3, <1>5, <2>1 DEF Consistent, MemoryOK, RelocationsExact
    <3> QED BY <3>1, <3>2, <3>3, <3>4, <3>5, <3>6, <3>7 DEF Consistent
  <2> QED BY <2>3
<1> QED BY <1>4, <1>5

-----------------------------------------------------------------------------
(* The steps of a load.                                                     *)

(* A load that fails goes to its cleanup with what it has.                  *)
LEMMA FailedLoad ==
    ASSUME load \in Load, NEW status \in LoadStatuses
    PROVE  /\ FailLoad(status) \in Load
           /\ FailLoad(status).step = "cleanup"
           /\ FailLoad(status).status = status
           /\ FailLoad(status).fault
           /\ FailLoad(status).libraryDb = load.libraryDb
           /\ FailLoad(status).relocation = load.relocation
           /\ FailLoad(status).relocations = load.relocations
           /\ FailLoad(status).resources = load.resources
           /\ FailLoad(status).protocol = load.protocol
           /\ FailLoad(status).index = load.index
  BY DEF FailLoad, Load, Steps

LEMMA OpenLibraryStep == ASSUME Consistent, OpenLibrary PROVE Consistent'
<1>0. /\ TypeOK /\ LedgerOK /\ LoadOK /\ EngineOK
      /\ load.step = "open" /\ load \in Load
      /\ world \in World /\ ~world.misused
      /\ UNCHANGED <<engine, armlet, memory, aes, table>>
  BY DEF Consistent, OpenLibrary, TypeOK, LedgerOK
<1>1. ~engine.loaded /\ engine = NoEngine /\ ~engine.control[0].initialized
  BY <1>0, ConstantTypes DEF EngineOK, NoEngine, FreeControl
<1>2. CASE /\ world' = Acquire(world, Single("libraryDb"))
           /\ load' = [load EXCEPT !.step = "work", !.libraryDb = TRUE]
  <2>1. Holding(world', world, world.held \cup {Single("libraryDb")})
    BY <1>0, <1>2, AcquireFine, Bases, ThingsAre DEF LedgerOK, LoadHeld, LoadOK
  <2>2. /\ load' \in Load /\ load'.step = "work" /\ load'.libraryDb
        /\ load'.relocation = load.relocation
        /\ load'.relocations = load.relocations
        /\ load'.resources = load.resources
        /\ load'.protocol = load.protocol /\ load'.index = load.index
    BY <1>0, <1>2 DEF Load, Steps
  <2>3. TypeOK'
    BY <1>0, <2>1, <2>2 DEF TypeOK, Holding
  <2>4. LedgerOK'
    <3>1. LoadHeld(world)'
      BY <1>0, <2>1, <2>2, Distinct DEF LedgerOK, LoadHeld, Holding
    <3>2. EngineHeld(world)' /\ RunningHeld(world)'
      BY <1>0, <2>1, Distinct
      DEF LedgerOK, EngineHeld, RunningHeld, Holding, ArmletThings
    <3> QED BY <2>1, <3>1, <3>2 DEF LedgerOK, Holding
  <2>5. StorageOK'
    BY <1>0, <2>1, <2>2 DEF Consistent, StorageOK, Holding
  <2>6. LoadOK'
    BY <1>0, <2>2 DEF LoadOK
  <2>7. EngineOK'
    BY <1>0, <1>1, <2>2 DEF EngineOK
  <2>8. ArmletOK' /\ KeysOK(armlet, aes)'
    BY <1>0 DEF Consistent, ArmletOK, KeysOK
  <2>9. MemoryOK'
    BY <1>0, <1>1, <2>2 DEF Consistent, MemoryOK, RelocationsExact
  <2> QED BY <2>3, <2>4, <2>5, <2>6, <2>7, <2>8, <2>9 DEF Consistent
<1>3. CASE load' = FailLoad("ResourceMissing") /\ UNCHANGED world
  <2>1. "ResourceMissing" \in LoadStatuses
    BY DEF LoadStatuses
  <2>2. /\ load' \in Load /\ load'.step = "cleanup"
        /\ load'.status = "ResourceMissing" /\ load'.fault
        /\ load'.libraryDb = load.libraryDb
        /\ load'.relocation = load.relocation
        /\ load'.relocations = load.relocations
        /\ load'.resources = load.resources
    BY <1>0, <1>3, <2>1, FailedLoad
  <2>3. TypeOK'
    BY <1>0, <1>3, <2>2 DEF TypeOK
  <2>4. LedgerOK'
    BY <1>0, <1>3, <2>2 DEF LedgerOK, LoadHeld, EngineHeld, RunningHeld
  <2>5. StorageOK'
    BY <1>0, <1>3, <2>2 DEF Consistent, StorageOK
  <2>6. LoadOK'
    BY <1>0, <2>2 DEF LoadOK
  <2>7. EngineOK'
    BY <1>0, <1>1, <2>2 DEF EngineOK
  <2>8. ArmletOK' /\ KeysOK(armlet, aes)'
    BY <1>0 DEF Consistent, ArmletOK, KeysOK
  <2>9. MemoryOK'
    BY <1>0, <1>1, <2>2 DEF Consistent, MemoryOK, RelocationsExact
  <2> QED BY <2>3, <2>4, <2>5, <2>6, <2>7, <2>8, <2>9 DEF Consistent
<1> QED BY <1>2, <1>3 DEF OpenLibrary

(* The work database of an earlier load is deleted, and another created.    *)
LEMMA WorkFine ==
    ASSUME NEW w \in World, ~w.misused, Single("workDb") \notin w.held,
           w.work <= w.created, w.created < MaxCreated
    PROVE  LET cleared == DeleteWork(w, w.work)
               made    == CreateWork(cleared)
           IN  /\ cleared \in World /\ ~cleared.misused
               /\ cleared.held = w.held
               /\ cleared.work = 0 /\ cleared.created = w.created
               /\ made \in World /\ ~made.misused
               /\ made.held = w.held
               /\ made.work = made.created /\ made.work # 0
<1> DEFINE cleared == DeleteWork(w, w.work)
           made    == CreateWork(cleared)
<1>1. /\ cleared \in World /\ ~cleared.misused
      /\ cleared.held = w.held
      /\ cleared.work = 0 /\ cleared.created = w.created
  <2>1. CASE w.work = 0
    BY <2>1 DEF DeleteWork
  <2>2. CASE w.work # 0
    <3> DEFINE mis == w.misused \/ Single("workDb") \in w.held
               v == [w EXCEPT !.work = 0, !.stale = FALSE, !.misused = mis]
    <3>1. cleared = v
      BY <2>2 DEF DeleteWork, World
    <3>2. mis = FALSE
      OBVIOUS
    <3> HIDE DEF mis
    <3>3. v = [w EXCEPT !.work = 0, !.stale = FALSE, !.misused = FALSE]
      BY <3>2
    <3>4. 0 \in 0..MaxCreated
      BY CountAssumption
    <3> HIDE DEF v, cleared
    <3> QED BY <3>1, <3>3, <3>4 DEF World
  <2> QED BY <2>1, <2>2
<1> HIDE DEF cleared
<1>2. /\ made \in World /\ ~made.misused
      /\ made.held = w.held
      /\ made.work = made.created /\ made.work # 0
  <2> DEFINE n == cleared.created + 1
  <2>1. made = [cleared EXCEPT !.work = n, !.created = n]
    BY <1>1 DEF CreateWork, World
  <2>2. n \in 0..MaxCreated /\ n # 0
    BY <1>1, CountAssumption DEF World
  <2> HIDE DEF n, made
  <2> QED BY <1>1, <2>1, <2>2 DEF World
<1> QED BY <1>1, <1>2 DEF cleared

LEMMA OpenWorkStep == ASSUME Consistent, OpenWork PROVE Consistent'
<1> DEFINE cleared == DeleteWork(world, world.work)
           made    == CreateWork(cleared)
<1>0. /\ TypeOK /\ LedgerOK /\ LoadOK /\ EngineOK
      /\ load.step = "work" /\ load \in Load /\ engine \in Engine
      /\ world \in World /\ ~world.misused
      /\ UNCHANGED <<armlet, memory, aes, table>>
  BY DEF Consistent, OpenWork, TypeOK, LedgerOK
<1>1. /\ ~engine.loaded /\ engine = NoEngine /\ ~engine.control[0].initialized
      /\ ~engine.workDb /\ engine.handles = {} /\ engine.segments = {}
      /\ \A s \in Slots : ~engine.control[s].context
      /\ armlet = Zeroed /\ aes = NoKeys
  BY <1>0, ConstantTypes DEF EngineOK, NoEngine, FreeControl
<1>2. Single("workDb") \notin world.held
  BY <1>0, <1>1 DEF LedgerOK, EngineHeld
<1>3. /\ cleared \in World /\ ~cleared.misused
      /\ cleared.held = world.held
      /\ cleared.work = 0 /\ cleared.created = world.created
      /\ made \in World /\ ~made.misused
      /\ made.held = world.held
      /\ made.work = made.created /\ made.work # 0
  BY <1>0, <1>2, WorkFine DEF Consistent, StorageOK
<1> HIDE DEF cleared, made
<1>a. /\ cleared.work \in 0..MaxCreated /\ world.work \in 0..MaxCreated
      /\ made.work \in 0..MaxCreated
  BY <1>0, <1>3 DEF World
<1>4. ASSUME world' \in World, ~world'.misused, world'.held = world.held,
             NEW id \in 0..MaxCreated, engine' = [engine EXCEPT !.workDbID = id],
             load' = FailLoad("NoMemory"),
             world'.work \in {0, id}, world'.work <= world'.created
      PROVE  Consistent'
  <2>1. /\ engine' \in Engine /\ engine'.workDb = engine.workDb
        /\ engine'.handles = engine.handles /\ engine'.segments = engine.segments
        /\ engine'.control = engine.control /\ engine'.loaded = engine.loaded
        /\ engine'.workDbID = id
    BY <1>0, <1>4 DEF Engine
  <2>2. "NoMemory" \in LoadStatuses
    BY DEF LoadStatuses
  <2>3. /\ load' \in Load /\ load'.step = "cleanup"
        /\ load'.status = "NoMemory" /\ load'.fault
        /\ load'.libraryDb = load.libraryDb
        /\ load'.relocation = load.relocation
        /\ load'.relocations = load.relocations
        /\ load'.resources = load.resources
    BY <1>0, <1>4, <2>2, FailedLoad
  <2>4. TypeOK'
    BY <1>0, <1>4, <2>1, <2>3 DEF TypeOK
  <2>5. LedgerOK'
    BY <1>0, <1>4, <2>1, <2>3 DEF LedgerOK, LoadHeld, EngineHeld, RunningHeld
  <2>6. StorageOK'
    BY <1>1, <1>4, <2>1, <2>3 DEF StorageOK
  <2>7. LoadOK'
    BY <1>0, <2>3 DEF LoadOK
  <2>8. EngineOK'
    BY <1>0, <1>1, <2>1, <2>3 DEF EngineOK
  <2>9. ArmletOK' /\ KeysOK(armlet, aes)'
    BY <1>0, <2>1 DEF Consistent, ArmletOK, KeysOK
  <2>10. MemoryOK'
    BY <1>0, <1>1, <2>1, <2>3 DEF Consistent, MemoryOK, RelocationsExact
  <2> QED BY <2>4, <2>5, <2>6, <2>7, <2>8, <2>9, <2>10 DEF Consistent
<1>5. CASE /\ world' = cleared
           /\ engine' = [engine EXCEPT !.workDbID = world.work]
           /\ load' = FailLoad("NoMemory")
  <2>1. world'.work <= world'.created
    BY <1>3, <1>5 DEF World
  <2> QED BY <1>3, <1>4, <1>5, <1>a, <2>1
<1>6. CASE /\ world' = made
           /\ engine' = [engine EXCEPT !.workDbID = made.work]
           /\ load' = FailLoad("NoMemory")
  <2>1. world'.work <= world'.created
    BY <1>3, <1>6 DEF World
  <2> QED BY <1>3, <1>4, <1>6, <1>a, <2>1
<1>7. CASE /\ world' = Acquire(made, Single("workDb"))
           /\ engine' = [engine EXCEPT !.workDbID = made.work, !.workDb = TRUE]
           /\ load' = [load EXCEPT !.step = "copy"]
  <2>1. Holding(world', made, world.held \cup {Single("workDb")})
    BY <1>2, <1>3, <1>7, AcquireFine, Bases, ThingsAre
  <2>2. /\ engine' \in Engine /\ engine'.workDb
        /\ engine'.handles = engine.handles /\ engine'.segments = engine.segments
        /\ engine'.control = engine.control /\ engine'.loaded = engine.loaded
        /\ engine'.workDbID = made.work
    BY <1>0, <1>7, <1>a DEF Engine
  <2>3. /\ load' \in Load /\ load'.step = "copy" /\ load'.libraryDb = load.libraryDb
        /\ load'.relocation = load.relocation
        /\ load'.relocations = load.relocations
        /\ load'.resources = load.resources
        /\ load'.protocol = load.protocol /\ load'.index = load.index
    BY <1>0, <1>7 DEF Load, Steps
  <2>4. TypeOK'
    BY <1>0, <2>1, <2>2, <2>3 DEF TypeOK, Holding
  <2>5. LedgerOK'
    <3>1. LoadHeld(world)'
      BY <1>0, <2>1, <2>3, Distinct DEF LedgerOK, LoadHeld, Holding
    <3>2. EngineHeld(world)'
      BY <1>0, <2>1, <2>2, Distinct DEF LedgerOK, EngineHeld, Holding
    <3>3. RunningHeld(world)'
      BY <1>0, <2>1, <2>2, Distinct DEF LedgerOK, RunningHeld, Holding, ArmletThings
    <3> QED BY <2>1, <3>1, <3>2, <3>3 DEF LedgerOK, Holding
  <2>6. StorageOK'
    BY <1>3, <2>1, <2>2, <2>3 DEF StorageOK, Holding, World
  <2>7. LoadOK'
    BY <1>0, <2>3 DEF LoadOK
  <2>8. EngineOK'
    <3>1. load.index = 0 /\ 0..(0 - 1) = {}
      BY <1>0 DEF LoadOK
    <3> QED BY <1>0, <1>1, <2>2, <2>3, <3>1, ConstantTypes DEF EngineOK
  <2>9. ArmletOK' /\ KeysOK(armlet, aes)'
    BY <1>0, <2>2 DEF Consistent, ArmletOK, KeysOK
  <2>10. MemoryOK'
    <3>1. \A s \in Segments : ~(s < load'.index)
      BY <1>0, <2>3 DEF LoadOK, Segments
    <3> QED
      BY <1>0, <1>1, <2>2, <2>3, <3>1 DEF Consistent, MemoryOK, RelocationsExact
  <2> QED BY <2>4, <2>5, <2>6, <2>7, <2>8, <2>9, <2>10 DEF Consistent
<1> QED BY <1>5, <1>6, <1>7 DEF OpenWork, cleared, made

-----------------------------------------------------------------------------
(* Copying a segment.                                                       *)

LEMMA FateOrder ==
    /\ \A least \in {"unlockable", "full", "unmapped", "unwritable"} :
          Reaches("copied", least) /\ ~Reaches("missing", least)
    /\ Reaches("unlockable", "unlockable") /\ Reaches("full", "unlockable")
    /\ Reaches("unmapped", "unlockable") /\ Reaches("unwritable", "unlockable")
    /\ ~Reaches("unlockable", "full") /\ Reaches("full", "full")
    /\ Reaches("unmapped", "full") /\ Reaches("unwritable", "full")
    /\ ~Reaches("unlockable", "unmapped") /\ ~Reaches("full", "unmapped")
    /\ Reaches("unmapped", "unmapped") /\ Reaches("unwritable", "unmapped")
    /\ ~Reaches("unlockable", "unwritable") /\ ~Reaches("full", "unwritable")
    /\ ~Reaches("unmapped", "unwritable") /\ Reaches("unwritable", "unwritable")
  BY DEF Reaches

(* However far the copy comes, it keeps the segment it made, and the        *)
(* resource only when it fails.                                             *)
LEMMA CopiedFine ==
    ASSUME NEW w \in World, ~w.misused, NEW s \in Segments, NEW fate \in CopyFates,
           Single("libraryDb") \in w.held, Single("workDb") \in w.held,
           <<"resource", s>> \notin w.held, <<"resourceLock", s>> \notin w.held,
           <<"segment", s>> \notin w.held, <<"segmentLock", s>> \notin w.held
    PROVE  Holding(Copied(w, s, fate), w, w.held
              \cup (IF fate \in {"missing", "copied"} THEN {} ELSE {<<"resource", s>>})
              \cup (IF Reaches(fate, "unmapped") THEN {<<"segment", s>>} ELSE {})
              \cup (IF Reaches(fate, "unwritable") THEN {<<"segmentLock", s>>} ELSE {}))
<1> DEFINE R == <<"resource", s>>
           K == <<"resourceLock", s>>
           G == <<"segment", s>>
           L == <<"segmentLock", s>>
           got    == Acquire(w, R)
           locked == Acquire(got, K)
           made   == Acquire(locked, G)
           mapped == Acquire(made, L)
           full     == Release(locked, K)
           unmapped == Release(made, K)
           unlocked == Release(mapped, K)
           copied   == Release(unlocked, R)
<1>a. /\ R \in Things /\ K \in Things /\ G \in Things /\ L \in Things
      /\ Base(R) = {Single("libraryDb")} /\ Base(K) = {R}
      /\ Base(G) \subseteq {Single("workDb")} /\ Base(L) = {G}
  BY ThingsAre, Bases
<1>b. /\ R # K /\ R # G /\ R # L /\ K # G /\ K # L /\ G # L
  BY Distinct
<1>c. w.held \subseteq Things
  BY DEF World
<1>d. \A y \in Things : K \notin Base(y)
  <2> SUFFICES ASSUME NEW y \in Things, K \in Base(y) PROVE FALSE
    OBVIOUS
  <2> QED BY StandingOn, Distinct
<1>e. \A y \in Things : R \in Base(y) => y = K
  BY StandingOn, Distinct
<1>f. R \notin w.held /\ K \notin w.held /\ G \notin w.held /\ L \notin w.held
  OBVIOUS
<1> HIDE DEF R, K, G, L
<1>1. Holding(got, w, w.held \cup {R})
  BY <1>a, <1>f, AcquireFine
<1>2. Holding(locked, w, w.held \cup {R, K})
  <2> HIDE DEF got
  <2>1. Holding(locked, got, got.held \cup {K})
    BY <1>1, <1>a, <1>b, <1>f, AcquireFine DEF Holding
  <2> QED BY <1>1, <2>1 DEF Holding
<1>3. Holding(made, w, w.held \cup {R, K, G})
  <2> HIDE DEF locked
  <2>1. Holding(made, locked, locked.held \cup {G})
    BY <1>2, <1>a, <1>b, <1>f, AcquireFine DEF Holding
  <2> QED BY <1>2, <2>1 DEF Holding
<1>4. Holding(mapped, w, w.held \cup {R, K, G, L})
  <2> HIDE DEF made
  <2>1. Holding(mapped, made, made.held \cup {L})
    BY <1>3, <1>a, <1>b, <1>f, AcquireFine DEF Holding
  <2> QED BY <1>3, <2>1 DEF Holding
<1>5. Holding(full, w, w.held \cup {R})
  <2> HIDE DEF locked
  <2>1. Holding(full, locked, locked.held \ {K})
    BY <1>2, <1>d, ReleaseFine DEF Holding, Bare, World
  <2> QED BY <1>2, <1>b, <1>f, <2>1 DEF Holding
<1>6. Holding(unmapped, w, w.held \cup {R, G})
  <2> HIDE DEF made
  <2>1. Holding(unmapped, made, made.held \ {K})
    BY <1>3, <1>d, ReleaseFine DEF Holding, Bare, World
  <2> QED BY <1>3, <1>b, <1>f, <2>1 DEF Holding
<1>7. Holding(unlocked, w, w.held \cup {R, G, L})
  <2> HIDE DEF mapped
  <2>1. Holding(unlocked, mapped, mapped.held \ {K})
    BY <1>4, <1>d, ReleaseFine DEF Holding, Bare, World
  <2> QED BY <1>4, <1>b, <1>f, <2>1 DEF Holding
<1>8. Holding(copied, w, w.held \cup {G, L})
  <2> HIDE DEF unlocked
  <2>1. unlocked \in World /\ ~unlocked.misused /\ unlocked.held = w.held \cup {R, G, L}
    BY <1>7 DEF Holding
  <2>2. Bare(unlocked, R)
    BY <2>1, <1>b, <1>e, <1>f DEF Bare, World
  <2>3. Holding(copied, unlocked, unlocked.held \ {R})
    BY <2>1, <2>2, ReleaseFine
  <2> QED BY <1>7, <1>b, <1>f, <2>3 DEF Holding
<1> HIDE DEF copied, unlocked, unmapped, full
<1>10. CASE fate = "missing"
  <2>1. Copied(w, s, fate) = w
    BY <1>10, FateOrder DEF Copied, AcquireIf, ReleaseIf
  <2> QED BY <1>10, <2>1, FateOrder DEF Holding
<1>11. CASE fate = "unlockable"
  <2>1. Copied(w, s, fate) = got
    BY <1>11, FateOrder DEF Copied, AcquireIf, ReleaseIf, R
  <2> HIDE DEF got
  <2> QED BY <1>11, <1>1, <2>1, FateOrder DEF Holding, R
<1>12. CASE fate = "full"
  <2>1. Copied(w, s, fate) = full
    BY <1>12, FateOrder DEF Copied, AcquireIf, ReleaseIf, R, K, full
  <2> QED BY <1>12, <1>5, <2>1, FateOrder DEF Holding, R
<1>13. CASE fate = "unmapped"
  <2>1. Copied(w, s, fate) = unmapped
    BY <1>13, FateOrder DEF Copied, AcquireIf, ReleaseIf, R, K, G, unmapped
  <2> QED BY <1>13, <1>6, <2>1, FateOrder DEF Holding, R, G
<1>14. CASE fate = "unwritable"
  <2>1. Copied(w, s, fate) = unlocked
    BY <1>14, FateOrder DEF Copied, AcquireIf, ReleaseIf, R, K, G, L, unlocked
  <2> QED BY <1>14, <1>7, <2>1, FateOrder DEF Holding, R, G, L
<1>15. CASE fate = "copied"
  <2>1. Copied(w, s, fate) = copied
    BY <1>15, FateOrder DEF Copied, AcquireIf, ReleaseIf, R, K, G, L, unlocked, copied
  <2> QED BY <1>15, <1>8, <2>1, FateOrder DEF Holding, G, L
<1> QED BY <1>10, <1>11, <1>12, <1>13, <1>14, <1>15 DEF CopyFates

LEMMA CopySegmentStep ==
    ASSUME Consistent, NEW fate \in CopyFates, CopySegment(fate)
    PROVE  Consistent'
<1> DEFINE s == load.index
           h == IF Reaches(fate, "unmapped") THEN {s} ELSE {}
           l == IF Reaches(fate, "unwritable") THEN {s} ELSE {}
           r == IF fate \in {"missing", "copied"} THEN {} ELSE {s}
<1>0. /\ TypeOK /\ LedgerOK /\ LoadOK /\ EngineOK
      /\ load.step = "copy" /\ load \in Load /\ engine \in Engine
      /\ world \in World /\ ~world.misused
      /\ UNCHANGED <<armlet, aes, table>>
      /\ world' = Copied(world, s, fate)
  BY DEF Consistent, CopySegment, TypeOK, LedgerOK
<1>1. /\ s \in Segments /\ s \in Nat /\ engine.workDb /\ ~engine.loaded
      /\ engine.handles = 0..(s - 1) /\ engine.segments = 0..(s - 1)
      /\ s \notin engine.handles /\ s \notin engine.segments
      /\ engine.handles \subseteq Segments /\ engine.segments \subseteq Segments
      /\ load.libraryDb /\ ~load.relocation /\ ~load.relocations /\ load.resources = {}
      /\ engine.control = NoEngine.control /\ ~engine.control[0].initialized
  BY <1>0, ConstantTypes
  DEF EngineOK, LoadOK, Segments, Engine, NoEngine, FreeControl
<1>2. Holding(world', world, world.held
                 \cup (IF fate \in {"missing", "copied"} THEN {} ELSE {<<"resource", s>>})
                 \cup (IF Reaches(fate, "unmapped") THEN {<<"segment", s>>} ELSE {})
                 \cup (IF Reaches(fate, "unwritable") THEN {<<"segmentLock", s>>} ELSE {}))
  <2>1. /\ Single("libraryDb") \in world.held /\ Single("workDb") \in world.held
        /\ <<"resource", s>> \notin world.held /\ <<"resourceLock", s>> \notin world.held
        /\ <<"segment", s>> \notin world.held /\ <<"segmentLock", s>> \notin world.held
    BY <1>0, <1>1 DEF LedgerOK, LoadHeld, EngineHeld
  <2> QED BY <1>0, <1>1, <2>1, CopiedFine
<1>3. /\ engine' \in Engine
      /\ engine'.handles = engine.handles \cup h
      /\ engine'.segments = engine.segments \cup l
      /\ engine'.control = engine.control /\ engine'.loaded = engine.loaded
      /\ engine'.workDb = engine.workDb /\ engine'.workDbID = engine.workDbID
  <2>1. engine' = [engine EXCEPT !.handles = engine.handles \cup h,
                                 !.segments = engine.segments \cup l]
    BY <1>0 DEF CopySegment, Engine
  <2>2. h \subseteq Segments /\ l \subseteq Segments
    BY <1>1
  <2> HIDE DEF h, l
  <2> QED BY <1>0, <2>1, <2>2 DEF Engine
<1>4. l \subseteq h
  BY FateOrder DEF CopyFates
<1>5. EngineHeld(world)'
  <2>1. /\ Single("workDb") \in world'.held <=> engine.workDb
        /\ \A t \in Segments :
              /\ <<"segment", t>> \in world'.held <=> t \in engine.handles \/ t \in h
              /\ <<"segmentLock", t>> \in world'.held <=> t \in engine.segments \/ t \in l
    BY <1>0, <1>2, Distinct DEF LedgerOK, EngineHeld, Holding
  <2> HIDE DEF h, l
  <2> QED BY <1>3, <2>1 DEF EngineHeld
<1>6. RunningHeld(world)'
  BY <1>0, <1>2, <1>3, Distinct
  DEF LedgerOK, RunningHeld, Holding, ArmletThings
<1>7. /\ ~world'.misused
      /\ Single("libraryDb") \in world'.held
      /\ Single("relocation") \notin world'.held
      /\ Single("relocationLock") \notin world'.held
      /\ \A t \in Segments : <<"resourceLock", t>> \notin world'.held
      /\ \A t \in Segments : <<"resource", t>> \in world'.held <=> t \in r
  <2>1. /\ ~world'.misused
        /\ Single("libraryDb") \in world'.held
        /\ Single("relocation") \notin world'.held
        /\ Single("relocationLock") \notin world'.held
    BY <1>0, <1>1, <1>2, Distinct DEF LedgerOK, LoadHeld, Holding
  <2>2. \A t \in Segments : <<"resourceLock", t>> \notin world'.held
    BY <1>0, <1>2, Distinct DEF LedgerOK, LoadHeld, Holding
  <2>3. \A t \in Segments : <<"resource", t>> \in world'.held <=> t \in r
    <3>1. \A t \in Segments : <<"resource", t>> \notin world.held
      BY <1>0, <1>1 DEF LedgerOK, LoadHeld
    <3> QED BY <1>2, <3>1, Distinct DEF Holding
  <2> QED BY <2>1, <2>2, <2>3
<1>8. ArmletOK' /\ KeysOK(armlet, aes)'
  BY <1>0, <1>3 DEF Consistent, ArmletOK, KeysOK
<1>9. StorageOK'
  <2>1. load'.step \notin {"open", "work"}
    <3>1. FailLoad("ResourceMissing").step = "cleanup" /\ FailLoad("NoMemory").step = "cleanup"
      BY <1>0, FailedLoad DEF LoadStatuses
    <3> QED BY <1>0, <3>1 DEF CopySegment, FailLoad, Load
  <2> QED BY <1>0, <1>2, <1>3, <2>1 DEF Consistent, StorageOK, Holding
<1>10. CASE fate = "copied"
  <2>1. /\ memory' = [memory EXCEPT ![s] = Images[s]]
        /\ load' = [load EXCEPT !.index = s + 1,
                      !.step = IF s + 1 < SegmentCount THEN "copy" ELSE "relocate"]
    BY <1>0, <1>10 DEF CopySegment, Load
  <2>2. /\ s + 1 \in 0..SegmentCount
        /\ s + 1 < SegmentCount => s + 1 \in Segments
        /\ ~(s + 1 < SegmentCount) => Segments = 0..((s + 1) - 1)
        /\ 0..((s + 1) - 1) = 0..(s - 1) \cup {s}
    BY <1>1, CountAssumption DEF Segments
  <2>3. h = {s} /\ l = {s} /\ r = {}
    BY <1>10, FateOrder
  <2>4. /\ load' \in Load /\ load'.index = s + 1
        /\ load'.step = (IF s + 1 < SegmentCount THEN "copy" ELSE "relocate")
        /\ load'.libraryDb = load.libraryDb
        /\ load'.relocation = load.relocation
        /\ load'.relocations = load.relocations
        /\ load'.resources = load.resources
        /\ load'.protocol = load.protocol
    <3> DEFINE step == IF s + 1 < SegmentCount THEN "copy" ELSE "relocate"
    <3>1. step \in Steps
      BY DEF Steps
    <3>2. load' = [load EXCEPT !.index = s + 1, !.step = step]
      BY <2>1
    <3> HIDE DEF step
    <3>3. /\ load' \in Load /\ load'.index = s + 1 /\ load'.step = step
          /\ load'.libraryDb = load.libraryDb
          /\ load'.relocation = load.relocation
          /\ load'.relocations = load.relocations
          /\ load'.resources = load.resources
          /\ load'.protocol = load.protocol
      BY <1>0, <2>2, <3>1, <3>2 DEF Load
    <3> QED BY <3>3 DEF step
  <2>5. /\ memory' = [t \in Segments |-> memory'[t]]
        /\ memory'[s] = Images[s]
        /\ \A t \in Segments \ {s} : memory'[t] = memory[t]
    <3>1. memory = [t \in Segments |-> memory[t]]
      BY DEF Consistent, MemoryOK
    <3> QED BY <1>1, <2>1, <3>1
  <2>6. TypeOK'
    <3>1. \A t \in Segments : memory'[t] \in {<< >>} \cup [Longs(t) -> Address]
      BY <1>0, <2>5, ImageAssumption DEF TypeOK
    <3>2. world' \in World
      BY <1>2 DEF Holding
    <3> QED BY <1>0, <1>3, <2>4, <3>1, <3>2 DEF TypeOK
  <2>7. LedgerOK'
    BY <1>1, <1>5, <1>6, <1>7, <2>3, <2>4 DEF LedgerOK, LoadHeld
  <2>8. LoadOK'
    BY <1>0, <1>1, <2>4 DEF LoadOK
  <2>9. EngineOK'
    <3>1. engine'.handles = 0..(load'.index - 1) /\ engine'.segments = engine'.handles
      BY <1>1, <1>3, <2>2, <2>3, <2>4
    <3>2. load'.step = "relocate" => engine'.handles = Segments
      BY <2>2, <2>4, <3>1
    <3> HIDE DEF h, l, r
    <3> QED BY <1>0, <1>1, <1>3, <2>2, <2>4, <3>1, <3>2 DEF EngineOK
  <2>10. MemoryOK'
    <3>1. \A t \in Segments : t < s => memory[t] = Images[t]
      BY <1>0 DEF Consistent, MemoryOK
    <3>2. \A t \in Segments : t < s + 1 => memory'[t] = Images[t]
      BY <1>1, <2>5, <3>1 DEF Segments
    <3>3. load'.step = "relocate" => \A t \in Segments : memory'[t] = Images[t]
      <4> SUFFICES ASSUME load'.step = "relocate", NEW t \in Segments
                   PROVE  t < s + 1
        BY <3>2
      <4>1. t \in 0..((s + 1) - 1)
        BY <2>2, <2>4
      <4> QED BY <1>1, <4>1
    <3> QED
      BY <1>1, <1>3, <2>4, <2>5, <3>2, <3>3 DEF MemoryOK, RelocationsExact
  <2> QED BY <1>8, <1>9, <2>6, <2>7, <2>8, <2>9, <2>10 DEF Consistent
<1>11. CASE fate # "copied"
  <2> DEFINE status == IF fate \in {"missing", "unlockable"}
                       THEN "ResourceMissing" ELSE "NoMemory"
             failed == FailLoad(status)
  <2>1. load' = [failed EXCEPT !.resources = r] /\ UNCHANGED memory
    BY <1>0, <1>11 DEF CopySegment
  <2>2. status \in LoadStatuses /\ status \notin {"Ok", "RelocationFailed"}
    BY DEF LoadStatuses
  <2>3. r \subseteq Segments
    BY <1>1
  <2>4. /\ load' \in Load /\ load'.step = "cleanup"
        /\ load'.status \notin {"Ok", "RelocationFailed"}
        /\ load'.libraryDb = load.libraryDb
        /\ load'.relocation = load.relocation
        /\ load'.relocations = load.relocations
        /\ load'.resources = r
    <3> HIDE DEF status, r
    <3>1. /\ failed \in Load /\ failed.step = "cleanup" /\ failed.status = status
          /\ failed.libraryDb = load.libraryDb
          /\ failed.relocation = load.relocation
          /\ failed.relocations = load.relocations
      BY <1>0, <2>2, FailedLoad
    <3> HIDE DEF failed
    <3> QED BY <2>1, <2>2, <2>3, <3>1 DEF Load
  <2>5. TypeOK'
    BY <1>0, <1>2, <1>3, <2>1, <2>4 DEF TypeOK, Holding
  <2>6. LedgerOK'
    <3> HIDE DEF r
    <3> QED BY <1>1, <1>5, <1>6, <1>7, <2>4 DEF LedgerOK, LoadHeld
  <2>7. LoadOK'
    BY <1>0, <1>1, <2>4 DEF LoadOK
  <2>8. EngineOK'
    BY <1>0, <1>1, <1>3, <1>4, <2>4 DEF EngineOK
  <2>9. MemoryOK'
    BY <1>1, <1>3, <2>1, <2>4 DEF Consistent, MemoryOK, RelocationsExact
  <2> QED BY <1>8, <1>9, <2>5, <2>6, <2>7, <2>8, <2>9 DEF Consistent
<1> QED BY <1>10, <1>11

-----------------------------------------------------------------------------
(* Relocation.                                                              *)

LEMMA TableTypes ==
    ASSUME table \in Tables
    PROVE  /\ table.version \in Nat /\ table.size \in Nat /\ table.count \in Nat
           /\ \A i \in Indices : Entry(i) \in [segment: Nat, offset: Nat]
<1>1. /\ table \in [version: Nat, size: Nat, count: Nat,
                    entries: Seq([segment: Nat, offset: Nat])]
      /\ table.count <= Len(table.entries)
  BY ImageAssumption
<1>2. ASSUME NEW i \in Indices
      PROVE  Entry(i) \in [segment: Nat, offset: Nat]
  <2> DEFINE e == table.entries
  <2>1. e \in Seq([segment: Nat, offset: Nat])
    BY <1>1
  <2>2. table.count \in Nat /\ table.count <= Len(e)
    BY <1>1
  <2>3. Entry(i) = e[i + 1]
    BY DEF Entry
  <2> HIDE DEF e
  <2>4. i + 1 \in 1..Len(e)
    BY <1>2, <2>1, <2>2 DEF Indices
  <2> QED BY <2>1, <2>3, <2>4, ElementOfSeq
<1> QED BY <1>1, <1>2

(* The part of the table that is scanned holds every entry of the segment.  *)
LEMMA ScannedAll ==
    ASSUME table \in Tables, NEW s
    PROVE  Scanned(s) = OfSegment(s)
<1>a. table.count \in Nat /\ OfSegment(s) \subseteq Indices
  BY TableTypes DEF OfSegment
<1>1. CASE OfSegment(s) = {}
  <2>1. First(s) = table.count /\ Limit(s) = 0
    BY <1>1 DEF First, Limit
  <2>2. table.count..(0 - 1) = {}
    BY <1>a
  <2> QED BY <1>1, <2>1, <2>2 DEF Scanned
<1>2. CASE OfSegment(s) # {}
  <2>1. /\ First(s) \in OfSegment(s)
        /\ \A i \in OfSegment(s) : First(s) <= i
    <3>1. \E i \in OfSegment(s) : \A j \in OfSegment(s) : i <= j
      BY <1>a, <1>2, LeastNatural DEF Indices
    <3>2. First(s) = CHOOSE i \in OfSegment(s) : \A j \in OfSegment(s) : i <= j
      BY <1>2 DEF First
    <3> QED BY <3>1, <3>2
  <2> DEFINE last == CHOOSE i \in OfSegment(s) : \A j \in OfSegment(s) : i >= j
  <2>2. last \in OfSegment(s) /\ \A i \in OfSegment(s) : last >= i
    <3>1. \E i \in OfSegment(s) : \A j \in OfSegment(s) : i >= j
      <4>1. table.count - 1 \in Nat
        BY <1>a, <1>2 DEF Indices
      <4> QED BY <1>a, <1>2, <4>1, GreatestNatural DEF Indices
    <3> QED BY <3>1
  <2>3. Limit(s) = 1 + last
    BY <1>2 DEF Limit
  <2> HIDE DEF last
  <2>4. OfSegment(s) \subseteq First(s)..(Limit(s) - 1)
    BY <1>a, <2>1, <2>2, <2>3 DEF Indices
  <2>5. First(s)..(Limit(s) - 1) \subseteq Indices
    BY <1>a, <2>1, <2>2, <2>3 DEF Indices
  <2> QED BY <2>4, <2>5 DEF Scanned, OfSegment
<1> QED BY <1>1, <1>2

LEMMA PatchesAre ==
    ASSUME table \in Tables, NEW s \in Segments
    PROVE  Patches(s) <=> \A i \in OfSegment(s) : Entry(i).offset \in Longs(s)
<1>1. \A i \in OfSegment(s) : Entry(i).offset \in Nat
  BY TableTypes DEF OfSegment
<1>2. Sizes[s] \in Nat
  BY ImageAssumption
<1>3. \A o \in Nat : InBounds(s, o) <=> o \in Longs(s)
  BY <1>2 DEF InBounds, Longs
<1> QED BY <1>1, <1>3, ScannedAll DEF Patches

(* All segments are relocated when the table is well formed and no manager  *)
(* refuses, and then every entry has been applied.                          *)
LEMMA ReachedAll ==
    ASSUME table \in Tables, NEW refused \in 0..SegmentCount
    PROVE  /\ Reached(refused) = SegmentCount => WellFormed
           /\ refused = SegmentCount /\ WellFormed => Reached(refused) = SegmentCount
           /\ WellFormed => AppliedCount = table.count
<1> DEFINE bad == {s \in Segments : ~Patches(s) \/ s = refused}
<1>a. /\ table.version \in Nat /\ table.size \in Nat /\ table.count \in Nat
      /\ \A i \in Indices : Entry(i) \in [segment: Nat, offset: Nat]
  BY TableTypes
<1>b. SegmentCount \notin Segments /\ 0 # SegmentCount
  BY CountAssumption DEF Segments
<1>c. bad # {} => FirstOf(bad) \in bad
  <2>1. SUFFICES ASSUME bad # {} PROVE FirstOf(bad) \in bad
    OBVIOUS
  <2>2. bad \subseteq Nat
    BY DEF Segments
  <2>3. \E i \in bad : \A j \in bad : i <= j
    <3> HIDE DEF bad
    <3> QED BY <2>1, <2>2, LeastNatural
  <2> HIDE DEF bad
  <2> QED BY <2>3 DEF FirstOf
<1>1. ASSUME Reached(refused) = SegmentCount
      PROVE  WellFormed
  <2>1. HeaderFits /\ \A i \in Indices : Entry(i).segment \in Segments
    BY <1>1, <1>b DEF Reached
  <2>2. bad = {}
    BY <1>1, <1>b, <1>c, <2>1 DEF Reached
  <2>3. \A i \in Indices : Entry(i).offset \in Longs(Entry(i).segment)
    <3> TAKE i \in Indices
    <3>1. Patches(Entry(i).segment) /\ i \in OfSegment(Entry(i).segment)
      BY <2>1, <2>2 DEF OfSegment
    <3> QED BY <2>1, <3>1, PatchesAre
  <2> QED BY <2>1, <2>3 DEF WellFormed, HeaderFits
<1>2. ASSUME refused = SegmentCount, WellFormed
      PROVE  Reached(refused) = SegmentCount
  <2>1. HeaderFits /\ \A i \in Indices : Entry(i).segment \in Segments
    BY <1>2, <1>a DEF WellFormed, HeaderFits
  <2>2. bad = {}
    BY <1>2, <1>b, PatchesAre DEF WellFormed, OfSegment
  <2> QED BY <2>1, <2>2 DEF Reached
<1>3. ASSUME WellFormed
      PROVE  AppliedCount = table.count
  <2>1. UNION {Scanned(s) : s \in Segments} = Indices
    <3>1. \A s \in Segments : Scanned(s) = OfSegment(s)
      BY ScannedAll
    <3>2. \A i \in Indices : \E s \in Segments : i \in OfSegment(s)
      BY <1>3 DEF WellFormed, OfSegment
    <3>3. \A s \in Segments : OfSegment(s) \subseteq Indices
      BY DEF OfSegment
    <3> QED BY <3>1, <3>2, <3>3
  <2>2. Cardinality(Indices) = table.count
    <3>1. 0 \in Int /\ table.count - 1 \in Int
      BY <1>a
    <3>2. Cardinality(0..(table.count - 1))
             = IF 0 > table.count - 1 THEN 0 ELSE table.count - 1 - 0 + 1
      BY <3>1, FS_Interval
    <3> QED BY <1>a, <3>2 DEF Indices
  <2> QED BY <2>1, <2>2 DEF AppliedCount
<1> QED BY <1>1, <1>2, <1>3

LEMMA PatchedExact ==
    ASSUME table \in Tables, NEW s \in Segments, NEW o \in Longs(s)
    PROVE  Patched(s, Images[s])[o] =
              IF \E i \in Indices : Entry(i) = [segment |-> s, offset |-> o]
              THEN RuntimeAddress(Images[s][o]) ELSE Images[s][o]
<1>1. DOMAIN Images[s] = Longs(s)
  BY ImageAssumption
<1>2. (\E i \in Scanned(s) : Entry(i).offset = o)
         <=> \E i \in Indices : Entry(i) = [segment |-> s, offset |-> o]
  BY TableTypes, ScannedAll DEF OfSegment
<1> QED BY <1>1, <1>2 DEF Patched

LEMMA PatchedType ==
    ASSUME NEW s \in Segments, NEW image \in [Longs(s) -> Address]
    PROVE  Patched(s, image) \in [Longs(s) -> Address]
<1>1. \A a \in Address : RuntimeAddress(a) \in Address
  BY DEF RuntimeAddress, Address
<1> QED BY <1>1 DEF Patched

LEMMA GetRelocationsStep == ASSUME Consistent, GetRelocations PROVE Consistent'
<1> DEFINE got  == Acquire(world, Single("relocation"))
           both == Acquire(got, Single("relocationLock"))
<1>0. /\ TypeOK /\ LedgerOK /\ LoadOK /\ EngineOK /\ MemoryOK
      /\ load.step = "relocate" /\ load \in Load /\ table \in Tables
      /\ world \in World /\ ~world.misused
      /\ UNCHANGED <<engine, armlet, aes, table>>
  BY DEF Consistent, GetRelocations, TypeOK, LedgerOK
<1>1. /\ engine.workDb /\ ~engine.loaded
      /\ engine.handles = Segments /\ engine.segments = Segments
      /\ load.libraryDb /\ ~load.relocation /\ ~load.relocations /\ load.resources = {}
      /\ engine.control = NoEngine.control /\ ~engine.control[0].initialized
      /\ load.protocol \in Protocols
  BY <1>0, ConstantTypes DEF EngineOK, LoadOK, NoEngine, FreeControl
<1>2. Holding(got, world, world.held \cup {Single("relocation")})
  BY <1>0, <1>1, AcquireFine, Bases, ThingsAre DEF LedgerOK, LoadHeld
<1>3. Holding(both, world,
              world.held \cup {Single("relocation"), Single("relocationLock")})
  <2> HIDE DEF got
  <2>1. Single("relocationLock") \notin got.held
    BY <1>0, <1>1, <1>2, Distinct DEF LedgerOK, LoadHeld, Holding
  <2>2. Holding(both, got, got.held \cup {Single("relocationLock")})
    BY <1>2, <2>1, AcquireFine, Bases, ThingsAre DEF Holding
  <2> QED BY <1>2, <2>2 DEF Holding
<1> HIDE DEF got, both
<1>4. ArmletOK' /\ KeysOK(armlet, aes)'
  BY <1>0 DEF Consistent, ArmletOK, KeysOK
<1>5. ASSUME NEW H \in SUBSET {Single("relocation"), Single("relocationLock")},
             Holding(world', world, world.held \cup H)
      PROVE  /\ EngineHeld(world)' /\ RunningHeld(world)'
             /\ Single("libraryDb") \in world'.held
             /\ \A s \in Segments : <<"resource", s>> \notin world'.held
             /\ \A s \in Segments : <<"resourceLock", s>> \notin world'.held
  <2>1. EngineHeld(world)'
    BY <1>0, <1>5, Distinct DEF LedgerOK, EngineHeld, Holding
  <2>2. RunningHeld(world)'
    BY <1>0, <1>5, Distinct DEF LedgerOK, RunningHeld, Holding, ArmletThings
  <2>3. /\ \A s \in Segments : <<"resource", s>> \notin world.held
        /\ \A s \in Segments : <<"resourceLock", s>> \notin world.held
    BY <1>0, <1>1 DEF LedgerOK, LoadHeld
  <2> QED BY <1>0, <1>1, <1>5, <2>1, <2>2, <2>3, Distinct
          DEF LedgerOK, LoadHeld, Holding
(* Whatever the step does, the load is in order if it says what it holds.   *)
<1>6. ASSUME NEW H \in SUBSET {Single("relocation"), Single("relocationLock")},
             Holding(world', world, world.held \cup H),
             load' \in Load, load'.step \in {"start", "cleanup"},
             load'.step = "cleanup" => load'.status # "Ok",
             load'.libraryDb, load'.resources = {},
             load'.relocation <=> Single("relocation") \in H,
             load'.relocations <=> Single("relocationLock") \in H,
             load'.relocations => load'.relocation,
             load'.step = "start" => load'.relocations,
             load'.protocol = load.protocol,
             \A s \in Segments : memory'[s] \in {<< >>} \cup [Longs(s) -> Address],
             MemoryOK'
      PROVE  Consistent'
  <2>1. TypeOK'
    BY <1>0, <1>6 DEF TypeOK, Holding
  <2>2. LedgerOK'
    <3>1. /\ Single("relocation") \notin world.held
          /\ Single("relocationLock") \notin world.held
      BY <1>0, <1>1 DEF LedgerOK, LoadHeld
    <3>2. LoadHeld(world)'
      BY <1>5, <1>6, <3>1 DEF LoadHeld, Holding
    <3> QED BY <1>5, <1>6, <3>2 DEF LedgerOK, Holding
  <2>3. StorageOK'
    BY <1>0, <1>6 DEF Consistent, StorageOK, Holding
  <2>4. LoadOK'
    BY <1>1, <1>6 DEF LoadOK
  <2>5. EngineOK'
    BY <1>0, <1>1, <1>6 DEF EngineOK
  <2> QED BY <1>4, <1>6, <2>1, <2>2, <2>3, <2>4, <2>5 DEF Consistent
<1>a. "ResourceMissing" \in LoadStatuses /\ "RelocationFailed" \in LoadStatuses
  BY DEF LoadStatuses
<1>7. CASE load' = FailLoad("ResourceMissing") /\ UNCHANGED <<world, memory>>
  <2>1. /\ load' \in Load /\ load'.step = "cleanup" /\ load'.fault
        /\ load'.status = "ResourceMissing"
        /\ load'.libraryDb = load.libraryDb
        /\ load'.relocation = load.relocation
        /\ load'.relocations = load.relocations
        /\ load'.resources = load.resources
        /\ load'.protocol = load.protocol
    BY <1>0, <1>7, <1>a, FailedLoad
  <2>2. Holding(world', world, world.held \cup {})
    BY <1>0, <1>7 DEF Holding
  <2>3. MemoryOK'
    BY <1>0, <1>1, <1>7, <2>1 DEF MemoryOK, RelocationsExact
  <2>4. \A s \in Segments : memory'[s] \in {<< >>} \cup [Longs(s) -> Address]
    BY <1>0, <1>7 DEF TypeOK
  <2> QED BY <1>1, <1>6, <2>1, <2>2, <2>3, <2>4
<1>8. CASE /\ load' = [FailLoad("RelocationFailed") EXCEPT !.relocation = TRUE]
           /\ world' = got
           /\ UNCHANGED memory
  <2> DEFINE failed == FailLoad("RelocationFailed")
  <2>1. /\ failed \in Load /\ failed.step = "cleanup" /\ failed.fault
        /\ failed.status = "RelocationFailed"
        /\ failed.libraryDb = load.libraryDb
        /\ failed.relocations = load.relocations
        /\ failed.resources = load.resources
        /\ failed.protocol = load.protocol
    BY <1>0, <1>a, FailedLoad
  <2> HIDE DEF failed
  <2>2. /\ load' \in Load /\ load'.step = "cleanup" /\ load'.fault
        /\ load'.status = "RelocationFailed"
        /\ load'.libraryDb /\ load'.relocation /\ ~load'.relocations
        /\ load'.resources = {} /\ load'.protocol = load.protocol
    BY <1>1, <1>8, <2>1 DEF Load, failed
  <2>3. MemoryOK'
    BY <1>0, <1>1, <1>8, <2>2 DEF MemoryOK, RelocationsExact
  <2>4. \A s \in Segments : memory'[s] \in {<< >>} \cup [Longs(s) -> Address]
    BY <1>0, <1>8 DEF TypeOK
  <2>5. Single("relocationLock") \notin {Single("relocation")}
    BY Distinct
  <2> QED BY <1>2, <1>6, <1>8, <2>2, <2>3, <2>4, <2>5
<1>9. CASE /\ \E refused \in 0..SegmentCount : ApplyRelocations(refused)
           /\ world' = Acquire(got, Single("relocationLock"))
  <2>1. PICK refused \in 0..SegmentCount : ApplyRelocations(refused)
    BY <1>9
  <2> DEFINE all == Reached(refused) = SegmentCount /\ AppliedCount = table.count
  <2>a. Holding(world', world,
                world.held \cup {Single("relocation"), Single("relocationLock")})
    BY <1>3, <1>9 DEF both
  <2>b. /\ memory' = [s \in Segments |-> memory'[s]]
        /\ \A s \in Segments : memory'[s] \in {Images[s], Patched(s, Images[s])}
        /\ Reached(refused) = SegmentCount =>
              \A s \in Segments : memory'[s] = Patched(s, Images[s])
    <3>1. memory' = [s \in Segments |->
                        IF s < Reached(refused) THEN Patched(s, memory[s]) ELSE memory[s]]
      BY <2>1 DEF ApplyRelocations, Relocated
    <3>2. \A s \in Segments : memory[s] = Images[s]
      BY <1>0 DEF MemoryOK
    <3>3. \A s \in Segments : s < SegmentCount
      BY CountAssumption DEF Segments
    <3> QED BY <3>1, <3>2, <3>3
  <2>c. \A s \in Segments : memory'[s] \in {<< >>} \cup [Longs(s) -> Address]
    BY <2>b, PatchedType, ImageAssumption
  <2>2. CASE all
    <3>1. load' = [load EXCEPT !.step = "start", !.relocation = TRUE,
                               !.relocations = TRUE]
      BY <2>1, <2>2 DEF ApplyRelocations
    <3>2. /\ load' \in Load /\ load'.step = "start"
          /\ load'.libraryDb /\ load'.relocation /\ load'.relocations
          /\ load'.resources = {} /\ load'.protocol = load.protocol
      BY <1>0, <1>1, <3>1 DEF Load, Steps
    <3>3. WellFormed
      BY <1>0, <2>2, ReachedAll
    <3>4. \A s \in Segments : \A o \in Longs(s) :
             memory'[s][o] =
                IF \E i \in Indices : Entry(i) = [segment |-> s, offset |-> o]
                THEN RuntimeAddress(Images[s][o]) ELSE Images[s][o]
      BY <1>0, <2>2, <2>b, PatchedExact
    <3>5. WellFormed' /\ Indices' = Indices /\ \A i : Entry(i)' = Entry(i)
      BY <1>0, <3>3 DEF WellFormed, Indices, Entry
    <3>6. RelocationsExact'
      BY <3>2, <3>4, <3>5 DEF RelocationsExact
    <3>7. MemoryOK'
      BY <2>b, <3>2, <3>6 DEF MemoryOK
    <3> QED BY <1>6, <2>a, <2>c, <3>2, <3>7
  <2>3. CASE ~all
    <3> DEFINE fault == refused < SegmentCount
    <3>1. load' = [load EXCEPT !.step = "cleanup", !.relocation = TRUE,
                               !.relocations = TRUE,
                               !.status = "RelocationFailed", !.fault = fault]
      BY <2>1, <2>3 DEF ApplyRelocations
    <3>2. fault \in BOOLEAN
      OBVIOUS
    <3> HIDE DEF fault
    <3>3. /\ load' \in Load /\ load'.step = "cleanup"
          /\ load'.libraryDb /\ load'.relocation /\ load'.relocations
          /\ load'.resources = {} /\ load'.protocol = load.protocol
          /\ load'.status = "RelocationFailed" /\ load'.fault = fault
      BY <1>0, <1>1, <1>a, <3>1, <3>2 DEF Load, Steps
    <3>4. ~fault => ~WellFormed
      <4>1. ~fault => refused = SegmentCount
        BY CountAssumption DEF fault
      <4> QED BY <1>0, <2>3, <4>1, ReachedAll
    <3>5. WellFormed' <=> WellFormed
      BY <1>0 DEF WellFormed, Indices, Entry
    <3>6. RelocationsExact'
      BY <1>0, <1>1, <3>3, <3>4, <3>5 DEF RelocationsExact
    <3>7. MemoryOK'
      BY <2>b, <3>3, <3>6 DEF MemoryOK
    <3> QED BY <1>6, <2>a, <2>c, <3>3, <3>7
  <2> QED BY <2>2, <2>3
<1> QED BY <1>0, <1>7, <1>8, <1>9 DEF GetRelocations, got

-----------------------------------------------------------------------------
(* Starting the engine.                                                     *)

AdapterWhole(a) ==
    /\ a.handle = a.database
    /\ a.entry = a.database
    /\ a.request = a.database
    /\ a.enabled => a.database /\ a.status = "Passed"

LEMMA DisableFine ==
    ASSUME NEW a \in Adapter, AdapterWhole(a)
    PROVE  /\ ArmletDisable(a) \in Adapter
           /\ AdapterWhole(ArmletDisable(a))
           /\ ~ArmletDisable(a).enabled
           /\ ArmletDisable(a).database = a.database
           /\ ArmletDisable(a).keys = a.keys
<1> DEFINE status == IF a.status = "Unavailable" THEN a.status ELSE "Failed"
<1>1. ArmletDisable(a) = [a EXCEPT !.status = status, !.enabled = FALSE,
                                   !.chacha = FALSE]
  BY DEF ArmletDisable, Adapter
<1>2. status \in Statuses
  BY DEF Adapter, Statuses
<1> HIDE DEF status
<1> QED BY <1>1, <1>2 DEF Adapter, AdapterWhole

(* An initialisation that does not reach the known answers gives back what  *)
(* it took; one that does keeps all four things.                            *)
LEMMA InitializeFine ==
    ASSUME NEW w \in World, ~w.misused, NEW fate \in Fates,
           \A name \in ArmletThings : Single(name) \notin w.held
    PROVE  LET left == ArmletInitialize(Zeroed, w, fate)
           IN  /\ left.adapter \in Adapter
               /\ AdapterWhole(left.adapter)
               /\ left.adapter.keys = Zeroed.keys
               /\ Holding(left.world, w, w.held \cup
                     (IF left.adapter.database
                      THEN {Single(name) : name \in ArmletThings} ELSE {}))
<1> DEFINE D == Single("armletDb")
           A == Single("armlet")
           L == Single("armletLock")
           R == Single("armletRequest")
           found  == [Zeroed EXCEPT !.checked = TRUE, !.keys = Zeroed.keys]
           opened == Acquire(w, D)
           got    == Acquire(opened, A)
           locked == Acquire(got, L)
           full   == Acquire(locked, R)
           closed   == Release(opened, D)
           released == Release(got, A)
           unlocked == Release(locked, L)
           left == ArmletInitialize(Zeroed, w, fate)
<1>a. /\ D \in Things /\ A \in Things /\ L \in Things /\ R \in Things
      /\ Base(D) = {} /\ Base(A) = {D} /\ Base(L) = {A} /\ Base(R) = {}
      /\ {Single(name) : name \in ArmletThings} = {D, A, L, R}
  BY ThingsAre, Bases DEF ArmletThings
<1>b. /\ D \notin w.held /\ A \notin w.held /\ L \notin w.held /\ R \notin w.held
      /\ w.held \subseteq Things
  BY DEF ArmletThings, World
<1>c. D # A /\ D # L /\ D # R /\ A # L /\ A # R /\ L # R
  BY Distinct
<1>d. /\ \A y \in Things : D \in Base(y) => y = A
      /\ \A y \in Things : A \in Base(y) => y = L
      /\ \A y \in Things : L \notin Base(y)
  <2>1. \A y \in Things : D \in Base(y) => y = A
    BY StandingOn, Distinct
  <2>2. \A y \in Things : A \in Base(y) => y = L
    BY StandingOn, Distinct
  <2>3. \A y \in Things : L \notin Base(y)
    BY StandingOn, Distinct
  <2> QED BY <2>1, <2>2, <2>3
<1> HIDE DEF D, A, L, R
<1>1. Holding(opened, w, w.held \cup {D})
  BY <1>a, <1>b, AcquireFine
<1>2. Holding(got, w, w.held \cup {D, A})
  <2> HIDE DEF opened
  <2>1. Holding(got, opened, opened.held \cup {A})
    BY <1>1, <1>a, <1>b, <1>c, AcquireFine DEF Holding
  <2> QED BY <1>1, <2>1 DEF Holding
<1>3. Holding(locked, w, w.held \cup {D, A, L})
  <2> HIDE DEF got
  <2>1. Holding(locked, got, got.held \cup {L})
    BY <1>2, <1>a, <1>b, <1>c, AcquireFine DEF Holding
  <2> QED BY <1>2, <2>1 DEF Holding
<1>4. Holding(full, w, w.held \cup {D, A, L, R})
  <2> HIDE DEF locked
  <2>1. Holding(full, locked, locked.held \cup {R})
    BY <1>3, <1>a, <1>b, <1>c, AcquireFine DEF Holding
  <2> QED BY <1>3, <2>1 DEF Holding
(* What is released is what holding H gives back to holding H \ {x}.        *)
<1>5. ASSUME NEW v, NEW H, NEW x, Holding(v, w, H), x \in H,
             \A y \in H : x \notin Base(y)
      PROVE  Holding(Release(v, x), w, H \ {x})
  <2>1. Holding(Release(v, x), v, v.held \ {x})
    BY <1>5, ReleaseFine DEF Holding, Bare
  <2> QED BY <1>5, <2>1 DEF Holding
<1>6. Holding(closed, w, w.held)
  <2> HIDE DEF opened
  <2>1. \A y \in w.held \cup {D} : D \notin Base(y)
    BY <1>a, <1>b, <1>c, <1>d
  <2>2. Holding(closed, w, (w.held \cup {D}) \ {D})
    BY <1>1, <1>5, <2>1
  <2>3. (w.held \cup {D}) \ {D} = w.held
    BY <1>b
  <2> QED BY <2>2, <2>3
<1>7. ASSUME NEW v, Holding(v, w, w.held \cup {D, A})
      PROVE  Holding(Release(Release(v, A), D), w, w.held)
  <2> DEFINE u == Release(v, A)
  <2>1. \A y \in w.held \cup {D, A} : A \notin Base(y)
    BY <1>a, <1>b, <1>c, <1>d
  <2>2. Holding(u, w, (w.held \cup {D, A}) \ {A})
    BY <1>5, <1>7, <2>1
  <2>3. (w.held \cup {D, A}) \ {A} = w.held \cup {D}
    BY <1>b, <1>c
  <2> HIDE DEF u
  <2>4. \A y \in w.held \cup {D} : D \notin Base(y)
    BY <1>a, <1>b, <1>c, <1>d
  <2>5. Holding(u, w, w.held \cup {D})
    BY <2>2, <2>3
  <2>6. Holding(Release(u, D), w, (w.held \cup {D}) \ {D})
    BY <1>5, <2>4, <2>5
  <2>7. (w.held \cup {D}) \ {D} = w.held
    BY <1>b
  <2> QED BY <2>6, <2>7 DEF u
<1>8. Holding(unlocked, w, w.held \cup {D, A})
  <2> HIDE DEF locked
  <2>1. \A y \in w.held \cup {D, A, L} : L \notin Base(y)
    BY <1>a, <1>b, <1>d
  <2>2. Holding(unlocked, w, (w.held \cup {D, A, L}) \ {L})
    BY <1>3, <1>5, <2>1
  <2>3. (w.held \cup {D, A, L}) \ {L} = w.held \cup {D, A}
    BY <1>b, <1>c
  <2> QED BY <2>2, <2>3
<1>9. /\ found \in Adapter /\ AdapterWhole(found) /\ ~found.database
      /\ found.keys = Zeroed.keys
  <2>1. Zeroed \in Adapter /\ AdapterWhole(Zeroed) /\ ~Zeroed.database
    BY ConstantTypes DEF AdapterWhole, Zeroed
  <2> QED BY <2>1 DEF Adapter, AdapterWhole
<1>10. ASSUME fate \notin Absent
       PROVE  /\ Qualified(found, fate) \in Adapter
              /\ AdapterWhole(Qualified(found, fate))
              /\ Qualified(found, fate).database
              /\ Qualified(found, fate).keys = Zeroed.keys
  <2> DEFINE enabled == fate # "Wrong"
             chacha  == fate = "Right"
             status  == IF fate = "Wrong" THEN "Failed" ELSE "Passed"
  <2>1. Qualified(found, fate) =
           [found EXCEPT !.database = TRUE, !.handle = TRUE, !.entry = TRUE,
                         !.request = TRUE, !.enabled = enabled,
                         !.chacha = chacha, !.status = status]
    BY DEF Qualified
  <2>2. /\ enabled \in BOOLEAN /\ chacha \in BOOLEAN /\ status \in Statuses
        /\ enabled => status = "Passed"
    BY DEF Statuses
  <2> HIDE DEF found, enabled, chacha, status
  <2> QED BY <1>9, <2>1, <2>2 DEF Adapter, AdapterWhole
<1>11. ~Zeroed.checked
  BY DEF Zeroed
<1> HIDE DEF found, opened, closed, got, locked, unlocked, full
<1>12. CASE fate \in {"NotArm", "NoDatabase"}
  <2>1. left = [adapter |-> found, world |-> w]
    BY <1>11, <1>12 DEF ArmletInitialize, found
  <2>2. Holding(w, w, w.held)
    BY DEF Holding
  <2> QED BY <1>9, <2>1, <2>2
<1>13. CASE fate \in {"NoResource", "NoHandle"}
  <2>1. left = [adapter |-> found, world |-> closed]
    BY <1>11, <1>13 DEF ArmletInitialize, found, closed, opened, D
  <2> QED BY <1>6, <1>9, <2>1
<1>14. CASE fate = "NoLock"
  <2>1. left = [adapter |-> found, world |-> Release(Release(got, A), D)]
    BY <1>11, <1>14 DEF ArmletInitialize, found, got, opened, D, A
  <2> QED BY <1>2, <1>7, <1>9, <2>1
<1>15. CASE fate = "NoMemory"
  <2>1. left = [adapter |-> found, world |-> Release(Release(unlocked, A), D)]
    BY <1>11, <1>15 DEF ArmletInitialize, found, unlocked, locked, got, opened, D, A, L
  <2> QED BY <1>7, <1>8, <1>9, <2>1
<1>16. CASE fate \notin Absent
  <2>1. left = [adapter |-> Qualified(found, fate), world |-> full]
    BY <1>11, <1>16
    DEF ArmletInitialize, Absent, found, full, locked, got, opened, D, A, L, R
  <2>2. Qualified(found, fate).database
    BY <1>10, <1>16
  <2> QED BY <1>4, <1>10, <1>16, <1>a, <2>1, <2>2
<1> QED BY <1>12, <1>13, <1>14, <1>15, <1>16 DEF Fates, Absent

(* The keys of the adapter are in order whatever else changes in it.        *)
LEMMA KeysOnly ==
    ASSUME NEW a, NEW b, NEW keyOf, a.keys = b.keys, KeysOK(b, keyOf)
    PROVE  KeysOK(a, keyOf)
  BY DEF KeysOK

(* What the self-test of the key pair leaves of an adapter.                 *)
LEMMA ValidateFine ==
    ASSUME NEW a \in Adapter, AdapterWhole(a), NEW right \in BOOLEAN
    PROVE  LET verdict == ValidateArmMath(a, right)
           IN  /\ verdict.adapter \in Adapter
               /\ AdapterWhole(verdict.adapter)
               /\ verdict.adapter.database = a.database
               /\ verdict.adapter.keys = a.keys
               /\ verdict.status \in Statuses
               /\ verdict.adapter.enabled => verdict.status = "Passed"
<1>1. CASE a.status = "Passed" /\ ~right
  <2>1. ValidateArmMath(a, right) = [adapter |-> ArmletDisable(a), status |-> "Failed"]
    BY <1>1 DEF ValidateArmMath
  <2>2. "Failed" \in Statuses
    BY DEF Statuses
  <2> QED BY <2>1, <2>2, DisableFine
<1>2. CASE ~(a.status = "Passed" /\ ~right)
  <2>1. ValidateArmMath(a, right) = [adapter |-> a, status |-> a.status]
    BY <1>2 DEF ValidateArmMath
  <2>2. a.status \in Statuses
    BY DEF Adapter
  <2> QED BY <2>1, <2>2 DEF AdapterWhole
<1> QED BY <1>1, <1>2

LEMMA StartStep ==
    ASSUME Consistent, NEW fate \in Fates, NEW wolfSSL \in BOOLEAN,
           NEW right \in BOOLEAN, Start(fate, wolfSSL, right)
    PROVE  Consistent'
<1> DEFINE entered   == Enter(world)
           begun     == ArmletInitialize(armlet, entered, fate)
           permitted == IF load.disable THEN ArmletDisable(begun.adapter)
                        ELSE begun.adapter
           verdict   == ValidateArmMath(permitted, right)
           taken     == IF begun.adapter.database
                        THEN {Single(name) : name \in ArmletThings} ELSE {}
<1>0. /\ TypeOK /\ LedgerOK /\ LoadOK /\ EngineOK /\ MemoryOK
      /\ load.step = "start" /\ load \in Load /\ engine \in Engine
      /\ world \in World /\ ~world.misused
      /\ UNCHANGED <<memory, aes, table>>
  BY DEF Consistent, Start, TypeOK, LedgerOK
<1>1. /\ engine.workDb /\ ~engine.loaded
      /\ engine.handles = Segments /\ engine.segments = Segments
      /\ load.libraryDb /\ load.relocation /\ load.relocations /\ load.resources = {}
      /\ engine.control = NoEngine.control
      /\ armlet = Zeroed /\ aes = NoKeys
      /\ load.protocol \in Protocols
  BY <1>0 DEF EngineOK, LoadOK
<1>2. /\ ~engine.control[0].initialized
      /\ \A s \in Slots : ~engine.control[s].context
      /\ ~armlet.database
  BY <1>1, ConstantTypes DEF NoEngine, FreeControl, Zeroed
<1>3. Holding(entered, world, world.held)
  BY <1>0, <1>1, EnterFine DEF LedgerOK, EngineHeld
<1>4. /\ begun.adapter \in Adapter
      /\ AdapterWhole(begun.adapter)
      /\ begun.adapter.keys = Zeroed.keys
      /\ Holding(begun.world, world, world.held \cup taken)
  <2> HIDE DEF entered
  <2>1. /\ entered \in World /\ ~entered.misused /\ entered.held = world.held
    BY <1>3 DEF Holding
  <2>2. \A name \in ArmletThings : Single(name) \notin entered.held
    BY <1>0, <1>2, <2>1 DEF LedgerOK, RunningHeld
  <2>3. /\ begun.adapter \in Adapter
        /\ AdapterWhole(begun.adapter)
        /\ begun.adapter.keys = Zeroed.keys
        /\ Holding(begun.world, entered, entered.held \cup taken)
    BY <1>1, <2>1, <2>2, InitializeFine
  <2> QED BY <1>3, <2>3 DEF Holding
<1>5. /\ permitted \in Adapter
      /\ AdapterWhole(permitted)
      /\ permitted.database = begun.adapter.database
      /\ permitted.keys = Zeroed.keys
  <2> HIDE DEF begun
  <2> QED BY <1>4, DisableFine
<1>6. /\ verdict.adapter \in Adapter
      /\ AdapterWhole(verdict.adapter)
      /\ verdict.adapter.database = begun.adapter.database
      /\ verdict.adapter.keys = Zeroed.keys
      /\ verdict.status \in Statuses
      /\ verdict.adapter.enabled => verdict.status = "Passed"
  <2> HIDE DEF permitted, begun
  <2> QED BY <1>5, ValidateFine
<1>7. KeysOK(Zeroed, NoKeys)
  BY DEF KeysOK, Zeroed, FreeEntry, NoKeys
<1>8. WellFormed' = WellFormed /\ (RelocationsExact => WellFormed)
      /\ \A i : Entry(i)' = Entry(i)
  BY <1>0 DEF WellFormed, RelocationsExact, Indices, Entry
<1>9. ASSUME load'.step = "cleanup", load'.status # "RelocationFailed"
      PROVE  MemoryOK'
  <2>1. Indices' = Indices
    BY <1>0 DEF Indices
  <2> QED BY <1>0, <1>8, <1>9, <2>1 DEF MemoryOK, RelocationsExact
<1> HIDE DEF entered, begun, permitted, verdict, taken
<1>a. begun.world \in World /\ ~begun.world.misused
      /\ begun.world.held = world.held \cup taken
  BY <1>4 DEF Holding
<1>b. taken \subseteq {Single(name) : name \in ArmletThings}
      /\ \A name \in ArmletThings : Single(name) \in taken <=> begun.adapter.database
  BY Distinct DEF taken
<1>c. /\ LoadHeld(begun.world) /\ EngineHeld(begun.world)
      /\ \A s \in Slots : <<"context", s>> \notin begun.world.held
      /\ Single("wolfSSL") \notin begun.world.held
      /\ \A name \in ArmletThings : Single(name) \in begun.world.held <=> begun.adapter.database
  <2>1. LoadHeld(begun.world)
    BY <1>0, <1>a, <1>b, Distinct DEF LedgerOK, LoadHeld, ArmletThings
  <2>2. EngineHeld(begun.world)
    BY <1>0, <1>a, <1>b, Distinct DEF LedgerOK, EngineHeld, ArmletThings
  <2>3. /\ \A s \in Slots : <<"context", s>> \notin begun.world.held
        /\ Single("wolfSSL") \notin begun.world.held
    BY <1>0, <1>2, <1>a, <1>b, Distinct DEF LedgerOK, RunningHeld, ArmletThings
  <2>4. \A name \in ArmletThings : Single(name) \in begun.world.held <=> begun.adapter.database
    BY <1>0, <1>2, <1>a, <1>b DEF LedgerOK, RunningHeld
  <2> QED BY <2>1, <2>2, <2>3, <2>4
<1>10. CASE wolfSSL
  <2>1. /\ world' = Acquire(begun.world, Single("wolfSSL"))
        /\ armlet' = verdict.adapter
        /\ engine' = [engine EXCEPT
              !.loaded = TRUE, !.protocol = load.protocol,
              !.control[0].initialized = TRUE,
              !.control[0].status = verdict.status]
        /\ load' = [load EXCEPT !.step = "cleanup", !.status = "Ok"]
    BY <1>10 DEF Start, verdict, permitted, begun, entered
  <2>2. Holding(world', begun.world, begun.world.held \cup {Single("wolfSSL")})
    BY <1>a, <1>c, <2>1, AcquireFine, Bases, ThingsAre
  <2>3. /\ load' \in Load /\ load'.step = "cleanup" /\ load'.status = "Ok"
        /\ load'.libraryDb = load.libraryDb
        /\ load'.relocation = load.relocation
        /\ load'.relocations = load.relocations
        /\ load'.resources = load.resources
    BY <1>0, <2>1 DEF Load, Steps, LoadStatuses
  <2>4. /\ engine' \in Engine /\ engine'.loaded
        /\ engine'.workDb = engine.workDb /\ engine'.workDbID = engine.workDbID
        /\ engine'.handles = engine.handles /\ engine'.segments = engine.segments
        /\ engine'.control[0].initialized
        /\ engine'.control[0].status = verdict.status
        /\ \A s \in Slots : /\ engine'.control[s].context = engine.control[s].context
                            /\ engine'.control[s].open = engine.control[s].open
    <3> DEFINE c0 == [engine.control[0] EXCEPT !.initialized = TRUE,
                                               !.status = verdict.status]
    <3>1. engine' = [engine EXCEPT !.loaded = TRUE, !.protocol = load.protocol,
                        !.control = [engine.control EXCEPT ![0] = c0]]
      BY <1>0, <2>1, ConstantTypes DEF Engine, SlotControl
    <3>2. /\ c0 \in SlotControl /\ c0.initialized /\ c0.status = verdict.status
          /\ c0.context = engine.control[0].context
          /\ c0.open = engine.control[0].open
      <4>1. engine.control[0] \in SlotControl
        BY <1>0, ConstantTypes DEF Engine
      <4>2. verdict.status \in Statuses
        BY <1>6
      <4> HIDE DEF verdict
      <4> QED BY <4>1, <4>2 DEF SlotControl
    <3> HIDE DEF c0
    <3> QED BY <1>0, <1>1, <3>1, <3>2, ConstantTypes DEF Engine
  <2>5. TypeOK'
    BY <1>0, <1>6, <2>1, <2>2, <2>3, <2>4 DEF TypeOK, Holding
  <2>6. LedgerOK'
    <3> DEFINE w == begun.world
    <3>0. world'.held = w.held \cup {Single("wolfSSL")}
      BY <2>2 DEF Holding
    <3>a. LoadHeld(w) /\ EngineHeld(w)
      BY <1>c
    <3> HIDE DEF w
    <3>1. LoadHeld(world)'
      BY <3>0, <3>a, <2>3, Distinct DEF LoadHeld
    <3>2. EngineHeld(world)'
      BY <3>0, <3>a, <2>4, Distinct DEF EngineHeld
    <3>3. RunningHeld(world)'
      <4>1. \A s \in Slots : <<"context", s>> \in world'.held <=> engine'.control[s].context
        <5>1. \A s \in Slots : <<"context", s>> \notin w.held
          BY <1>c DEF w
        <5>2. \A s \in Slots : <<"context", s>> \notin world'.held
          <6>1. \A s \in Slots : <<"context", s>> # Single("wolfSSL")
            BY Distinct
          <6> QED BY <3>0, <5>1, <6>1
        <5>3. \A s \in Slots : ~engine'.control[s].context
          BY <1>2, <2>4
        <5> QED BY <5>2, <5>3
      <4>2. \A name \in ArmletThings : Single(name) \in world'.held <=> armlet'.database
        <5>1. \A name \in ArmletThings : Single(name) \in w.held <=> begun.adapter.database
          BY <1>c DEF w
        <5>2. \A name \in ArmletThings : Single(name) # Single("wolfSSL")
          BY Distinct DEF ArmletThings
        <5>3. armlet'.database = begun.adapter.database
          BY <1>6, <2>1
        <5> QED BY <3>0, <5>1, <5>2, <5>3
      <4>3. Single("wolfSSL") \in world'.held
        BY <3>0
      <4> QED BY <2>4, <4>1, <4>2, <4>3 DEF RunningHeld
    <3> QED BY <2>2, <3>1, <3>2, <3>3 DEF LedgerOK, Holding
  <2>7. StorageOK'
    BY <1>0, <1>4, <2>2, <2>3, <2>4 DEF Consistent, StorageOK, Holding
  <2>8. LoadOK'
    BY <1>0, <1>1, <2>3 DEF LoadOK
  <2>9. EngineOK'
    BY <1>0, <1>1, <1>2, <2>3, <2>4 DEF EngineOK
  <2>10. ArmletOK'
    BY <1>6, <2>1, <2>4 DEF ArmletOK, AdapterWhole
  <2>11. KeysOK(armlet, aes)'
    BY <1>0, <1>1, <1>6, <1>7, <2>1, KeysOnly
  <2> QED BY <1>9, <2>3, <2>5, <2>6, <2>7, <2>8, <2>9, <2>10, <2>11 DEF Consistent
<1>11. CASE ~wolfSSL
  <2>1. /\ world' = begun.world
        /\ armlet' = permitted
        /\ engine' = [engine EXCEPT !.loaded = TRUE, !.protocol = load.protocol]
        /\ load' = FailLoad("InitializationFailed")
    BY <1>11 DEF Start, permitted, begun, entered
  <2>2. "InitializationFailed" \in LoadStatuses
    BY DEF LoadStatuses
  <2>3. /\ load' \in Load /\ load'.step = "cleanup"
        /\ load'.status = "InitializationFailed"
        /\ load'.libraryDb = load.libraryDb
        /\ load'.relocation = load.relocation
        /\ load'.relocations = load.relocations
        /\ load'.resources = load.resources
    BY <1>0, <2>1, <2>2, FailedLoad
  <2>4. /\ engine' \in Engine /\ engine'.loaded
        /\ engine'.workDb = engine.workDb /\ engine'.workDbID = engine.workDbID
        /\ engine'.handles = engine.handles /\ engine'.segments = engine.segments
        /\ engine'.control = engine.control
    BY <1>0, <1>1, <2>1 DEF Engine
  <2>5. TypeOK'
    BY <1>0, <1>5, <1>a, <2>1, <2>3, <2>4 DEF TypeOK
  <2>6. LedgerOK'
    <3>1. LoadHeld(world)' /\ EngineHeld(world)'
      BY <1>c, <2>1, <2>3, <2>4 DEF LoadHeld, EngineHeld
    <3>2. RunningHeld(world)'
      BY <1>2, <1>5, <1>c, <2>1, <2>4 DEF RunningHeld
    <3> QED BY <1>a, <2>1, <3>1, <3>2 DEF LedgerOK
  <2>7. StorageOK'
    BY <1>0, <1>4, <2>1, <2>3, <2>4 DEF Consistent, StorageOK, Holding
  <2>8. LoadOK'
    BY <1>0, <1>1, <2>3 DEF LoadOK
  <2>9. EngineOK'
    BY <1>0, <1>1, <1>2, <2>3, <2>4 DEF EngineOK
  <2>10. ArmletOK'
    BY <1>2, <1>5, <2>1, <2>4 DEF ArmletOK, AdapterWhole
  <2>11. KeysOK(armlet, aes)'
    BY <1>0, <1>1, <1>5, <1>7, <2>1, KeysOnly
  <2> QED BY <1>9, <2>3, <2>5, <2>6, <2>7, <2>8, <2>9, <2>10, <2>11 DEF Consistent
<1> QED BY <1>10, <1>11

-----------------------------------------------------------------------------
(* The end of a load.                                                       *)

LEMMA CleanedFine ==
    ASSUME Consistent, load.step = "cleanup"
    PROVE  /\ Holding(Cleaned(world), world, Cleaned(world).held)
           /\ LoadReleased(Cleaned(world))
           /\ EngineHeld(Cleaned(world))
           /\ RunningHeld(Cleaned(world))
<1> DEFINE R == {<<"resource", s>> : s \in load.resources}
           unlocked  == ReleaseIf(world, load.relocations, Single("relocationLock"))
           released  == ReleaseIf(unlocked, load.relocation, Single("relocation"))
           resources == ReleaseAll(released, R)
           closed    == ReleaseIf(resources, load.libraryDb, Single("libraryDb"))
           H1 == world.held \ {Single("relocationLock")}
           H2 == H1 \ {Single("relocation")}
           H3 == H2 \ R
           H4 == H3 \ {Single("libraryDb")}
<1>0. /\ TypeOK /\ LedgerOK /\ LoadOK
      /\ world \in World /\ ~world.misused /\ world.held \subseteq Things
      /\ load.relocations \in BOOLEAN /\ load.relocation \in BOOLEAN
      /\ load.libraryDb \in BOOLEAN /\ load.resources \subseteq Segments
  BY DEF Consistent, TypeOK, LedgerOK, World, Load
<1>a. /\ Single("relocationLock") \in world.held <=> load.relocations
      /\ Single("relocation") \in world.held <=> load.relocation
      /\ Single("libraryDb") \in world.held <=> load.libraryDb
      /\ \A s \in Segments : <<"resource", s>> \in world.held <=> s \in load.resources
      /\ \A s \in Segments : <<"resourceLock", s>> \notin world.held
  BY <1>0 DEF LedgerOK, LoadHeld
<1>1. Holding(unlocked, world, H1)
  <2>1. Bare(world, Single("relocationLock"))
    BY <1>0, StandingOn, Distinct DEF Bare
  <2> QED BY <1>0, <1>a, <2>1, ReleaseIfFine
<1>2. Holding(released, world, H2)
  <2> HIDE DEF unlocked
  <2>1. unlocked \in World /\ ~unlocked.misused /\ unlocked.held = H1
    BY <1>1 DEF Holding
  <2>2. Bare(unlocked, Single("relocation"))
    <3>1. \A y \in Things : Single("relocation") \in Base(y) => y = Single("relocationLock")
      BY StandingOn, Distinct
    <3> QED BY <1>0, <2>1, <3>1 DEF Bare
  <2>3. load.relocation <=> Single("relocation") \in unlocked.held
    BY <1>a, <2>1, Distinct
  <2>4. Holding(released, unlocked, H2)
    BY <1>0, <2>1, <2>2, <2>3, ReleaseIfFine
  <2> QED BY <1>1, <2>4 DEF Holding
<1>3. Holding(resources, world, H3)
  <2> HIDE DEF released
  <2>1. released \in World /\ ~released.misused /\ released.held = H2
    BY <1>2 DEF Holding
  <2>2. \A x \in R : Bare(released, x)
    <3>1. \A s, y : y \in Things /\ <<"resource", s>> \in Base(y)
                       => \E t \in Segments : y = <<"resourceLock", t>>
      BY StandingOn, Distinct
    <3> QED BY <1>0, <1>a, <2>1, <3>1 DEF Bare
  <2>3. R \subseteq released.held
    BY <1>0, <1>a, <2>1, Distinct
  <2>4. Holding(resources, released, H3)
    <3> HIDE DEF R, H2
    <3> QED BY <2>1, <2>2, <2>3, ReleaseAllFine
  <2> QED BY <1>2, <2>4 DEF Holding
<1>4. Holding(closed, world, H4)
  <2> HIDE DEF resources
  <2>1. resources \in World /\ ~resources.misused /\ resources.held = H3
    BY <1>3 DEF Holding
  <2>2. Bare(resources, Single("libraryDb"))
    <3>1. \A y \in Things : Single("libraryDb") \in Base(y) =>
             y = Single("relocation") \/ \E s \in Segments : y = <<"resource", s>>
      BY StandingOn, Distinct
    <3> QED BY <1>0, <1>a, <2>1, <3>1 DEF Bare
  <2>3. load.libraryDb <=> Single("libraryDb") \in resources.held
    BY <1>a, <2>1, Distinct
  <2>4. Holding(closed, resources, H4)
    <3> HIDE DEF H3
    <3> QED BY <1>0, <2>1, <2>2, <2>3, ReleaseIfFine
  <2> QED BY <1>3, <2>4 DEF Holding
<1>5. Cleaned(world) = closed
  BY DEF Cleaned
<1> HIDE DEF closed
<1>6. closed.held = H4
  BY <1>4 DEF Holding
<1>7. LoadReleased(closed)
  BY <1>6, <1>a, Distinct DEF LoadReleased
<1>8. EngineHeld(closed)
  BY <1>0, <1>6, Distinct DEF LedgerOK, EngineHeld
<1>9. RunningHeld(closed)
  <2>1. \A s \in Slots : <<"context", s>> \in closed.held <=> <<"context", s>> \in world.held
    BY <1>6, Distinct
  <2>2. \A name \in ArmletThings : Single(name) \in closed.held <=> Single(name) \in world.held
    BY <1>6, Distinct DEF ArmletThings
  <2>3. Single("wolfSSL") \in closed.held <=> Single("wolfSSL") \in world.held
    BY <1>6, Distinct
  <2> QED BY <1>0, <2>1, <2>2, <2>3 DEF LedgerOK, RunningHeld
<1> QED BY <1>4, <1>5, <1>6, <1>7, <1>8, <1>9

LEMMA CleanupStep == ASSUME Consistent, Cleanup PROVE Consistent'
<1> DEFINE w == Cleaned(world)
<1>0. /\ TypeOK /\ LedgerOK /\ LoadOK /\ EngineOK
      /\ load.step = "cleanup" /\ load \in Load
      /\ UNCHANGED table
  BY DEF Consistent, Cleanup, TypeOK
<1>1. load' = [NoLoad EXCEPT !.status = load.status]
  BY DEF Cleanup
<1>2. /\ load' \in Load /\ load'.step = "idle"
      /\ ~load'.libraryDb /\ ~load'.relocation /\ ~load'.relocations
      /\ load'.resources = {}
  <2>1. NoLoad \in Load /\ load.status \in LoadStatuses
    BY <1>0, ConstantTypes DEF Load
  <2>2. load' \in Load
    BY <1>1, <2>1 DEF Load
  <2> QED BY <1>1, <2>2 DEF NoLoad
<1>3. /\ Holding(w, world, w.held) /\ LoadReleased(w)
      /\ EngineHeld(w) /\ RunningHeld(w)
  BY <1>0, CleanedFine
<1>4. w \in World /\ ~w.misused /\ w.work = world.work
      /\ w.created = world.created /\ w.stale = world.stale
  <2> HIDE DEF w
  <2> QED BY <1>3 DEF Holding
<1>5. CASE load.status # "Ok"
  <2>1. UnloadEngine(w)
    BY <1>5 DEF Cleanup
  <2> HIDE DEF w
  <2> QED BY <1>0, <1>2, <1>3, <1>4, <2>1, UnloadEngineStep
<1>6. CASE load.status = "Ok"
  <2>1. world' = w /\ UNCHANGED <<engine, armlet, memory, aes>>
    BY <1>6 DEF Cleanup
  <2> HIDE DEF w
  <2>2. engine.control[0].initialized /\ engine.loaded
    BY <1>0, <1>6, ConstantTypes DEF EngineOK, NoEngine, FreeControl
  <2>3. TypeOK'
    BY <1>0, <1>2, <1>4, <2>1 DEF TypeOK
  <2>4. LedgerOK'
    <3>1. LoadHeld(world)'
      BY <1>2, <1>3, <2>1 DEF LoadReleased, LoadHeld
    <3>2. EngineHeld(world)' /\ RunningHeld(world)'
      BY <1>3, <2>1 DEF EngineHeld, RunningHeld
    <3> QED BY <1>4, <2>1, <3>1, <3>2 DEF LedgerOK
  <2>5. StorageOK'
    BY <1>2, <1>4, <2>1 DEF Consistent, StorageOK
  <2>6. LoadOK'
    BY <1>2 DEF LoadOK
  <2>7. EngineOK'
    BY <1>0, <1>2, <2>1, <2>2 DEF EngineOK
  <2>8. ArmletOK' /\ KeysOK(armlet, aes)'
    BY <2>1 DEF Consistent, ArmletOK, KeysOK
  <2>9. MemoryOK'
    <3>1. WellFormed' = WellFormed /\ Indices' = Indices /\ \A i : Entry(i)' = Entry(i)
      BY <1>0 DEF WellFormed, Indices, Entry
    <3> QED BY <1>2, <2>1, <2>2, <3>1 DEF Consistent, MemoryOK, RelocationsExact
  <2> QED BY <2>3, <2>4, <2>5, <2>6, <2>7, <2>8, <2>9 DEF Consistent
<1> QED BY <1>5, <1>6

-----------------------------------------------------------------------------
(* The AES keys.                                                            *)

(* b is a with other keys.                                                  *)
Rekeyed(b, a) ==
    /\ b \in Adapter
    /\ b.database = a.database /\ b.handle = a.handle
    /\ b.entry = a.entry /\ b.request = a.request
    /\ b.enabled = a.enabled /\ b.status = a.status

LEMMA RekeyedWhole ==
    ASSUME NEW a, NEW b, AdapterWhole(a), Rekeyed(b, a)
    PROVE  AdapterWhole(b)
  BY DEF AdapterWhole, Rekeyed

LEMMA SetEntryFine ==
    ASSUME NEW a \in Adapter, NEW i \in 1..KeySlots, NEW e \in KeyEntry
    PROVE  LET b == [a EXCEPT !.keys[i] = e]
           IN  /\ Rekeyed(b, a)
               /\ b.keys[i] = e
               /\ \A j \in 1..KeySlots \ {i} : b.keys[j] = a.keys[j]
<1> DEFINE keys == [a.keys EXCEPT ![i] = e]
           b == [a EXCEPT !.keys[i] = e]
<1>1. b = [a EXCEPT !.keys = keys]
  BY DEF Adapter
<1>2. /\ keys \in [1..KeySlots -> KeyEntry] /\ keys[i] = e
      /\ \A j \in 1..KeySlots \ {i} : keys[j] = a.keys[j]
  BY DEF Adapter
<1> HIDE DEF keys, b
<1>3. b \in Adapter /\ b.keys = keys /\ Rekeyed(b, a)
  BY <1>1, <1>2 DEF Adapter, Rekeyed
<1> QED BY <1>2, <1>3 DEF b

LEMMA FirstEntry ==
    ASSUME NEW S, S \subseteq 1..KeySlots, S # {}
    PROVE  FirstOf(S) \in S
<1>1. S \subseteq Nat
  OBVIOUS
<1>2. \E i \in S : \A j \in S : i <= j
  BY <1>1, LeastNatural
<1> QED BY <1>2 DEF FirstOf

(* Two entries for each session are enough: the table has a free one for an *)
(* object that has none.                                                    *)
LEMMA FreeEntryExists ==
    ASSUME NEW a \in Adapter, NEW keyOf, KeysOK(a, keyOf),
           NEW x \in Objects, EntriesOf(a, x) = {}
    PROVE  EntriesOf(a, Nobody) # {}
<1> DEFINE Others == Objects \ {x}
           Places == 1..KeySlots
           owner == [i \in Places |-> a.keys[i].owner]
<1>1. SUFFICES ASSUME EntriesOf(a, Nobody) = {} PROVE FALSE
  OBVIOUS
<1>2. owner \in [Places -> Others]
  <2>1. \A i \in 1..KeySlots : a.keys[i].owner # Nobody /\ a.keys[i].owner # x
    BY <1>1 DEF EntriesOf
  <2> QED BY <2>1 DEF KeysOK
<1>3. IsFiniteSet(Places) /\ Cardinality(Places) = KeySlots
  BY FS_Interval, KeyAssumption
<1>4. IsFiniteSet(Objects) /\ Cardinality(Objects) = 2 * SlotCount
  <2>1. IsFiniteSet(Slots) /\ Cardinality(Slots) = SlotCount
    <3>1. SlotCount - 1 \in Int /\ ~(0 > SlotCount - 1)
      BY CountAssumption
    <3>2. /\ IsFiniteSet(0..(SlotCount - 1))
          /\ Cardinality(0..(SlotCount - 1)) = SlotCount - 1 - 0 + 1
      BY <3>1, FS_Interval
    <3> QED BY <3>2, CountAssumption DEF Slots
  <2>2. IsFiniteSet({"send", "receive"}) /\ Cardinality({"send", "receive"}) = 2
    <3>1. IsFiniteSet({"send"}) /\ Cardinality({"send"}) = 1
      BY FS_Singleton
    <3>2. /\ IsFiniteSet({"send"} \cup {"receive"})
          /\ Cardinality({"send"} \cup {"receive"}) =
                IF "receive" \in {"send"} THEN Cardinality({"send"})
                ELSE Cardinality({"send"}) + 1
      BY <3>1, FS_AddElement
    <3>3. {"send"} \cup {"receive"} = {"send", "receive"}
      OBVIOUS
    <3> QED BY <3>1, <3>2, <3>3
  <2>3. /\ IsFiniteSet(Slots \X {"send", "receive"})
        /\ Cardinality(Slots \X {"send", "receive"})
              = Cardinality(Slots) * Cardinality({"send", "receive"})
    BY <2>1, <2>2, FS_Product
  <2> QED BY <2>1, <2>2, <2>3, CountAssumption DEF Objects
<1>5. IsFiniteSet(Others) /\ Cardinality(Others) = 2 * SlotCount - 1
  BY <1>4, FS_RemoveElement
<1>6. Cardinality(Others) < Cardinality(Places)
  <2> HIDE DEF Others, Places
  <2> QED BY <1>3, <1>5, KeyAssumption, CountAssumption
<1>7. PICK i \in Places, j \in Places : i # j /\ owner[i] = owner[j]
  <2> HIDE DEF owner, Others, Places
  <2> QED BY <1>2, <1>3, <1>5, <1>6, FS_PigeonHole
<1>8. a.keys[i].owner # Nobody
  BY <1>1 DEF EntriesOf
<1> QED BY <1>7, <1>8 DEF KeysOK

LEMMA SetKeyFine ==
    ASSUME NEW a \in Adapter, NEW keyOf \in [Objects -> {{}} \cup {{k} : k \in Keys}],
           KeysOK(a, keyOf), NEW x \in Objects, NEW key \in Keys,
           keyOf[x] # {} => (keyOf[x] \subseteq ShortKeys <=> key \in ShortKeys)
    PROVE  /\ Rekeyed(SetKey(a, x, key), a)
           /\ KeysOK(SetKey(a, x, key), [keyOf EXCEPT ![x] = {key}])
<1> DEFINE free == EntriesOf(a, Nobody)
           mine == EntriesOf(a, x)
           from == IF mine # {} THEN mine ELSE free
           i    == FirstOf(from)
           e    == [owner |-> x, key |-> {key}]
           b    == [a EXCEPT !.keys[i] = e]
           new  == [keyOf EXCEPT ![x] = {key}]
<1>a. /\ \A y \in Objects \ {x} : new[y] = keyOf[y]
      /\ new[x] = {key}
  OBVIOUS
<1>b. x # Nobody
  BY NobodyIsNoObject
<1>c. from # {} /\ from \subseteq 1..KeySlots
  BY FreeEntryExists DEF EntriesOf
<1>d. /\ \A j \in 1..KeySlots : a.keys[j].owner # Nobody =>
             /\ a.keys[j].owner \in Objects
             /\ keyOf[a.keys[j].owner] # {}
             /\ a.keys[j].key = keyOf[a.keys[j].owner]
      /\ \A j, k \in 1..KeySlots :
             a.keys[j].owner = a.keys[k].owner /\ a.keys[j].owner # Nobody => j = k
      /\ \A y \in Objects : keyOf[y] # {} /\ keyOf[y] \subseteq ShortKeys =>
             \E j \in 1..KeySlots : a.keys[j].owner = y
  BY DEF KeysOK
<1> HIDE DEF new
<1>1. CASE key \notin ShortKeys
  <2>1. SetKey(a, x, key) = a
    BY <1>1 DEF SetKey
  <2>2. \A j \in 1..KeySlots : a.keys[j].owner # x
    <3> SUFFICES ASSUME NEW j \in 1..KeySlots, a.keys[j].owner = x PROVE FALSE
      OBVIOUS
    <3>1. a.keys[j].key \in {{}} \cup {{k} : k \in ShortKeys}
      BY DEF Adapter, KeyEntry
    <3>2. keyOf[x] # {} /\ keyOf[x] \subseteq ShortKeys
      BY <1>b, <1>d, <3>1
    <3> QED BY <1>1, <3>2
  <2>3. KeysOK(a, new)
    BY <1>1, <1>a, <1>d, <2>2 DEF KeysOK
  <2> QED BY <2>1, <2>3 DEF new, Rekeyed
<1>2. CASE key \in ShortKeys
  <2>1. SetKey(a, x, key) = b
    BY <1>2, <1>c DEF SetKey
  <2>2. i \in from /\ i \in 1..KeySlots
    <3> HIDE DEF from
    <3> QED BY <1>c, FirstEntry
  <2>3. e \in KeyEntry
    BY <1>2 DEF KeyEntry, Owners
  <2>4. /\ Rekeyed(b, a) /\ b.keys[i] = e
        /\ \A j \in 1..KeySlots \ {i} : b.keys[j] = a.keys[j]
    <3> HIDE DEF i, e
    <3> QED BY <2>2, <2>3, SetEntryFine
  <2>5. \A j \in 1..KeySlots \ {i} : a.keys[j].owner # x
    <3>1. CASE mine # {}
      BY <1>b, <1>d, <2>2, <3>1 DEF EntriesOf
    <3>2. CASE mine = {}
      BY <3>2 DEF EntriesOf
    <3> QED BY <3>1, <3>2
  <2>6. a.keys[i].owner \in {x, Nobody}
    BY <2>2 DEF EntriesOf
  <2>7. e.owner = x /\ e.key = {key}
    OBVIOUS
  <2> HIDE DEF b, i, e, from, free, mine
  <2>8. KeysOK(b, new)
    <3>1. \A j \in 1..KeySlots : b.keys[j].owner # Nobody =>
             /\ b.keys[j].owner \in Objects
             /\ new[b.keys[j].owner] # {}
             /\ b.keys[j].key = new[b.keys[j].owner]
      <4> TAKE j \in 1..KeySlots
      <4>1. CASE j = i
        BY <1>a, <2>4, <2>7, <4>1
      <4>2. CASE j # i
        <5>1. b.keys[j] = a.keys[j] /\ a.keys[j].owner # x
          BY <2>4, <2>5, <4>2
        <5> QED BY <1>a, <1>d, <5>1
      <4> QED BY <4>1, <4>2
    <3>2. \A j, k \in 1..KeySlots :
             b.keys[j].owner = b.keys[k].owner /\ b.keys[j].owner # Nobody => j = k
      BY <1>d, <2>2, <2>4, <2>5, <2>7
    <3>3. \A y \in Objects : new[y] # {} /\ new[y] \subseteq ShortKeys =>
             \E j \in 1..KeySlots : b.keys[j].owner = y
      <4> SUFFICES ASSUME NEW y \in Objects, new[y] # {}, new[y] \subseteq ShortKeys
                   PROVE  \E j \in 1..KeySlots : b.keys[j].owner = y
        OBVIOUS
      <4>1. CASE y = x
        BY <2>2, <2>4, <2>7, <4>1
      <4>2. CASE y # x
        <5>1. PICK j \in 1..KeySlots : a.keys[j].owner = y
          BY <1>a, <1>d, <4>2
        <5>2. j # i
          BY <2>6, <4>2, <5>1, NobodyIsNoObject
        <5> QED BY <2>4, <5>1, <5>2
      <4> QED BY <4>1, <4>2
    <3> QED BY <3>1, <3>2, <3>3 DEF KeysOK
  <2> QED BY <2>1, <2>4, <2>8 DEF new
<1> QED BY <1>1, <1>2

LEMMA FreeKeyFine ==
    ASSUME NEW a \in Adapter, NEW keyOf \in [Objects -> {{}} \cup {{k} : k \in Keys}],
           KeysOK(a, keyOf), NEW x \in Objects
    PROVE  /\ Rekeyed(FreeKey(a, x), a)
           /\ KeysOK(FreeKey(a, x), [keyOf EXCEPT ![x] = {}])
<1> DEFINE mine == EntriesOf(a, x)
           i    == FirstOf(mine)
           b    == [a EXCEPT !.keys[i] = FreeEntry]
           new  == [keyOf EXCEPT ![x] = {}]
<1>a. /\ \A y \in Objects \ {x} : new[y] = keyOf[y]
      /\ new[x] = {}
  OBVIOUS
<1>b. x # Nobody
  BY NobodyIsNoObject
<1>d. /\ \A j \in 1..KeySlots : a.keys[j].owner # Nobody =>
             /\ a.keys[j].owner \in Objects
             /\ keyOf[a.keys[j].owner] # {}
             /\ a.keys[j].key = keyOf[a.keys[j].owner]
      /\ \A j, k \in 1..KeySlots :
             a.keys[j].owner = a.keys[k].owner /\ a.keys[j].owner # Nobody => j = k
      /\ \A y \in Objects : keyOf[y] # {} /\ keyOf[y] \subseteq ShortKeys =>
             \E j \in 1..KeySlots : a.keys[j].owner = y
  BY DEF KeysOK
<1> HIDE DEF new
<1>1. CASE mine = {}
  <2>1. FreeKey(a, x) = a
    BY <1>1 DEF FreeKey
  <2>2. \A j \in 1..KeySlots : a.keys[j].owner # x
    BY <1>1 DEF EntriesOf
  <2>3. KeysOK(a, new)
    BY <1>a, <1>d, <2>2 DEF KeysOK
  <2> QED BY <2>1, <2>3 DEF new, Rekeyed
<1>2. CASE mine # {}
  <2>1. FreeKey(a, x) = b
    BY <1>2 DEF FreeKey
  <2>2. i \in mine /\ i \in 1..KeySlots
    <3>1. mine \subseteq 1..KeySlots
      BY DEF EntriesOf
    <3> HIDE DEF mine
    <3> QED BY <1>2, <3>1, FirstEntry
  <2>3. FreeEntry \in KeyEntry /\ FreeEntry.owner = Nobody
    BY DEF FreeEntry, KeyEntry, Owners
  <2>4. /\ Rekeyed(b, a) /\ b.keys[i] = FreeEntry
        /\ \A j \in 1..KeySlots \ {i} : b.keys[j] = a.keys[j]
    <3> HIDE DEF i
    <3> QED BY <2>2, <2>3, SetEntryFine
  <2>5. a.keys[i].owner = x /\ \A j \in 1..KeySlots \ {i} : a.keys[j].owner # x
    BY <1>b, <1>d, <2>2 DEF EntriesOf
  <2> HIDE DEF b, i, mine
  <2>6. KeysOK(b, new)
    <3>1. \A j \in 1..KeySlots : b.keys[j].owner # Nobody =>
             /\ b.keys[j].owner \in Objects
             /\ new[b.keys[j].owner] # {}
             /\ b.keys[j].key = new[b.keys[j].owner]
      BY <1>a, <1>d, <2>2, <2>3, <2>4, <2>5
    <3>2. \A j, k \in 1..KeySlots :
             b.keys[j].owner = b.keys[k].owner /\ b.keys[j].owner # Nobody => j = k
      BY <1>d, <2>2, <2>3, <2>4
    <3>3. \A y \in Objects : new[y] # {} /\ new[y] \subseteq ShortKeys =>
             \E j \in 1..KeySlots : b.keys[j].owner = y
      <4> SUFFICES ASSUME NEW y \in Objects, new[y] # {}, new[y] \subseteq ShortKeys
                   PROVE  \E j \in 1..KeySlots : b.keys[j].owner = y
        OBVIOUS
      <4>1. y # x
        BY <1>a
      <4>2. PICK j \in 1..KeySlots : a.keys[j].owner = y
        BY <1>a, <1>d, <4>1
      <4>3. j # i
        BY <2>5, <4>1, <4>2
      <4> QED BY <2>4, <4>2, <4>3
    <3> QED BY <3>1, <3>2, <3>3 DEF KeysOK
  <2> QED BY <2>1, <2>4, <2>6 DEF new
<1> QED BY <1>1, <1>2

(* The self-test's key comes and goes.                                      *)
LEMMA TestKeyFine ==
    ASSUME NEW a \in Adapter, NEW keyOf, KeysOK(a, keyOf), NEW key \in ShortKeys
    PROVE  LET b == FreeKey(SetKey(a, TestObject, key), TestObject)
           IN  Rekeyed(b, a) /\ KeysOK(b, keyOf)
<1> DEFINE free == EntriesOf(a, Nobody)
           i    == FirstOf(free)
           e    == [owner |-> TestObject, key |-> {key}]
           set  == [a EXCEPT !.keys[i] = e]
           done == [set EXCEPT !.keys[i] = FreeEntry]
<1>1. TestObject # Nobody /\ TestObject \notin Objects
  BY NobodyIsNoObject DEF TestObject, Nobody
<1>2. EntriesOf(a, TestObject) = {}
  BY <1>1 DEF KeysOK, EntriesOf
<1>3. CASE free = {}
  <2>1. SetKey(a, TestObject, key) = a
    BY <1>2, <1>3 DEF SetKey
  <2>2. FreeKey(a, TestObject) = a
    BY <1>2 DEF FreeKey
  <2> QED BY <2>1, <2>2 DEF Rekeyed
<1>4. CASE free # {}
  <2>1. SetKey(a, TestObject, key) = set
    BY <1>2, <1>4 DEF SetKey
  <2>2. i \in free /\ i \in 1..KeySlots
    <3>1. free \subseteq 1..KeySlots
      BY DEF EntriesOf
    <3> HIDE DEF free
    <3> QED BY <1>4, <3>1, FirstEntry
  <2>3. e \in KeyEntry /\ FreeEntry \in KeyEntry /\ FreeEntry.owner = Nobody
        /\ e.owner = TestObject
    BY DEF FreeEntry, KeyEntry, Owners
  <2>4. a.keys[i].owner = Nobody
    BY <2>2 DEF EntriesOf
  <2> HIDE DEF i, e, free
  <2>5. /\ Rekeyed(set, a) /\ set.keys[i] = e
        /\ \A j \in 1..KeySlots \ {i} : set.keys[j] = a.keys[j]
    BY <2>2, <2>3, SetEntryFine
  <2> HIDE DEF set
  <2>6. EntriesOf(set, TestObject) = {i}
    BY <1>2, <2>2, <2>3, <2>5 DEF EntriesOf
  <2>7. FirstOf({i}) = i
    <3>1. i \in Nat
      BY <2>2
    <3> QED BY <3>1 DEF FirstOf
  <2>8. FreeKey(set, TestObject) = done
    BY <2>6, <2>7 DEF FreeKey
  <2>9. set \in Adapter
    BY <2>5 DEF Rekeyed
  <2>10. /\ Rekeyed(done, set) /\ done.keys[i] = FreeEntry
         /\ \A j \in 1..KeySlots \ {i} : done.keys[j] = set.keys[j]
    BY <2>2, <2>3, <2>9, SetEntryFine
  <2> HIDE DEF done
  <2>11. KeysOK(done, keyOf)
    <3>1. \A j \in 1..KeySlots :
             \/ done.keys[j] = a.keys[j] /\ j # i
             \/ done.keys[j].owner = Nobody /\ a.keys[j].owner = Nobody /\ j = i
      BY <2>3, <2>4, <2>5, <2>10
    <3>2. \A x \in Objects : x # Nobody
      BY NobodyIsNoObject
    <3> QED BY <3>1, <3>2 DEF KeysOK
  <2>12. Rekeyed(done, a)
    BY <2>5, <2>10 DEF Rekeyed
  <2> QED BY <2>1, <2>8, <2>11, <2>12
<1> QED BY <1>3, <1>4

-----------------------------------------------------------------------------
(* A loaded engine at work.                                                 *)

(* The engine keeps everything but its slots.                               *)
SameEngine ==
    /\ engine' \in Engine
    /\ engine'.loaded = engine.loaded
    /\ engine'.workDb = engine.workDb
    /\ engine'.workDbID = engine.workDbID
    /\ engine'.handles = engine.handles
    /\ engine'.segments = engine.segments

LEMMA ReadyFacts ==
    ASSUME Consistent, Ready
    PROVE  /\ load.step = "idle" /\ engine.loaded
           /\ engine.control[0].initialized
           /\ world \in World /\ ~world.misused
           /\ engine \in Engine /\ armlet \in Adapter
           /\ engine.control \in [Slots -> SlotControl]
           /\ aes \in [Objects -> {{}} \cup {{k} : k \in Keys}]
           /\ AdapterWhole(armlet)
           /\ Single("wolfSSL") \in world.held
<1>1. /\ load.step = "idle" /\ engine.loaded
      /\ world \in World /\ ~world.misused
      /\ engine \in Engine /\ armlet \in Adapter
      /\ aes \in [Objects -> {{}} \cup {{k} : k \in Keys}]
  BY DEF Consistent, Ready, TypeOK, LedgerOK
<1>2. engine.control[0].initialized
  BY <1>1 DEF Consistent, EngineOK
<1>3. engine.control \in [Slots -> SlotControl]
  BY <1>1 DEF Engine
<1>4. AdapterWhole(armlet)
  BY DEF Consistent, ArmletOK, AdapterWhole
<1>5. Single("wolfSSL") \in world.held
  BY <1>2 DEF Consistent, LedgerOK, RunningHeld
<1> QED BY <1>1, <1>2, <1>3, <1>4, <1>5

LEMMA WorkingStep ==
    ASSUME Consistent, Ready, UNCHANGED <<memory, table, load>>,
           SameEngine, Holding(world', world, world'.held),
           LoadHeld(world)', EngineHeld(world)', RunningHeld(world)',
           engine'.control[0].initialized,
           \A s \in Slots : engine'.control[s].open => engine'.control[s].context,
           armlet' \in Adapter, ArmletOK',
           aes' \in [Objects -> {{}} \cup {{k} : k \in Keys}],
           KeysOK(armlet, aes)'
    PROVE  Consistent'
<1>1. load.step = "idle" /\ engine.loaded /\ load \in Load
  BY ReadyFacts DEF Consistent, TypeOK
<1>2. TypeOK'
  <2>1. world' \in World
    BY DEF Holding
  <2> QED BY <2>1 DEF Consistent, TypeOK, SameEngine
<1>3. LedgerOK'
  BY DEF LedgerOK, Holding
<1>4. StorageOK'
  BY <1>1 DEF Consistent, StorageOK, Holding, SameEngine
<1>5. LoadOK'
  BY DEF Consistent, LoadOK
<1>6. EngineOK'
  BY <1>1 DEF Consistent, EngineOK, SameEngine
<1>7. MemoryOK'
  <2>1. WellFormed' = WellFormed /\ Indices' = Indices /\ \A i : Entry(i)' = Entry(i)
    BY DEF WellFormed, Indices, Entry
  <2> QED BY <1>1, <2>1 DEF Consistent, MemoryOK, RelocationsExact, SameEngine
<1> QED BY <1>2, <1>3, <1>4, <1>5, <1>6, <1>7 DEF Consistent

(* One slot changes, and the engine is otherwise as it was.                 *)
LEMMA SlotChanges ==
    ASSUME engine \in Engine, NEW s \in Slots, NEW c \in SlotControl,
           engine' = [engine EXCEPT !.control[s] = c]
    PROVE  /\ SameEngine
           /\ engine'.control[s] = c
           /\ \A t \in Slots \ {s} : engine'.control[t] = engine.control[t]
<1> DEFINE control == [engine.control EXCEPT ![s] = c]
<1>1. engine' = [engine EXCEPT !.control = control]
  BY DEF Engine
<1>2. /\ control \in [Slots -> SlotControl] /\ control[s] = c
      /\ \A t \in Slots \ {s} : control[t] = engine.control[t]
  BY DEF Engine
<1> HIDE DEF control
<1>3. engine' \in Engine /\ engine'.control = control /\ SameEngine
  BY <1>1, <1>2 DEF Engine, SameEngine
<1> QED BY <1>2, <1>3

LEMMA SameLedger ==
    ASSUME Consistent, SameEngine, UNCHANGED <<world, load>>,
           \A s \in Slots : engine'.control[s].context = engine.control[s].context,
           engine'.control[0].initialized = engine.control[0].initialized,
           armlet'.database = armlet.database
    PROVE  /\ Holding(world', world, world'.held)
           /\ LoadHeld(world)' /\ EngineHeld(world)' /\ RunningHeld(world)'
<1>1. Holding(world', world, world'.held)
  BY DEF Consistent, TypeOK, LedgerOK, Holding
<1>2. LoadHeld(world)' /\ EngineHeld(world)' /\ RunningHeld(world)'
  BY DEF Consistent, LedgerOK, LoadHeld, EngineHeld, RunningHeld, SameEngine
<1> QED BY <1>1, <1>2

LEMMA FreeSlot ==
    ASSUME FreeSlots # {}
    PROVE  FirstOf(FreeSlots) \in Slots
<1>1. FreeSlots \subseteq Nat /\ FreeSlots \subseteq Slots
  BY DEF FreeSlots, Slots
<1>2. \E s \in FreeSlots : \A t \in FreeSlots : s <= t
  BY <1>1, LeastNatural
<1> QED BY <1>1, <1>2 DEF FirstOf

LEMMA OpenSessionStep == ASSUME Consistent, OpenSession PROVE Consistent'
<1> DEFINE s == FirstOf(FreeSlots)
           c == engine.control[s]
           status == IF c.initialized THEN c.status ELSE engine.control[0].status
           new == [c EXCEPT !.open = TRUE, !.context = TRUE,
                            !.initialized = TRUE, !.status = status]
<1>0. Ready /\ UNCHANGED <<armlet, memory, aes, table, load>>
  BY DEF OpenSession
<1>1. s \in Slots
  BY FreeSlot DEF OpenSession
<1>2. /\ engine \in Engine /\ engine.control \in [Slots -> SlotControl]
      /\ engine.control[0].initialized /\ armlet \in Adapter
      /\ world \in World /\ ~world.misused /\ Single("wolfSSL") \in world.held
      /\ aes \in [Objects -> {{}} \cup {{k} : k \in Keys}]
  BY <1>0, ReadyFacts
<1>3. c \in SlotControl /\ engine.control[0] \in SlotControl
  BY <1>1, <1>2, ConstantTypes
<1>4. new \in SlotControl /\ new.context /\ new.initialized /\ new.status = status
  <2>1. status \in Statuses
    BY <1>3 DEF SlotControl
  <2> HIDE DEF s, status
  <2> QED BY <1>3, <2>1 DEF SlotControl
<1>5. engine' = [engine EXCEPT !.control[s] = new]
  <2>1. engine' = [engine EXCEPT
              !.control[s].open = TRUE, !.control[s].context = TRUE,
              !.control[s].initialized = TRUE,
              !.control[s].status = status]
    BY <1>1, <1>2, <1>3 DEF OpenSession, Engine, SlotControl
  <2> HIDE DEF status, s
  <2> QED BY <1>1, <1>2, <1>3, <2>1 DEF Engine, SlotControl
<1> HIDE DEF s, new
<1>6. /\ SameEngine
      /\ engine'.control[s] = new
      /\ \A t \in Slots \ {s} : engine'.control[t] = engine.control[t]
  BY <1>1, <1>2, <1>4, <1>5, SlotChanges
<1>7. /\ engine'.control[0].initialized
      /\ engine'.control[0].status = engine.control[0].status
  <2>1. CASE s = 0
    BY <1>2, <1>4, <1>6, <2>1
  <2>2. CASE s # 0
    BY <1>2, <1>6, <2>2, ConstantTypes
  <2> QED BY <2>1, <2>2
<1>8. ArmletOK' /\ armlet' \in Adapter /\ KeysOK(armlet, aes)'
  BY <1>0, <1>2, <1>7 DEF Consistent, ArmletOK, KeysOK
<1>a. \A t \in Slots : engine'.control[t].open => engine'.control[t].context
  BY <1>4, <1>6 DEF Consistent, EngineOK
<1>9. CASE c.context
  <2>1. world' = world
    BY <1>9 DEF OpenSession, s
  <2>2. \A t \in Slots : engine'.control[t].context = engine.control[t].context
    <3>1. engine'.control[s].context = TRUE /\ engine.control[s].context = TRUE
      BY <1>3, <1>4, <1>6, <1>9 DEF SlotControl
    <3> QED BY <1>6, <3>1
  <2>3. engine'.control[0].initialized = engine.control[0].initialized
    <3>1. engine'.control[0] \in SlotControl /\ engine.control[0] \in SlotControl
      BY <1>2, <1>6, ConstantTypes DEF SameEngine, Engine
    <3> QED BY <1>2, <1>7, <3>1 DEF SlotControl
  <2>4. /\ Holding(world', world, world'.held)
        /\ LoadHeld(world)' /\ EngineHeld(world)' /\ RunningHeld(world)'
    BY <1>0, <1>6, <2>1, <2>2, <2>3, SameLedger
  <2> QED BY <1>0, <1>2, <1>6, <1>7, <1>8, <1>a, <2>4, WorkingStep
<1>10. CASE ~c.context
  <2> DEFINE x == <<"context", s>>
  <2>1. world' = Acquire(world, x)
    BY <1>10 DEF OpenSession, s
  <2>2. x \notin world.held
    BY <1>1, <1>10 DEF Consistent, LedgerOK, RunningHeld
  <2>3. x \in Things /\ Base(x) = {Single("wolfSSL")}
    BY <1>1, ThingsAre, Bases
  <2> HIDE DEF x
  <2>4. Holding(world', world, world.held \cup {x})
    BY <1>2, <2>1, <2>2, <2>3, AcquireFine
  <2>5. world'.held = world.held \cup {x} /\ Holding(world', world, world'.held)
    BY <2>4 DEF Holding
  <2>6. LoadHeld(world)'
    BY <1>0, <2>5, Distinct DEF Consistent, LedgerOK, LoadHeld, x
  <2>7. EngineHeld(world)'
    BY <1>6, <2>5, Distinct DEF Consistent, LedgerOK, EngineHeld, SameEngine, x
  <2>8. RunningHeld(world)'
    <3>1. \A t \in Slots : <<"context", t>> \in world'.held <=> engine'.control[t].context
      <4> TAKE t \in Slots
      <4>1. CASE t = s
        BY <1>4, <1>6, <2>5, <4>1 DEF x
      <4>2. CASE t # s
        <5>1. <<"context", t>> # x
          BY <4>2, Distinct DEF x
        <5>2. <<"context", t>> \in world.held <=> engine.control[t].context
          BY DEF Consistent, LedgerOK, RunningHeld
        <5> QED BY <1>6, <2>5, <4>2, <5>1, <5>2
      <4> QED BY <4>1, <4>2
    <3>2. \A name \in ArmletThings : Single(name) \in world'.held <=> armlet'.database
      <4>1. \A name \in ArmletThings : Single(name) # x
        BY Distinct DEF x, ArmletThings
      <4> QED BY <1>0, <2>5, <4>1 DEF Consistent, LedgerOK, RunningHeld
    <3> QED BY <1>2, <1>7, <2>5, <3>1, <3>2 DEF RunningHeld
  <2> QED BY <1>0, <1>2, <1>6, <1>7, <1>8, <1>a, <2>5, <2>6, <2>7, <2>8, WorkingStep
<1> QED BY <1>9, <1>10

LEMMA SetSessionKeyStep ==
    ASSUME Consistent, NEW x \in Objects, NEW key \in Keys, SetSessionKey(x, key)
    PROVE  Consistent'
<1>0. /\ Ready /\ UNCHANGED <<world, engine, memory, table, load>>
      /\ aes' = [aes EXCEPT ![x] = {key}]
      /\ armlet' = SetKey(armlet, x, key)
      /\ aes[x] # {} => (aes[x] \subseteq ShortKeys <=> key \in ShortKeys)
  BY DEF SetSessionKey
<1>1. /\ engine \in Engine /\ armlet \in Adapter /\ AdapterWhole(armlet)
      /\ engine.control[0].initialized
      /\ aes \in [Objects -> {{}} \cup {{k} : k \in Keys}]
      /\ KeysOK(armlet, aes)
  BY <1>0, ReadyFacts DEF Consistent
<1>2. Rekeyed(armlet', armlet) /\ KeysOK(armlet', aes')
  BY <1>0, <1>1, SetKeyFine
<1>3. KeysOK(armlet, aes)'
  BY <1>2
<1>4. aes' \in [Objects -> {{}} \cup {{k} : k \in Keys}]
  BY <1>0, <1>1
<1>5. ArmletOK' /\ armlet' \in Adapter /\ armlet'.database = armlet.database
  BY <1>0, <1>2 DEF Rekeyed, Consistent, ArmletOK
<1>6. SameEngine
  BY <1>0, <1>1 DEF SameEngine
<1>7. /\ Holding(world', world, world'.held)
      /\ LoadHeld(world)' /\ EngineHeld(world)' /\ RunningHeld(world)'
  BY <1>0, <1>5, <1>6, SameLedger
<1>8. \A s \in Slots : engine'.control[s].open => engine'.control[s].context
  BY <1>0 DEF Consistent, EngineOK
<1> QED BY <1>0, <1>1, <1>3, <1>4, <1>5, <1>6, <1>7, <1>8, WorkingStep

LEMMA CloseSessionStep ==
    ASSUME Consistent, NEW s \in Slots, NEW kept \in BOOLEAN, CloseSession(s, kept)
    PROVE  Consistent'
<1> DEFINE c == engine.control[s]
           new == [c EXCEPT !.open = FALSE, !.context = kept]
           a1 == FreeKey(armlet, <<s, "send">>)
           k1 == [aes EXCEPT ![<<s, "send">>] = {}]
           x == <<"context", s>>
<1>0. /\ Ready /\ UNCHANGED <<memory, table, load>>
      /\ world' = ReleaseIf(world, ~kept, x)
      /\ armlet' = FreeKey(a1, <<s, "receive">>)
      /\ aes' = [aes EXCEPT ![<<s, "send">>] = {}, ![<<s, "receive">>] = {}]
  BY DEF CloseSession
<1>1. /\ engine \in Engine /\ armlet \in Adapter
      /\ engine.control \in [Slots -> SlotControl]
      /\ engine.control[0].initialized
      /\ aes \in [Objects -> {{}} \cup {{k} : k \in Keys}]
      /\ KeysOK(armlet, aes)
      /\ world \in World /\ ~world.misused
  BY <1>0, ReadyFacts DEF Consistent
<1>2. <<s, "send">> \in Objects /\ <<s, "receive">> \in Objects
  BY DEF Objects
<1>3. Rekeyed(a1, armlet) /\ KeysOK(a1, k1)
  BY <1>1, <1>2, FreeKeyFine
<1>4. Rekeyed(armlet', armlet) /\ KeysOK(armlet', aes')
  <2>1. k1 \in [Objects -> {{}} \cup {{k} : k \in Keys}] /\ a1 \in Adapter
    BY <1>1, <1>3 DEF Rekeyed
  <2>2. aes' = [k1 EXCEPT ![<<s, "receive">>] = {}]
    BY <1>0
  <2> HIDE DEF a1, k1
  <2> DEFINE y == <<s, "receive">>
             a2 == FreeKey(a1, y)
             k2 == [k1 EXCEPT ![y] = {}]
  <2>3. y \in Objects
    BY <1>2
  <2>4. armlet' = a2 /\ aes' = k2
    BY <1>0, <2>2
  <2> HIDE DEF y
  <2>5. Rekeyed(a2, a1) /\ KeysOK(a2, k2)
    BY <1>3, <2>1, <2>3, FreeKeyFine
  <2> HIDE DEF a2, k2
  <2> QED BY <1>3, <2>4, <2>5 DEF Rekeyed
<1>5. aes' \in [Objects -> {{}} \cup {{k} : k \in Keys}]
  BY <1>0, <1>1
<1>6. c \in SlotControl
  BY <1>1
<1>7. new \in SlotControl /\ new.context = kept /\ ~new.open
      /\ new.initialized = c.initialized /\ new.status = c.status
  BY <1>6 DEF SlotControl
<1>8. engine' = [engine EXCEPT !.control[s] = new]
  BY <1>1, <1>6 DEF CloseSession, Engine, SlotControl
<1> HIDE DEF new, a1, k1
<1>9. /\ SameEngine
      /\ engine'.control[s] = new
      /\ \A t \in Slots \ {s} : engine'.control[t] = engine.control[t]
  BY <1>1, <1>7, <1>8, SlotChanges
<1>10. /\ engine'.control[0].initialized = engine.control[0].initialized
       /\ engine'.control[0].status = engine.control[0].status
  BY <1>7, <1>9, ConstantTypes
<1>11. ArmletOK' /\ armlet' \in Adapter /\ armlet'.database = armlet.database
  BY <1>4, <1>10 DEF Rekeyed, Consistent, ArmletOK
<1>12. x \in world.held <=> c.context
  BY DEF Consistent, LedgerOK, RunningHeld
<1>13. c.context
  BY DEF CloseSession, Consistent, EngineOK
<1>14. Holding(world', world, IF kept THEN world.held ELSE world.held \ {x})
  <2>1. CASE kept
    BY <1>0, <1>1, <2>1 DEF ReleaseIf, Holding
  <2>2. CASE ~kept
    <3>1. Bare(world, x)
      <4> SUFFICES ASSUME NEW y \in world.held, x \in Base(y) PROVE FALSE
        BY DEF Bare
      <4>1. y \in Things
        BY <1>1 DEF World
      <4> QED
        <5> USE <4>1, StandingOn, Distinct
        <5>1. x # Single("libraryDb") /\ x # Single("workDb") /\ x # Single("relocation")
          OBVIOUS
        <5>2. x # Single("wolfSSL") /\ x # Single("armletDb") /\ x # Single("armlet")
          OBVIOUS
        <5>3. \A t \in Segments : x # <<"resource", t>> /\ x # <<"segment", t>>
          OBVIOUS
        <5> HIDE DEF x
        <5> QED BY <5>1, <5>2, <5>3
    <3> QED BY <1>0, <1>1, <1>12, <1>13, <2>2, <3>1, ReleaseFine DEF ReleaseIf
  <2> QED BY <2>1, <2>2
<1>a. \A t \in Slots : engine'.control[t].open => engine'.control[t].context
  <2>1. ~engine'.control[s].open
    BY <1>7, <1>9
  <2> QED BY <1>9, <2>1 DEF Consistent, EngineOK
<1>15. /\ Holding(world', world, world'.held)
       /\ \A z : z # x => (z \in world'.held <=> z \in world.held)
       /\ x \in world'.held <=> kept
  BY <1>12, <1>13, <1>14 DEF Holding
<1>16. LoadHeld(world)'
  BY <1>0, <1>15, Distinct DEF Consistent, LedgerOK, LoadHeld
<1>17. EngineHeld(world)'
  BY <1>9, <1>15, Distinct DEF Consistent, LedgerOK, EngineHeld, SameEngine
<1>18. RunningHeld(world)'
  <2>1. \A t \in Slots : <<"context", t>> \in world'.held <=> engine'.control[t].context
    <3> TAKE t \in Slots
    <3>1. CASE t = s
      BY <1>7, <1>9, <1>15, <3>1
    <3>2. CASE t # s
      <4>1. <<"context", t>> # x
        BY <3>2, Distinct
      <4>2. <<"context", t>> \in world.held <=> engine.control[t].context
        BY DEF Consistent, LedgerOK, RunningHeld
      <4> QED BY <1>9, <1>15, <3>2, <4>1, <4>2
    <3> QED BY <3>1, <3>2
  <2>2. \A name \in ArmletThings : Single(name) \in world'.held <=> armlet'.database
    <3>1. \A name \in ArmletThings : Single(name) # x
      BY Distinct DEF ArmletThings
    <3> QED BY <1>11, <1>15, <3>1 DEF Consistent, LedgerOK, RunningHeld
  <2>3. Single("wolfSSL") \in world'.held
    BY <1>0, <1>15, ReadyFacts, Distinct
  <2> QED BY <1>1, <1>10, <2>1, <2>2, <2>3 DEF RunningHeld
<1>19. KeysOK(armlet, aes)'
  BY <1>4
<1> QED BY <1>0, <1>1, <1>5, <1>9, <1>10, <1>11, <1>a, <1>15, <1>16, <1>17,
           <1>18, <1>19, WorkingStep

LEMMA SelfTestStep ==
    ASSUME Consistent, NEW right \in BOOLEAN, SelfTest(right)
    PROVE  Consistent'
<1>0. Ready /\ UNCHANGED <<world, memory, aes, table, load>>
  BY DEF SelfTest
<1>1. /\ engine \in Engine /\ armlet \in Adapter /\ AdapterWhole(armlet)
      /\ engine.control \in [Slots -> SlotControl]
      /\ engine.control[0].initialized
      /\ aes \in [Objects -> {{}} \cup {{k} : k \in Keys}]
      /\ KeysOK(armlet, aes)
  BY <1>0, ReadyFacts DEF Consistent
<1>2. PICK tested : /\ Rekeyed(tested, armlet)
                    /\ KeysOK(tested, aes)
                    /\ armlet' = IF right THEN tested ELSE ArmletDisable(tested)
  <2>1. PICK key \in ShortKeys :
           LET t == FreeKey(SetKey(armlet, TestObject, key), TestObject)
           IN  armlet' = IF right THEN t ELSE ArmletDisable(t)
    BY DEF SelfTest
  <2>2. LET b == FreeKey(SetKey(armlet, TestObject, key), TestObject)
        IN  Rekeyed(b, armlet) /\ KeysOK(b, aes)
    BY <1>1, TestKeyFine
  <2> QED BY <2>1, <2>2
<1>3. tested \in Adapter /\ AdapterWhole(tested) /\ tested.database = armlet.database
  BY <1>1, <1>2, RekeyedWhole DEF Rekeyed
<1>4. CASE right
  <2>1. armlet' = tested /\ engine' = engine
    BY <1>2, <1>4 DEF SelfTest
  <2>2. SameEngine /\ engine'.control = engine.control
    BY <1>1, <2>1 DEF SameEngine
  <2>3. ArmletOK'
    BY <1>2, <1>3, <2>1 DEF Rekeyed, AdapterWhole, Consistent, ArmletOK
  <2>4. KeysOK(armlet, aes)'
    BY <1>0, <1>2, <2>1
  <2>5. /\ Holding(world', world, world'.held)
        /\ LoadHeld(world)' /\ EngineHeld(world)' /\ RunningHeld(world)'
    BY <1>0, <1>3, <2>1, <2>2, SameLedger
  <2>6. \A s \in Slots : engine'.control[s].open => engine'.control[s].context
    BY <2>2 DEF Consistent, EngineOK
  <2> QED BY <1>0, <1>1, <1>3, <2>1, <2>2, <2>3, <2>4, <2>5, <2>6, WorkingStep
<1>5. CASE ~right
  <2> DEFINE c == engine.control[0]
             new == [c EXCEPT !.status = "Failed"]
  <2>1. armlet' = ArmletDisable(tested)
        /\ engine' = [engine EXCEPT !.control[0].status = "Failed"]
    BY <1>2, <1>5 DEF SelfTest
  <2>2. /\ armlet' \in Adapter /\ AdapterWhole(armlet') /\ ~armlet'.enabled
        /\ armlet'.database = armlet.database /\ armlet'.keys = tested.keys
    BY <1>3, <2>1, DisableFine
  <2>3. c \in SlotControl
    BY <1>1, ConstantTypes
  <2>4. /\ new \in SlotControl /\ new.context = c.context
        /\ new.initialized = c.initialized /\ new.open = c.open
    BY <2>3 DEF SlotControl, Statuses
  <2>5. engine' = [engine EXCEPT !.control[0] = new]
    BY <1>1, <2>1, <2>3, ConstantTypes DEF Engine, SlotControl
  <2> HIDE DEF new
  <2>6. /\ SameEngine
        /\ engine'.control[0] = new
        /\ \A t \in Slots \ {0} : engine'.control[t] = engine.control[t]
    BY <1>1, <2>4, <2>5, ConstantTypes, SlotChanges
  <2>7. /\ \A t \in Slots : /\ engine'.control[t].context = engine.control[t].context
                            /\ engine'.control[t].open = engine.control[t].open
        /\ engine'.control[0].initialized = engine.control[0].initialized
    BY <2>4, <2>6
  <2>8. ArmletOK'
    BY <2>2 DEF AdapterWhole, ArmletOK
  <2>9. KeysOK(armlet, aes)'
    BY <1>0, <1>2, <2>2 DEF KeysOK
  <2>10. /\ Holding(world', world, world'.held)
         /\ LoadHeld(world)' /\ EngineHeld(world)' /\ RunningHeld(world)'
    BY <1>0, <2>2, <2>6, <2>7, SameLedger
  <2>11. \A s \in Slots : engine'.control[s].open => engine'.control[s].context
    BY <2>7 DEF Consistent, EngineOK
  <2> QED BY <1>0, <1>1, <2>2, <2>6, <2>7, <2>8, <2>9, <2>10, <2>11, WorkingStep
<1> QED BY <1>4, <1>5

-----------------------------------------------------------------------------
(* The theorems.                                                            *)

LEMMA StepConsistent == Consistent /\ [Next]_vars => Consistent'
<1> SUFFICES ASSUME Consistent, [Next]_vars PROVE Consistent'
  OBVIOUS
<1>1. ASSUME NEW p \in Protocols, NEW disable \in BOOLEAN, Execute(p, disable)
      PROVE  Consistent'
  BY <1>1, ExecuteStep
<1>2. CASE OpenLibrary
  BY <1>2, OpenLibraryStep
<1>3. CASE OpenWork
  BY <1>3, OpenWorkStep
<1>4. ASSUME NEW fate \in CopyFates, CopySegment(fate) PROVE Consistent'
  BY <1>4, CopySegmentStep
<1>5. CASE GetRelocations
  BY <1>5, GetRelocationsStep
<1>6. ASSUME NEW fate \in Fates, NEW wolfSSL \in BOOLEAN, NEW right \in BOOLEAN,
             Start(fate, wolfSSL, right)
      PROVE  Consistent'
  BY <1>6, StartStep
<1>7. CASE Cleanup
  BY <1>7, CleanupStep
<1>8. CASE OpenSession
  BY <1>8, OpenSessionStep
<1>9. ASSUME NEW x \in Objects, NEW key \in Keys, SetSessionKey(x, key)
      PROVE  Consistent'
  BY <1>9, SetSessionKeyStep
<1>10. ASSUME NEW s \in Slots, NEW kept \in BOOLEAN, CloseSession(s, kept)
       PROVE  Consistent'
  BY <1>10, CloseSessionStep
<1>11. ASSUME NEW right \in BOOLEAN, SelfTest(right) PROVE Consistent'
  BY <1>11, SelfTestStep
<1>12. CASE Unload
  BY <1>12, UnloadStep
<1>13. CASE Reset
  BY <1>13, ResetStep
<1>14. CASE UNCHANGED vars
  BY <1>14 DEF vars, Consistent, TypeOK, LedgerOK, LoadHeld, EngineHeld,
     RunningHeld, StorageOK, LoadOK, EngineOK, ArmletOK, KeysOK, MemoryOK,
     RelocationsExact, WellFormed, Indices, Entry
<1> QED BY <1>1, <1>2, <1>3, <1>4, <1>5, <1>6, <1>7, <1>8, <1>9, <1>10, <1>11,
           <1>12, <1>13, <1>14 DEF Next

(* Whatever the managers refuse and whenever the device is reset, the       *)
(* ledger, the records of the load and the engine, the adapter's key table  *)
(* and the segments' content tell the same story.                           *)
THEOREM AlwaysConsistent == Spec => []Consistent
  BY InitConsistent, StepConsistent, PTL DEF Spec

(* Every variable keeps its type; in particular an entry of the native key  *)
(* table never holds a key of another length than 16 bytes.                 *)
THEOREM TypeCorrect == Spec => []TypeOK
<1>1. Consistent => TypeOK
  BY DEF Consistent
<1> QED BY <1>1, AlwaysConsistent, PTL

LEMMA IdleHeld ==
    ASSUME Consistent, load.step = "idle", engine.loaded
    PROVE  world.held = Owned /\ world.work = engine.workDbID
<1>1. /\ engine.workDb /\ engine.control[0].initialized
      /\ engine.handles = Segments /\ engine.segments = Segments
  BY ConstantTypes DEF Consistent, EngineOK
<1>2. world.work = engine.workDbID
  BY <1>1 DEF Consistent, StorageOK
<1>3. /\ ~load.libraryDb /\ ~load.relocation /\ ~load.relocations
      /\ load.resources = {}
  BY DEF Consistent, LoadOK
<1>4. world.held \subseteq Things
  BY DEF Consistent, TypeOK, World
<1>5. Owned \subseteq Things
  BY ThingsAre DEF Owned, ArmletThings, Things
<1>6. ASSUME NEW x \in Things PROVE x \in world.held <=> x \in Owned
  <2>1. CASE x \in {Single("libraryDb"), Single("workDb"), Single("relocation"),
                    Single("relocationLock"), Single("wolfSSL")}
    <3>1. /\ Single("libraryDb") \notin Owned /\ Single("relocation") \notin Owned
          /\ Single("relocationLock") \notin Owned
          /\ Single("workDb") \in Owned /\ Single("wolfSSL") \in Owned
      BY Distinct DEF Owned, Single
    <3> QED BY <1>1, <1>3, <2>1, <3>1
            DEF Consistent, LedgerOK, LoadHeld, EngineHeld, RunningHeld
  <2>2. CASE \E name \in ArmletThings : x = Single(name)
    <3>1. x \in Owned <=> armlet.database
      BY <2>2, Distinct DEF Owned, Single, ArmletThings
    <3> QED BY <2>2, <3>1 DEF Consistent, LedgerOK, RunningHeld
  <2>3. ASSUME NEW s \in Segments, x \in {<<"resource", s>>, <<"resourceLock", s>>,
                                          <<"segment", s>>, <<"segmentLock", s>>}
        PROVE  x \in world.held <=> x \in Owned
    <3>1. <<"segment", s>> \in Owned /\ <<"segmentLock", s>> \in Owned
      BY DEF Owned
    <3>2. <<"resource", s>> \notin Owned /\ <<"resourceLock", s>> \notin Owned
      BY Distinct DEF Owned, Single
    <3> QED BY <1>1, <1>3, <2>3, <3>1, <3>2
            DEF Consistent, LedgerOK, LoadHeld, EngineHeld
  <2>4. ASSUME NEW s \in Slots, x = <<"context", s>>
        PROVE  x \in world.held <=> x \in Owned
    <3>1. x \in Owned <=> engine.control[s].context
      BY <2>4, Distinct DEF Owned, Single
    <3> QED BY <2>4, <3>1 DEF Consistent, LedgerOK, RunningHeld
  <2> QED BY <2>1, <2>2, <2>3, <2>4, ThingKinds
<1> QED BY <1>2, <1>4, <1>5, <1>6

LEMMA NothingHeld ==
    ASSUME Consistent, load.step = "idle", ~engine.loaded
    PROVE  world.held = {} /\ (world.work # 0 => world.stale)
<1>1. engine = NoEngine /\ armlet = Zeroed
  BY DEF Consistent, EngineOK
<1>2. /\ ~engine.workDb /\ engine.workDbID = 0
      /\ engine.handles = {} /\ engine.segments = {}
      /\ \A s \in Slots : ~engine.control[s].context
      /\ ~engine.control[0].initialized /\ ~armlet.database
  BY <1>1, ConstantTypes DEF NoEngine, FreeControl, Zeroed
<1>3. world.work # 0 => world.stale
  BY <1>2 DEF Consistent, StorageOK
<1>4. /\ ~load.libraryDb /\ ~load.relocation /\ ~load.relocations
      /\ load.resources = {}
  BY DEF Consistent, LoadOK
<1>5. world.held \subseteq Things
  BY DEF Consistent, TypeOK, World
<1>6. ASSUME NEW x \in world.held PROVE FALSE
  <2>0. x \in Things
    BY <1>5
  <2>1. CASE x \in {Single("libraryDb"), Single("workDb"), Single("relocation"),
                    Single("relocationLock"), Single("wolfSSL")}
    BY <1>2, <1>4, <1>6, <2>1 DEF Consistent, LedgerOK, LoadHeld, EngineHeld, RunningHeld
  <2>2. CASE \E name \in ArmletThings : x = Single(name)
    BY <1>2, <1>6, <2>2 DEF Consistent, LedgerOK, RunningHeld
  <2>3. CASE \E s \in Segments : x \in {<<"resource", s>>, <<"resourceLock", s>>,
                                         <<"segment", s>>, <<"segmentLock", s>>}
    BY <1>2, <1>4, <1>6, <2>3 DEF Consistent, LedgerOK, LoadHeld, EngineHeld
  <2>4. CASE \E s \in Slots : x = <<"context", s>>
    BY <1>2, <1>6, <2>4 DEF Consistent, LedgerOK, RunningHeld
  <2> QED BY <2>0, <2>1, <2>2, <2>3, <2>4, ThingKinds
<1> QED BY <1>3, <1>6

(* A load that fails anywhere, an unload and a reset release everything,    *)
(* once and in the order the managers want; a loaded engine holds exactly   *)
(* what it needs (LoadEngine, PalmTlsUnloadLoadedEngine).                   *)
THEOREM NothingLeaks == Spec => []Accounted
<1>1. Consistent => Accounted
  BY IdleHeld, NothingHeld DEF Accounted, Consistent, LedgerOK
<1> QED BY <1>1, AlwaysConsistent, PTL

(* No engine code runs unless exactly the longs the table names have been   *)
(* relocated, whatever the table and its order (ApplyRelocations).          *)
THEOREM RelocatesExactly == Spec => []RelocationsExact
<1>1. Consistent => RelocationsExact
  BY DEF Consistent, MemoryOK
<1> QED BY <1>1, AlwaysConsistent, PTL

(* Records are sealed natively with the present key of their own session,   *)
(* for any number of sessions and keys (palm_tls_arm_aes_set_key).          *)
THEOREM KeysStayCurrent == Spec => []NativeKeysAreCurrent
<1>1. ASSUME Consistent PROVE NativeKeysAreCurrent
  <2>1. armlet \in Adapter /\ KeysOK(armlet, aes)
    BY <1>1 DEF Consistent, TypeOK
  <2>2. ASSUME NEW x \in Objects, EntriesOf(armlet, x) # {}
        PROVE  /\ NativeKey(armlet, x) \subseteq aes[x]
               /\ aes[x] \subseteq ShortKeys
    <3> DEFINE mine == EntriesOf(armlet, x)
               i    == FirstOf(mine)
    <3>a. mine \subseteq 1..KeySlots
      BY DEF EntriesOf
    <3>1. i \in mine
      <4> HIDE DEF mine
      <4> QED BY <2>2, <3>a, FirstEntry DEF mine
    <3>2. i \in 1..KeySlots /\ armlet.keys[i].owner = x
      BY <3>1 DEF EntriesOf
    <3> HIDE DEF i
    <3>3. x # Nobody
      BY NobodyIsNoObject
    <3>4. armlet.keys[i].key = aes[x]
      BY <2>1, <3>2, <3>3 DEF KeysOK
    <3>5. armlet.keys[i].key \subseteq ShortKeys
      <4>1. armlet.keys[i] \in KeyEntry
        BY <2>1, <3>2 DEF Adapter
      <4>2. armlet.keys[i].key \in {{}} \cup {{k} : k \in ShortKeys}
        BY <4>1 DEF KeyEntry
      <4> QED BY <4>2
    <3> QED BY <3>4, <3>5 DEF NativeKey, i
  <2>3. ASSUME NEW x \in Objects, aes[x] # {}, aes[x] \subseteq ShortKeys
        PROVE  EntriesOf(armlet, x) # {}
    BY <2>1, <2>3 DEF KeysOK, EntriesOf
  <2> QED BY <2>1, <2>2, <2>3 DEF NativeKeysAreCurrent, KeysOK
<1> QED BY <1>1, AlwaysConsistent, PTL

(* Native code is on only after every verdict on it was right, and only     *)
(* while what a call of it needs is held (ValidateArmMath, RunOfflineSelf-  *)
(* Test, DISABLE_ARM).                                                      *)
THEOREM NativeStaysQualified == Spec => []NativeIsQualified
<1>1. ASSUME Consistent, load.step = "idle", armlet.enabled
      PROVE  /\ engine.loaded
             /\ engine.control[0].status = "Passed"
             /\ armlet.entry /\ armlet.request
             /\ {Single("armletLock"), Single("armletRequest")} \subseteq world.held
  <2>1. engine.loaded
    BY <1>1 DEF Consistent, EngineOK, Zeroed
  <2>2. engine.control[0].initialized
    BY <1>1, <2>1 DEF Consistent, EngineOK
  <2>3. armlet.database /\ armlet.entry /\ armlet.request
    BY <1>1 DEF Consistent, ArmletOK
  <2>4. engine.control[0].status = "Passed"
    BY <1>1, <2>2 DEF Consistent, ArmletOK
  <2>5. Single("armletLock") \in world.held /\ Single("armletRequest") \in world.held
    <3>1. \A name \in ArmletThings : Single(name) \in world.held
      BY <1>1, <2>3 DEF Consistent, LedgerOK, RunningHeld
    <3>2. "armletLock" \in ArmletThings /\ "armletRequest" \in ArmletThings
      BY DEF ArmletThings
    <3> QED BY <3>1, <3>2
  <2> QED BY <2>1, <2>3, <2>4, <2>5
<1>2. Consistent => NativeIsQualified
  BY <1>1 DEF NativeIsQualified
<1> QED BY <1>2, AlwaysConsistent, PTL
=============================================================================
