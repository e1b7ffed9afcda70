----------------------------- MODULE EngineLoader -----------------------------
(***************************************************************************)
(* Loading, relocating and unloading a protocol engine                      *)
(* (library/src/tls_loader.c), with the native adapter the engine brings    *)
(* (ArmletAdapter) and the initialise, self-test and shutdown commands of   *)
(* the engine's entry (library/src/tls_engine.c).                           *)
(*                                                                          *)
(* A load runs in one trap; its steps are actions of their own because      *)
(* every call in it may fail and the device may be reset at any point, and  *)
(* what was acquired so far must be released in the order the managers      *)
(* want, or be found again by the next load.                                *)
(***************************************************************************)
EXTENDS ArmletAdapter, FiniteSets, Sequences

CONSTANTS
    Protocols,      \* the engines packaged in the library
    Sizes,          \* [Segments -> byte sizes of the segment resources]
    Images,         \* [Segments -> [offsets -> Address]]: the linked segments
    Tables,         \* relocation resources a package may carry
    LinkLimit       \* PALM_TLS_SEGMENT_LINK_LIMIT

(* A 32-bit word of a segment, as an address: in a linker bank, in a loaded *)
(* segment, or elsewhere (segment -1).  Loaded segments lie outside the     *)
(* linker banks.                                                            *)
Address == [space: {"linked", "runtime"}, segment: Segments \cup {-1},
            offset: 0..LinkLimit]

(* Where a long can lie: at even offsets, within the segment.               *)
Longs(s) == {o \in 0..Sizes[s] : o % 2 = 0 /\ o + 4 <= Sizes[s]}

ASSUME ImageAssumption ==
    /\ Sizes \in [Segments -> Nat]
    /\ \A s \in Segments : Images[s] \in [Longs(s) -> Address]
    /\ \A t \in Tables :
          /\ t \in [version: Nat, size: Nat, count: Nat,
                    entries: Seq([segment: Nat, offset: Nat])]
          /\ t.count <= Len(t.entries)

VARIABLES
    world,          \* what is held from the managers, and storage
    engine,         \* PalmTlsLoadedEngine
    armlet,         \* the adapter's statics in the loaded engine
    memory,         \* the segments' content, empty where nothing is copied
    aes,            \* wolfSSL's Aes objects and the key of each
    table,          \* the package's relocation resource
    load            \* LoadEngine's locals, and where it stands

vars == <<world, engine, armlet, memory, aes, table, load>>

SlotControl == [open: BOOLEAN, initialized: BOOLEAN, context: BOOLEAN,
                status: Statuses]

Engine == [loaded: BOOLEAN, protocol: Protocols \cup {"none"},
           workDbID: 0..MaxCreated, workDb: BOOLEAN,
           handles: SUBSET Segments, segments: SUBSET Segments,
           control: [Slots -> SlotControl]]

Steps == {"idle", "open", "work", "copy", "relocate", "start", "cleanup"}

LoadStatuses == {"BadParameter", "Ok", "ResourceMissing", "NoMemory",
                 "RelocationFailed", "InitializationFailed"}

(* fault: a manager refused something; the tables did not.                  *)
Load == [step: Steps, index: 0..SegmentCount, protocol: Protocols \cup {"none"},
         disable: BOOLEAN, status: LoadStatuses, fault: BOOLEAN,
         libraryDb: BOOLEAN, resources: SUBSET Segments,
         relocation: BOOLEAN, relocations: BOOLEAN]

FreeControl == [open |-> FALSE, initialized |-> FALSE, context |-> FALSE,
                status |-> "Unavailable"]

NoEngine == [loaded |-> FALSE, protocol |-> "none", workDbID |-> 0,
             workDb |-> FALSE, handles |-> {}, segments |-> {},
             control |-> [s \in Slots |-> FreeControl]]

NoLoad == [step |-> "idle", index |-> 0, protocol |-> "none",
           disable |-> FALSE, status |-> "Ok", fault |-> FALSE,
           libraryDb |-> FALSE, resources |-> {},
           relocation |-> FALSE, relocations |-> FALSE]

Blank == [s \in Segments |-> << >>]

NoKeys == [x \in Objects |-> {}]

TypeOK ==
    /\ world \in World
    /\ engine \in Engine
    /\ armlet \in Adapter
    /\ \A s \in Segments : memory[s] \in {<< >>} \cup [Longs(s) -> Address]
    /\ aes \in [Objects -> {{}} \cup {{k} : k \in Keys}]
    /\ table \in Tables
    /\ load \in Load

Init ==
    /\ world = EmptyWorld
    /\ engine = NoEngine
    /\ armlet = Zeroed
    /\ memory = Blank
    /\ aes = NoKeys
    /\ table \in Tables
    /\ load = NoLoad

-----------------------------------------------------------------------------
(* Unloading: the shutdown command to every slot, slot 0 with the engine's  *)
(* own shutdown last, then every segment, unlocked and freed, then the work *)
(* database.                                                                *)

ShutdownEngine(w) ==
    LET kept     == {s \in Slots : engine.control[s].context}
        contexts == ReleaseAll(Enter(w), {<<"context", s>> : s \in kept})
        cleaned  == ReleaseIf(contexts, engine.control[0].initialized,
                              Single("wolfSSL"))
    IN  ArmletShutdown(armlet, cleaned).world

Unloaded(w) ==
    LET stopped  == IF engine.loaded /\ 0 \in engine.segments
                    THEN ShutdownEngine(w) ELSE w
        unlocked == ReleaseAll(stopped,
                        {<<"segmentLock", s>> : s \in engine.segments})
        freed    == ReleaseAll(unlocked,
                        {<<"segment", s>> : s \in engine.handles})
        closed   == ReleaseIf(freed, engine.workDb, Single("workDb"))
    IN  DeleteWork(closed, engine.workDbID)

UnloadEngine(w) ==
    /\ world' = Unloaded(w)
    /\ engine' = NoEngine
    /\ armlet' = Zeroed
    /\ memory' = Blank
    /\ aes' = NoKeys

-----------------------------------------------------------------------------
(* Loading, step by step.  A step that fails goes to the cleanup with the   *)
(* status the code reports.                                                 *)

FailLoad(status) == [load EXCEPT !.step = "cleanup", !.status = status,
                                 !.fault = TRUE]

AnyOpen == \E s \in Slots : engine.control[s].open

(* A call for an engine that is not the loaded one.  DISABLE_ARM is set     *)
(* when a self-test of this library rejected the native code before.        *)
Execute(protocol, disable) ==
    /\ load.step = "idle"
    /\ world.created < MaxCreated
    /\ engine.protocol # protocol
    /\ ~(engine.loaded /\ AnyOpen)
    /\ load' = [NoLoad EXCEPT !.step = "open", !.protocol = protocol,
                              !.disable = disable, !.status = "BadParameter"]
    /\ IF engine.loaded THEN UnloadEngine(world)
       ELSE UNCHANGED <<world, engine, armlet, memory, aes>>
    /\ UNCHANGED table

OpenLibrary ==
    /\ load.step = "open"
    /\ \/ /\ world' = Acquire(world, Single("libraryDb"))
          /\ load' = [load EXCEPT !.step = "work", !.libraryDb = TRUE]
       \/ /\ load' = FailLoad("ResourceMissing")
          /\ UNCHANGED world
    /\ UNCHANGED <<engine, armlet, memory, aes, table>>

(* A work database a reset left behind is deleted first.  When the new one  *)
(* cannot be created, workDbID still names the deleted one.                 *)
OpenWork ==
    /\ load.step = "work"
    /\ LET cleared == DeleteWork(world, world.work)
           made    == CreateWork(cleared)
       IN  \/ /\ world' = cleared
              /\ engine' = [engine EXCEPT !.workDbID = world.work]
              /\ load' = FailLoad("NoMemory")
           \/ /\ world' = made
              /\ engine' = [engine EXCEPT !.workDbID = made.work]
              /\ load' = FailLoad("NoMemory")
           \/ /\ world' = Acquire(made, Single("workDb"))
              /\ engine' = [engine EXCEPT !.workDbID = made.work,
                                          !.workDb = TRUE]
              /\ load' = [load EXCEPT !.step = "copy"]
    /\ UNCHANGED <<armlet, memory, aes, table>>

(* How far copying one segment comes.                                       *)
CopyFates == {"missing", "unlockable", "full", "unmapped", "unwritable", "copied"}

Reaches(fate, least) ==
    LET order == [missing |-> 0, unlockable |-> 1, full |-> 2, unmapped |-> 3,
                  unwritable |-> 4, copied |-> 5]
    IN  order[fate] >= order[least]

AcquireIf(w, reached, x) == IF reached THEN Acquire(w, x) ELSE w

(* Mutant of Copied: a segment that cannot be allocated leaves the resource *)
(* locked.                                                                  *)
CopiedLocked(w, s, fate) ==
    LET got      == AcquireIf(w, Reaches(fate, "unlockable"), <<"resource", s>>)
        locked   == AcquireIf(got, Reaches(fate, "full"), <<"resourceLock", s>>)
        made     == AcquireIf(locked, Reaches(fate, "unmapped"), <<"segment", s>>)
        mapped   == AcquireIf(made, Reaches(fate, "unwritable"), <<"segmentLock", s>>)
        unlocked == ReleaseIf(mapped, Reaches(fate, "unmapped"), <<"resourceLock", s>>)
    IN  ReleaseIf(unlocked, fate = "copied", <<"resource", s>>)

Copied(w, s, fate) ==
    LET got      == AcquireIf(w, Reaches(fate, "unlockable"), <<"resource", s>>)
        locked   == AcquireIf(got, Reaches(fate, "full"), <<"resourceLock", s>>)
        made     == AcquireIf(locked, Reaches(fate, "unmapped"), <<"segment", s>>)
        mapped   == AcquireIf(made, Reaches(fate, "unwritable"), <<"segmentLock", s>>)
        unlocked == ReleaseIf(mapped, Reaches(fate, "full"), <<"resourceLock", s>>)
    IN  ReleaseIf(unlocked, fate = "copied", <<"resource", s>>)

CopySegment(fate) ==
    LET s == load.index
    IN  /\ load.step = "copy"
        /\ fate = "unwritable" => Stored(s)
        /\ world' = Copied(world, s, fate)
        /\ engine' = [engine EXCEPT
              !.handles  = IF Reaches(fate, "unmapped") THEN @ \cup {s} ELSE @,
              !.segments = IF Reaches(fate, "unwritable") THEN @ \cup {s} ELSE @]
        /\ IF fate = "copied"
           THEN /\ memory' = [memory EXCEPT ![s] = Images[s]]
                /\ load' = [load EXCEPT !.index = @ + 1,
                      !.step = IF s + 1 < SegmentCount THEN @ ELSE "relocate"]
           ELSE /\ load' = [FailLoad(IF fate \in {"missing", "unlockable"}
                                     THEN "ResourceMissing" ELSE "NoMemory")
                            EXCEPT !.resources =
                                IF fate = "missing" THEN {} ELSE {s}]
                /\ UNCHANGED memory
        /\ UNCHANGED <<armlet, aes, table>>

-----------------------------------------------------------------------------
(* Relocation.  Entry i of the C table is element i + 1 of the sequence.    *)

RuntimeAddress(a) ==
    IF a.space = "linked" /\ a.segment # -1 /\ a.offset < LinkLimit
    THEN [a EXCEPT !.space = "runtime"] ELSE a

Indices == 0..(table.count - 1)
Entry(i) == table.entries[i + 1]

HeaderFits == table.size >= 4 /\ table.version = 1 /\ 4 + 6 * table.count <= table.size

(* The part of the table that is scanned for a segment.                     *)
OfSegment(s) == {i \in Indices : Entry(i).segment = s}

First(s) ==
    IF OfSegment(s) = {} THEN table.count
    ELSE CHOOSE i \in OfSegment(s) : \A j \in OfSegment(s) : i <= j

(* Mutant of Limit: the scan ends before the segment's last entry.          *)
LimitShort(s) ==
    IF OfSegment(s) = {} THEN 0
    ELSE CHOOSE i \in OfSegment(s) : \A j \in OfSegment(s) : i >= j

Limit(s) ==
    IF OfSegment(s) = {} THEN 0
    ELSE 1 + CHOOSE i \in OfSegment(s) : \A j \in OfSegment(s) : i >= j

Scanned(s) == {i \in First(s)..(Limit(s) - 1) : Entry(i).segment = s}

InBounds(s, offset) ==
    offset % 2 = 0 /\ Sizes[s] >= 4 /\ offset <= Sizes[s] - 4

Patches(s) == \A i \in Scanned(s) : InBounds(s, Entry(i).offset)

Patched(s, image) ==
    [o \in DOMAIN image |->
        IF \E i \in Scanned(s) : Entry(i).offset = o
        THEN RuntimeAddress(image[o]) ELSE image[o]]

(* Segments are patched in order; the first that has an entry out of bounds *)
(* ends the scan, as does the one the managers refuse memory or the write   *)
(* for (refused, SegmentCount when they refuse none).                       *)
Reached(refused) ==
    LET bad == {s \in Segments : ~Patches(s) \/ s = refused}
    IN  IF ~HeaderFits \/ \E i \in Indices : Entry(i).segment \notin Segments
        THEN 0
        ELSE IF bad = {} THEN SegmentCount ELSE FirstOf(bad)

AppliedCount == Cardinality(UNION {Scanned(s) : s \in Segments})

Relocated(refused) ==
    [s \in Segments |->
        IF s < Reached(refused) THEN Patched(s, memory[s]) ELSE memory[s]]

ApplyRelocations(refused) ==
    /\ memory' = Relocated(refused)
    /\ load' = IF Reached(refused) = SegmentCount /\ AppliedCount = table.count
               THEN [load EXCEPT !.step = "start", !.relocation = TRUE,
                                 !.relocations = TRUE]
               ELSE [load EXCEPT !.step = "cleanup", !.relocation = TRUE,
                                 !.relocations = TRUE,
                                 !.status = "RelocationFailed",
                                 !.fault = refused < SegmentCount]

GetRelocations ==
    LET got == Acquire(world, Single("relocation"))
    IN  /\ load.step = "relocate"
        /\ \/ /\ load' = FailLoad("ResourceMissing")
              /\ UNCHANGED <<world, memory>>
           \/ /\ load' = [FailLoad("RelocationFailed") EXCEPT !.relocation = TRUE]
              /\ world' = got
              /\ UNCHANGED memory
           \/ /\ \E refused \in 0..SegmentCount : ApplyRelocations(refused)
              /\ world' = Acquire(got, Single("relocationLock"))
        /\ UNCHANGED <<engine, armlet, aes, table>>

-----------------------------------------------------------------------------
(* The initialise command: the adapter, wolfSSL, and the key pair test that *)
(* native math must pass before it is trusted.  The TLS 1.1 engine has no   *)
(* such test: there the pair is always right.                               *)

(* Mutant of ValidateArmMath: the verdict is recorded, the hook stays on.   *)
ValidateArmMathLax(a, right) ==
    [adapter |-> a,
     status  |-> IF a.status = "Passed" /\ ~right THEN "Failed" ELSE a.status]

ValidateArmMath(a, right) ==
    IF a.status = "Passed" /\ ~right
    THEN [adapter |-> ArmletDisable(a), status |-> "Failed"]
    ELSE [adapter |-> a, status |-> a.status]

Start(fate, wolfSSL, right) ==
    LET begun     == ArmletInitialize(armlet, Enter(world), fate)
        permitted == IF load.disable THEN ArmletDisable(begun.adapter)
                     ELSE begun.adapter
        verdict   == ValidateArmMath(permitted, right)
    IN  /\ load.step = "start"
        /\ IF wolfSSL
           THEN /\ world' = Acquire(begun.world, Single("wolfSSL"))
                /\ armlet' = verdict.adapter
                /\ engine' = [engine EXCEPT
                      !.loaded = TRUE, !.protocol = load.protocol,
                      !.control[0].initialized = TRUE,
                      !.control[0].status = verdict.status]
                /\ load' = [load EXCEPT !.step = "cleanup", !.status = "Ok"]
           ELSE /\ world' = begun.world
                /\ armlet' = permitted
                /\ engine' = [engine EXCEPT !.loaded = TRUE,
                                            !.protocol = load.protocol]
                /\ load' = FailLoad("InitializationFailed")
        /\ UNCHANGED <<memory, aes, table>>

(* What LoadEngine releases whether or not it succeeded.                    *)
Cleaned(w) ==
    LET unlocked == ReleaseIf(w, load.relocations, Single("relocationLock"))
        released == ReleaseIf(unlocked, load.relocation, Single("relocation"))
        resources == ReleaseAll(released,
                         {<<"resource", s>> : s \in load.resources})
    IN  ReleaseIf(resources, load.libraryDb, Single("libraryDb"))

Cleanup ==
    /\ load.step = "cleanup"
    /\ load' = [NoLoad EXCEPT !.status = load.status]
    /\ IF load.status # "Ok" THEN UnloadEngine(Cleaned(world))
       ELSE /\ world' = Cleaned(world)
            /\ UNCHANGED <<engine, armlet, memory, aes>>
    /\ UNCHANGED table

-----------------------------------------------------------------------------
(* A loaded engine at work, as far as the adapter sees it.                  *)

Ready == load.step = "idle" /\ engine.loaded

FreeSlots == {s \in Slots : ~engine.control[s].open}

(* A session is opened in the first free slot, on a context of its own or   *)
(* the one the slot kept.                                                   *)
OpenSession ==
    LET s == FirstOf(FreeSlots)
    IN  /\ Ready
        /\ FreeSlots # {}
        /\ engine' = [engine EXCEPT
              !.control[s].open = TRUE, !.control[s].context = TRUE,
              !.control[s].initialized = TRUE,
              !.control[s].status = IF engine.control[s].initialized THEN @
                                    ELSE engine.control[0].status]
        /\ world' = IF engine.control[s].context THEN world
                    ELSE Acquire(world, <<"context", s>>)
        /\ UNCHANGED <<armlet, memory, aes, table, load>>

(* wolfSSL gives a direction of a session a key: the first, or, at a key    *)
(* update, another of the same length.                                      *)
SetSessionKey(x, key) ==
    /\ Ready
    /\ engine.control[x[1]].open
    /\ aes[x] # {} => (aes[x] \subseteq ShortKeys <=> key \in ShortKeys)
    /\ aes' = [aes EXCEPT ![x] = {key}]
    /\ armlet' = SetKey(armlet, x, key)
    /\ UNCHANGED <<world, engine, memory, table, load>>

(* The session ends and its Aes objects are freed; its context may be kept. *)
CloseSession(s, kept) ==
    /\ Ready
    /\ engine.control[s].open
    /\ engine' = [engine EXCEPT !.control[s].open = FALSE,
                                !.control[s].context = kept]
    /\ world' = ReleaseIf(world, ~kept, <<"context", s>>)
    /\ armlet' = FreeKey(FreeKey(armlet, <<s, "send">>), <<s, "receive">>)
    /\ aes' = [aes EXCEPT ![<<s, "send">>] = {}, ![<<s, "receive">>] = {}]
    /\ UNCHANGED <<memory, table, load>>

(* RunOfflineSelfTest, refused while a session is open.  Its own Aes object *)
(* is keyed and freed within the call.                                      *)
SelfTest(right) ==
    /\ Ready
    /\ ~AnyOpen
    /\ engine.control[0].status = "Passed"
    /\ \E key \in ShortKeys :
          LET tested == FreeKey(SetKey(armlet, TestObject, key), TestObject)
          IN  armlet' = IF right THEN tested ELSE ArmletDisable(tested)
    /\ engine' = IF right THEN engine
                 ELSE [engine EXCEPT !.control[0].status = "Failed"]
    /\ UNCHANGED <<world, memory, aes, table, load>>

(* The purge and the last close drop the engine, live sessions with it.     *)
Unload ==
    /\ Ready
    /\ UnloadEngine(world)
    /\ UNCHANGED <<table, load>>

Reset ==
    /\ world' = SoftReset(world)
    /\ engine' = NoEngine
    /\ armlet' = Zeroed
    /\ memory' = Blank
    /\ aes' = NoKeys
    /\ load' = NoLoad
    /\ UNCHANGED table

Next ==
    \/ \E p \in Protocols, disable \in BOOLEAN : Execute(p, disable)
    \/ OpenLibrary
    \/ OpenWork
    \/ \E fate \in CopyFates : CopySegment(fate)
    \/ GetRelocations
    \/ \E fate \in Fates, wolfSSL, right \in BOOLEAN : Start(fate, wolfSSL, right)
    \/ Cleanup
    \/ OpenSession
    \/ \E x \in Objects, key \in Keys : SetSessionKey(x, key)
    \/ \E s \in Slots, kept \in BOOLEAN : CloseSession(s, kept)
    \/ \E right \in BOOLEAN : SelfTest(right)
    \/ Unload
    \/ Reset

Spec == Init /\ [][Next]_vars

-----------------------------------------------------------------------------
(* Properties.                                                              *)

(* What a loaded engine holds between two traps.                            *)
Owned ==
    {Single("workDb"), Single("wolfSSL")}
    \cup ({"segment", "segmentLock"} \X Segments)
    \cup {<<"context", s>> : s \in {t \in Slots : engine.control[t].context}}
    \cup (IF armlet.database THEN {Single("armletDb"), Single("armlet"),
                                   Single("armletLock"), Single("armletRequest")}
          ELSE {})

(* Whatever call of a load, an unload or an initialisation fails, nothing   *)
(* is released twice, too early or not at all: between traps a loaded       *)
(* engine holds exactly what its record says, without an engine nothing is  *)
(* held, and the only work database without an engine is one a reset left.  *)
Accounted ==
    /\ ~world.misused
    /\ load.step = "idle" =>
          IF engine.loaded THEN world.held = Owned /\ world.work = engine.workDbID
          ELSE world.held = {} /\ (world.work # 0 => world.stale)

WellFormed ==
    /\ table.version = 1
    /\ 4 + 6 * table.count <= table.size
    /\ \A i \in Indices :
          Entry(i).segment \in Segments /\ Entry(i).offset \in Longs(Entry(i).segment)

(* Exactly the longs the table names are turned into runtime addresses,     *)
(* each once, whatever the order of the table, before any engine code runs; *)
(* and only a malformed table is rejected.                                  *)
RelocationsExact ==
    /\ load.step = "start" \/ engine.loaded =>
          /\ WellFormed
          /\ \A s \in Segments : \A o \in Longs(s) :
                memory[s][o] =
                    IF \E i \in Indices : Entry(i) = [segment |-> s, offset |-> o]
                    THEN RuntimeAddress(Images[s][o]) ELSE Images[s][o]
    /\ load.status = "RelocationFailed" /\ load.step = "cleanup" /\ ~load.fault =>
          ~WellFormed

(* A record of a session is sealed natively with the session's own present  *)
(* key, through key updates and the ends of other sessions; the table never *)
(* runs out of entries, and keeps no key of an object that was freed.       *)
NativeKeysAreCurrent ==
    /\ \A x \in Objects : EntriesOf(armlet, x) # {} => NativeKey(armlet, x) \subseteq aes[x]
    /\ \A x \in Objects : aes[x] # {} =>
          (EntriesOf(armlet, x) # {} <=> aes[x] \subseteq ShortKeys)
    /\ \A i \in 1..KeySlots :
          armlet.keys[i].owner # Nobody =>
             /\ armlet.keys[i].owner \in Objects
             /\ armlet.keys[i].key = aes[armlet.keys[i].owner]

(* Native code that is switched on has passed every test it was put to, and *)
(* can be called: a rejected verdict, of this load, of a self-test or of an *)
(* engine loaded before, leaves the hook off.                               *)
NativeIsQualified ==
    load.step = "idle" /\ armlet.enabled =>
        /\ engine.loaded
        /\ engine.control[0].status = "Passed"
        /\ armlet.entry /\ armlet.request
        /\ {Single("armletLock"), Single("armletRequest")} \subseteq world.held
=============================================================================
