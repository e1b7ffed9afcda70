# PalmTLS: specification, model checking and proofs

This directory is the formal companion of the repository. It holds TLA+ modules
translated from the C sources, TLC configurations that check them on small
instances, and theorems that TLAPS proves for every value of the constants.
Paths below are relative to the repository (`src/` is its root here).

Running things (in this directory):

    tlc -workers 2 -config MCEngineLoader.cfg MCEngineLoader.tla
    tlc -workers 2 -config MCDownloadFile.cfg MCDownloadFile.tla
    tlapm EngineLoaderProofs.tla

## 1. The system

PalmTLS is a TLS client library for Palm OS (68K, with an optional ARM native
part). It is a *shared* library: one instance with one set of globals serves
every application on the device. Palm OS serialises library traps, so the
concurrency is between *callers*: each trap runs to its end, but between two
traps of one application any other caller may have opened, used, closed,
cancelled or purged.

| Component | Source | State it keeps | Operations | Talks to |
| --- | --- | --- | --- | --- |
| Shared-library traps | `library/src/palm_library.c` | `PalmTlsLibraryState`: open count, ID generator, last ARM verdict | open, close, sleep, wake, capabilities, self-test, exchange, exchange-stream, session open / handshake / write / read / close / cancel, profile query, purge | calls the dispatcher |
| Engine dispatcher and loader | `library/src/tls_loader.c` | `PalmTlsLoadedEngine`: the loaded engine, its segments and work database, the array of session slots | `PalmTlsExecute`, `PalmTlsUnloadEngine`, `LoadEngine`, relocation | calls the engine through a relocated entry point |
| Session engine | `library/src/tls_engine.c` | `PalmTlsEngineControl` per slot: phase, ID, SSL object, context cache with its trust copy, resumption entry with its trust copy, profiler | the commands: exchange, open, handshake, write, read, close, cancel, self-test, query, initialise, shut down | wolfSSL, NetLib, profiler, ARMlet |
| Handshake profiler | `library/src/tls_handshake_profile.c` | per slot: periods, a stack of timed scopes, suspension | start, enter, leave, suspend, finish, close, snapshot | called by the engine and by hooks in wolfSSL |
| ARMlet adapter | `library/src/tls_armlet.c` | globals: native code, AES key slots, verdict | initialise, shut down, disable, set and free AES keys, AES-GCM, ChaCha20-Poly1305, P-256 | calls native code, falls back to 68K code |
| Native arithmetic | `library/arm/multiply.c` | none | P-256 field, order and points, schoolbook product, AES, GHASH, ChaCha20, SHA-256 | called by the adapter |
| HTTP parser | `components/http/src/http.c` | `HttpParser`: framing state, header buffer, remaining length | init, feed, finish; URL and redirect helpers | hands body bytes to a callback |
| Download store | `apps/tls-tester/src/download_store.c` | a Palm database: two metadata records, data records of 4 KiB, or a VFS file; an in-memory copy of the metadata | open, restart, accept response, append, flush, complete, close, delete, export | Data Manager, VFS Manager |
| Download client | `apps/tls-tester/src/download_client.c` | `DownloadClientJob`: state, deadlines, socket, session ID, parser, store | start, step, cancel; a blocking variant | all of the above |
| Tester application | `apps/tls-tester/src/main.c` | forms and preferences | event loop | all of the above |

### What is hard here

* **Sharing.** A session ID is 16 bits and wraps; IDs of closed sessions stay
  queryable through their profile. Another caller's purge, or a request for
  another protocol, takes the engine away from everybody. Status codes are
  left in the result by the *load* when the command itself finds nothing to do.
* **Caches that outlive sessions.** A slot keeps a configured context and a
  ticket. They may be used again only under the same host, mode and exact trust
  bytes, and must be freed once whatever path a session takes. The native key
  table is keyed by the address of an object that may be freed and allocated
  again.
* **Partial failure.** An open can fail after the context, the SSL object or
  the ticket copy exist; a load after any of its calls; an append
  over two records in the second; a download in any of its states.
* **Verdicts that must stick.** A self-test that finds native math wrong has to
  switch it off, and to bind the engines loaded later.
* **Crash and restart.** A reset (battery, user) can come between any two
  database writes of the download store, or any two steps of a load.
* **Cooperative steps.** The download job is stepped from an event loop: each
  step races a deadline, a cancel, and the peer.
* **Input split anywhere.** The HTTP parser sees a response in pieces that end
  at any byte, chunk framing included.
* **Arithmetic without branches.** The native code has formulas that are wrong
  for equal points, carries out of the top window, residues that are one bit
  too long.

`PROJECT.json` lists each hazard at its line with the property that covers it,
or says why none does.

### What makes each component correct

* Traps, dispatcher, engine: IDs unambiguous; no call disturbs a session it does
  not name; caches exact; nothing leaked, nothing freed twice; Busy only when
  something is in use, and every slot comes back; a verdict against native math binds; every answer is
  about the session it was asked about.
* Loader: whatever fails, everything acquired is released once and in order;
  exactly the relocations of the table are applied before any engine code runs.
* Profiler: exclusive ticks partition the elapsed time, also over a clock that
  wraps; what is reported complete was paired; a closed profile does not change.
* ARMlet: a record is sealed with the present key of its own session or not
  natively at all; native code is on only after every verdict on it was right.
* Native arithmetic: every command answers what textbook arithmetic does.
* HTTP parser: the body handed out does not depend on how the input is split;
  a message that says where it ends (a length or chunks) finishes only when it
  is whole, and only after such a one is a connection used again.
* Download store: after any reset the store opens, and what it says is
  downloaded is what is stored, of one version; what is marked complete is whole
  (the code keeps this only for responses that say where they end: observations).
* Download job: it ends; it ends as complete only with the complete body of a
  response that says where it ends; it leaves no socket or session open, and no
  database of a store that it opened.

## 2. Modules

| Module | What it is |
| --- | --- |
| `TlsEngine` | One session slot. Every operator is one C function of `tls_engine.c` on `PalmTlsEngineControl`: it takes the record and returns the record the function leaves. What wolfSSL and the memory manager answer is a parameter. `heap` counts objects allocated for the slot and is the only field that is not in the C structure: it belongs to the allocator and survives a `MemSet` of the slot. |
| `PalmTlsLibrary` | The state machine of the traps. Each trap is one action. `Prepare` is the head of `PalmTlsExecute` (engine reuse, Busy, unload, load), `Holder` is `FindSessionControl`, `FreeSlots`/`FirstOf`/`Acquire` are `AcquireSessionControl`. Callers are not modelled as processes: any call with any session ID, its own, stale or a stranger's, may come next. At its end stand the refinement mapping `LiveSessions` and `ServiceSpec`. |
| `TlsSessionService` | The abstract specification of the traps: a few numbered sessions of one protocol, opened under fresh IDs, ended one by one or all at once. No slots, no engine, no caches. |
| `MCLibrary` | TLC instances: named requests and option sets, the view. |
| `PalmTlsLibraryProofs` | The theorems about the invariants of `PalmTlsLibrary`. |
| `PalmTlsServiceProofs` | The theorems about its steps: the action properties and the refinement of `TlsSessionService`. |
| `PalmResources` | The managers the loader and the adapter acquire things from, as a *ledger*: a thing is held until it is released, and may stand on another (a segment on the work database, a lock on what it locks, a context on wolfSSL). Releasing what is not held or what something stands on, acquiring twice, running engine code in segments that are not locked, and deleting an open database are misuses the ledger remembers. The work database is also a file that survives a reset. |
| `ArmletAdapter` | The statics of `tls_armlet.c` as one record, and its operations on it: initialise (with every way it can end), shut down, disable, and the AES key table. |
| `EngineLoader` | `LoadEngine` step by step, each call with its failures, relocation of any table over any segments, cleanup, unload, reset; and a loaded engine at work as far as the adapter sees it: sessions, keys and key updates, closes with the context kept or not, self-tests. Extends the two modules above. |
| `MCEngineLoader` | Segments, images and nine relocation tables for TLC. |
| `EngineLoaderProofs` | The theorems about `EngineLoader`, and so about the adapter and the ledger. |
| `HandshakeProfile` | The profiler of each slot, the current one, the clock; beside it `actual`, the ticks that an observer with a perfect stack would have charged. `MCHandshakeProfile` adds the symmetry. |
| `HandshakeProfileProofs` | The theorems about `HandshakeProfile`. |
| `FieldLimbs` | The word arithmetic of `multiply.c`, limb by limb with its carries: the field's Montgomery product and reduction, the order's, inversion, the schoolbook product. |
| `P256Points` | Its point arithmetic: doubling, the four additions, tables, windows, comb, the recoding of scalars. |
| `NativeMath` | `PalmTlsArmletEntry`'s public-key commands over the two, a digit a step, against the textbook's group law. `MCNativeMath` holds the requests. |
| `HttpParser` | `HttpParserInit`, `Feed` and `Finish` over a response that comes in pieces of any size, with a sink that may refuse. A `shadow` parser is fed octet by octet. `MCHttpParser` holds the responses. |
| `DownloadStore` | The tester's store for one URL, driven by its client and its Files screen. Every operator is one C function of `download_store.c`; it takes and returns a value `m` made of the device, the `DownloadStore`, the error and the *trail*: every device state the operation writes on its way. An action runs an operation to its end or, if a reset may interrupt it, leaves the device in one state of the trail, with everything closed. |
| `DownloadFile` | The abstract specification of the store: a file that is the beginning of one version, grows, may be started again while incomplete, and is complete only when whole. Complete means here that a response which gave its length or was chunked vouched for it. |
| `DownloadFileRefinement` | The refinement: an auxiliary variable follows the device, the file the next download would find on it. |
| `MCDownloadStore`, `MCDownloadFile` | TLC instances of the store, alone and with the file. |
| `DownloadStoreProofs` | The theorems about `DownloadStore` in any environment. |
| `DownloadFileProofs` | Those in a calm environment: the store always opens, deletes leave nothing, and it implements `DownloadFile`. |
| `DownloadJob` | The cooperative job of `download_client.c`, one action per state of `DownloadClientStep`, with its start, cancel, redirect, deadlines and finish, and the parts of `main.c` around it: start-up, the blocking request, the end. NetLib, the library and the store answer as they may. |
| `DownloadTransfer` | The abstract specification of the job: transfers that connect, send, receive, store, start again by a redirect a bounded number of times, and end well only at their end. |
| `MCDownloadJob`, `DownloadJobProofs` | The TLC instance; the theorems about `DownloadJob`. |
| `NumberLemmas` | Least and greatest elements of sets of numbers, for the proofs. |

How the state corresponds to the code:

| Variable or field | Code |
| --- | --- |
| **`PalmTlsLibrary`** `openCount`, `nextSessionId`, `armStatus` | the fields of `PalmTlsLibraryState`; `openCount = 0` means that there are no globals |
| `engine.loaded`, `engine.protocol` | `PalmTlsLoadedEngine.loaded`, `.protocol` |
| `engine.armStatus`, `engine.hook` | the engine's own verdict, and whether its native hook is installed |
| `control[s]` | `PalmTlsLoadedEngine.controls[s]` |
| `control[s].phase` | `opening` and `active` flags as one value |
| `control[s].session` | `sessionP`: the request it serves, the trust store it runs on (`store`), the ticket it offers, and the two option flags read again at close |
| `control[s].context`, `.resume` | `contextP` with `contextTrustP`; `resumeSessionP` with `resumeTrustP`. A saved ticket carries its `origin` (the request and engine it was negotiated under): a ghost, so that a mislabelled entry is visible |
| `reply` | what the last trap returned: which operation, for which ID, with which status |
| **`EngineLoader`** `world` | the ledger: `held`, and the work database (`work` is the one that exists, `created` a bound, `stale` says a reset left it) |
| `engine` | `PalmTlsLoadedEngine`: `workDb` is `workDbP # NULL`, `handles` and `segments` the entries that are set, `control[s]` what matters of a slot |
| `armlet` | the file's statics; `keys[i].owner` is an object's address, `Nobody` for NULL |
| `memory[s]` | the long words of a loaded segment: in a linker bank, relocated, or elsewhere; empty where nothing is copied |
| `aes` | which key each of wolfSSL's Aes objects has: one per direction of a session |
| `table` | the relocation resource: version, size, count and entries, well-formed or not |
| `load` | `LoadEngine`'s locals and where it stands; `fault` (a ghost) is set when a manager refused something |
| **`HandshakeProfile`** `profiler[s]`, `gCurrent` | the `PalmTlsHandshakeProfiler` of a slot; the current one |
| **`HttpParser`** `parser` | the `HttpParser`; `wire` is what has not been fed |
| **`DownloadStore`** `device.slots`, `.data`, `.files` | the two metadata records (`None`: blank or torn), the data records laid end to end, the files on the card |
| `device.open`, `.openFiles` | what the Data Manager and the VFS Manager hold open; a reset closes it, freeing the C structure does not |
| `store` | the `DownloadStore` in the job; `metadata.sum` stands for the CRC-32: the data it was computed over; `metadata.stated` is a ghost that no guard reads: whether the response last accepted gave its length or was chunked |
| `job` | how far the client is: `stage` is `body` while the parser knows where the body ends, `stream` while only the end of the connection ends it |
| **`DownloadJob`** `job` | the `DownloadClientJob`: `session` is `sessionId # 0`, `socket` is `socket >= 0`, `start` is `phaseStart`, or `idleStart` while reading |
| `world` | the ledger of what the application holds: library, network, socket, session, store, memory, certificate, and `stray`: what a store that failed to open left open; `sound` turns false at a call that may not be made, `ending` says how the last session went |
| `server` | the response to the last request and how much of it came |
| `clock`, `gap` | `TimGetTicks`, which wraps; ticks since the last step |

Faults are inputs. A mutant of a definition (named in its comment) stands
directly before the definition; nothing uses it. It is what `PROJECT.json`
substitutes to see that each property can fail.

How the modules meet: the store and the job are two views of one program. In
`DownloadJob` the store is a resource with answers; in `DownloadStore` the job
is a caller. Likewise `PalmTlsLibrary` takes the outcomes of a load (loaded,
missing, failed) that `EngineLoader` works out, and the verdict of native code
that `ArmletAdapter` comes to.

## 3. Runs

| Run | Instance | What it shows |
| --- | --- | --- |
| `library_cache` | 1 slot, an ARM device, 5 requests differing in host, mode and bytes, 4 option sets, 2 engines, failures of allocation, handshake and load | The caches are exact (`ExactReuse`), everything allocated is freed once (`HeapBalanced`), types hold, and a verdict against native math that the library holds binds the loaded engine (`ArmFallback`) |
| `library_sessions` | 2 slots, IDs that wrap at 5, 2 engines, profiles | IDs stay unambiguous, no call disturbs a session it does not name, Busy means in use and no slot is lost (`BusyMeansInUse`), the profile of a closed session stays until its own slot is taken (`ClosedProfileKept`), and the library implements `TlsSessionService` |
| `engine_loader` | 4 segments, 2 slots, 2 engines, 3 keys, 9 relocation tables, two loads, every failure, resets anywhere | Nothing is leaked or released out of order (`Accounted`), relocation is exact (`RelocationsExact`), native keys are current (`NativeKeysAreCurrent`), native code is qualified (`NativeIsQualified`) |
| `handshake_profile` | 2 slots, scopes that nest too deep, are left open or suspended, a clock that wraps | Ticks go to the innermost scope, once (`ExclusiveTicks`, `Partition`), complete means paired (`CompleteIsPaired`), closed means fixed (`ClosedIsKept`) |
| `native_math` | a curve of prime order 3889, every scalar on the generator, boundary scalars on other points, many rows of small limbs | Products of numbers and points (`Products`, `Answers`), no addition meets a case its formula does not have (`EqualPoints`), the recoding is a signed-digit form (`WnafForm`) |
| `http_parser` | responses of every framing, good and bad, in pieces that end anywhere | The cuts make no difference (`SplitIndependent`), the sink gets the body (`DeliversBody`), finished means whole if the response says where it ends (`FinishedIsWhole`), reusable means that such a one has been read whole, over HTTP/1.1 and without `Connection: close` (`ReusableAtMessageEnd`) |
| `download_job` | one redirect, a request of two units, responses of one or two, a clock that wraps | Calls come in a legal order (`CallsInOrder`), nothing is left but what a store that failed to open left (`NothingLeft`), sessions end as they should (`EndsAsItWas`), Ok means the whole of an answer that says where it ends (`OkIsWhole`), the job ends (`Terminates`) and implements `DownloadTransfer` |
| `store_refines` | 2 versions of the file, a card that comes and goes, short writes, resets during every operation that does not take data away before it commits | The store can always be opened again (`AlwaysOpens`), a reset costs less than one commit interval (`LossBounded`), a deleted entry takes its file with it, and the store implements `DownloadFile` |
| `store_resets` | as above, resets during every operation, failing records | Whatever a store that opens recovers is the beginning of one version, and a whole one if it is marked complete on the word of a response that gave its length or was chunked (`RecoversTruth`) |
| `dead_session_read`, `restart_reset`, `error_page` | the smallest that show it | *Violations*: see findings |

Bounds, and why they are enough:

* **One or two slots.** The code has two. Caching is a matter of one slot and
  of one session after another, so `library_cache` uses one slot and spends its
  states on requests; anything between slots needs the two of the other runs.
* **IDs.** Two slots reserve at most four IDs (live and profiled in each), so 5
  is the smallest generator that always finds one, and the one that wraps
  soonest; the code has 65535. The assumption `MaxSessionId > 2 * MaxSessions`
  is all that the proof uses.
* **`MaxOpens`** bounds outstanding opens of the library; two is enough to tell
  a shared close from the last.
* **VIEW StateView.** The library runs identify states that differ in `reply`
  alone. No guard reads it, and the one checked property that reads it
  unprimed is `TypeOK`, which is also proved; so nothing is lost.
* **Loads.** `MaxCreated` bounds the work databases ever created: two let a load
  find what a reset left of the one before, and replace another engine. Four
  segments: two with several longs, one of a single long, one too small for
  any; the last is copied to dynamic memory. The tables are empty, grouped, unsorted, of
  another version, too short for their count, odd, out of bounds, in a segment
  too small, and in a segment that does not exist. Four key entries for two
  slots are the fewest the code's assumption allows; two short keys and a long
  one are enough for a key update and for one that stays with wolfSSL.
  `LinkLimit` stands for the window of a linker bank.
* **Profiles.** `Wrap` is 8 and `MaxTicks` 2, so a reading is never a whole turn
  old, and `Starts` makes the clock wrap at once. `Depth` 2 (16 in the code) and
  `DetailDepth` 1 (8) overflow within `MaxScopes` 3; `MaxCalls` 2 lets a call on
  one slot fall between two of the other. Slots are symmetric. Detail scopes
  are entered for one of the two (`Detailed`); the two share their code.
* **Native math.** P-256's parameters are replaced by small ones of the same
  shape: the order is 1 modulo 16, above half of the scalar range and a little
  below its end, its top window is all ones (the comb's columns rest on this);
  limbs of one bit give a prime of the same five terms as p, 199; points
  are over the prime 3853. TLC's integers
  bound the digit base of the schoolbook product to 4.
* **Responses.** `MaxPiece` 9 cuts a response anywhere with one or more framing
  elements in a piece; the header buffer holds 16 octets and the size line 3,
  so both overflow; `Word` 256 with `MaxShift` 15 makes a chunk size overflow
  at its third digit, which the size 257 without an extension reaches. The sink has room for everything or for three octets.
* **The job.** `Timeout` 2 with `StepTicks` 1 and `MaxGap` 1 lets a step end
  before, at and after the deadline; `Word` 6 is the least with which the
  assumption holds that a deadline is noticed before the clock has gone once
  round, so the clock wraps within a job.
* **Units of the store.** A record holds two units, an append brings one or two,
  a commit is due after three (two in `store_resets`), versions are four and
  three long: appends straddle records, commits fall inside and at the end of a
  version, and a torn file can be cut at every unit. `MaxGeneration` bounds the
  generation a download or an export starts from: three allows one resumed
  download, four allows two, and a restart begins again at zero. The code
  compares generations and takes their parity, nothing else.
* Data is abstract: hosts and trust bytes are model values compared for
  equality, which is all the code does with them.

Deadlock is checked in the library, loader, store and job runs: there is always
a caller who may make a call, a device that may be reset, an application that
may start. A response ends, a request is answered, and the observed part of a
profile is bounded, so `http_parser`, `native_math` and `handshake_profile` stop
and say so.

**Fairness** is assumed for `download_job` alone: weak fairness of a step of the
job and of a tick. `EvtGetEvent` waits one tick while a download runs and then
answers `nilEvent`, which steps it, so neither stops; what the user does is
unfair. The library, the loader and the store have no scheduling of their own (a
caller may stop between any two calls and never come back).

The server of the store is taken to be truthful: it has versions with
validators, a 206 continues where the request asked, and a 416 comes only for
the version the request named in `If-Range` (the store does not compare the
validator of a 416). The server of the job is not: it may stall, cut off, and
redirect for ever.

### Findings

1. **A dead session reads as end of file** (`dead_session_read`). A read, write
   or handshake under an ID whose session was ended by somebody's purge finds no
   engine, loads one, finds no slot and returns the status the *load* left:
   `Ok`, zero bytes. `API.md` says "A successful zero-byte read is clean TLS
   EOF", so a cut-off transfer looks complete. Close and cancel, which ask
   whether an engine is loaded, answer `BadParameter`.
2. **A reset during a restart** (`restart_reset`). A 200 that starts a download
   again removes the data first and commits the new metadata after. A reset in
   between leaves, on a card, metadata that counts a file that is gone: opening
   fails for good. In records, too few of them is noticed and healed, but
   records are removed from the front: when uncommitted ones follow, enough
   remain, of the wrong data, and the checksum then fails for good as well
   (`AlwaysOpens` also fails without a card when resets come everywhere).
3. **The page of a 416** (`error_page`) is appended to the download it has just
   marked complete.

### Observations

What the code does in corners that no document speaks of, or that stay outside
the checked instances. The models do the same as the code here, but where
section 5 says that something is left out.

* Store. An append that fails in its second record counts the first but not its
  checksum, and the flush commits both (`AlwaysOpens` fails with
  `Faults = {"NoRecord"}` and no resets). Another filename in a 206 is stored
  while the data goes on into the old file, and the next open looks for the new
  name (`AlwaysOpens` fails with `Names = {None, "a.bin"}`). A start without the
  card fails with the database open, and deleting the entry is refused until a
  reset: `DownloadClientStart` frees the job without closing its store
  (`download_client.c:759-765`), and no later step closes it, not even the end of
  the application. `DownloadStore` keeps such a database open in the device, and
  `DownloadJob` keeps it in the ledger as `stray`, the exception in `NothingLeft`.
  A reset inside a delete leaves an entry whose file is gone, which does not
  open until it is deleted again (`AlwaysOpens` fails with
  `ResetDuring = {"Delete"}`). An entry exported before any response has named it
  goes to a file without a name, which is never deleted; when the next response
  names it and the card then refuses that file, the data goes on into the nameless
  one while the metadata names the other, and later openings fail (`AlwaysOpens`
  fails with `Faults = {"FileBusy"}` and no resets).
* A download that is cut short. A 200 that gives no length and is not chunked ends
  where its connection does. The parser has nothing to refuse (`http.c:481-487`),
  the client takes the end for the end of the file
  (`download_client.c:1129-1136`), and the store has no total to compare with
  (`download_store.c:431-435`): wherever the connection is cut, the part is marked
  complete and never resumed. The models do the same (`Finalize` of the store,
  `FinishOk` of the job), and `RecoversTruth`, `OkIsWhole`, `FinishedIsWhole` and `FileSpec` state the
  exception: they ask for the whole only where a response said where it ends.
  Without `Vouched` in its place, `RecoversTruth` fails with no faults and no
  resets, three steps from the start.
* Library. A self-test that is refused as Busy, or whose load fails, overwrites
  the library's verdict "Failed" with "Unavailable" (`palm_library.c:293`); the
  next engine then uses native math if its own start-up vectors pass. The
  self-test, and any later command, writes its status into the closed profile
  of its slot, although `API.md` calls it immutable (`ClosedProfileKept` states
  the exception).
* Loader. When the new work database cannot be created, `workDbID` still names
  the old one, which has just been deleted; the cleanup deletes it once more, in
  vain. The test `applied == count` after a relocation can never fail when the
  checks before it pass (`ReachedAll`, proved). The copies of the verdict in
  slots other than 0 are never read.
* Adapter. A P-256 double product that fails half-way and is followed by two
  products that are not mapped mixes plain with Montgomery coordinates; the
  signature is then refused, never accepted.
* Job. `idleStart` begins again with every byte, so a peer that drips is ended
  by the length of its answer, not by a timeout; `Terminates` holds because
  responses are finite. `JobFinish` closes the session of a transfer that
  failed after its handshake as if it had succeeded, which keeps the slot's
  caches (`EndsAsItWas` asks for a cancel only of a download that is called
  off, or whose handshake is not complete).
* Parser. A CR is ignored anywhere in a chunk-size line; a line that begins with
  a semicolon has size 0; `ParseUInt32` misses products that wrap past the
  previous value (`http.c:44`); a 206 without a length is not compared with its
  range; `bodyReceived` wraps; an interim 1xx is taken as the final response.

## 4. Proofs

| Module | Theorem | Property |
| --- | --- | --- |
| `PalmTlsLibraryProofs` | `AlwaysConsistent` | `Spec => []Consistent`, the inductive invariant |
| | `TypeCorrect` | `TypeOK` |
| | `IdsStayUnambiguous` | `IdsUnambiguous` |
| | `ReuseIsExact` | `ExactReuse` |
| | `HeapStaysBalanced` | `HeapBalanced` |
| | `VerdictBinds` | `ArmFallback` |
| `PalmTlsServiceProofs` | `SessionsStayUndisturbed` | `LiveSessionUndisturbed` |
| | `BusyTellsTheTruth` | `BusyMeansInUse` |
| | `ClosedProfilesKeep` | `ClosedProfileKept` |
| | `ImplementsService` | `ServiceSpec` |
| `EngineLoaderProofs` | `AlwaysConsistent` | `Spec => []Consistent`, the inductive invariant |
| | `TypeCorrect` | `TypeOK` |
| | `NothingLeaks` | `Accounted` |
| | `RelocatesExactly` | `RelocationsExact` |
| | `KeysStayCurrent` | `NativeKeysAreCurrent` |
| | `NativeStaysQualified` | `NativeIsQualified` |
| `DownloadJobProofs` | `AlwaysConsistent` | `Spec => []Consistent`, the inductive invariant |
| | `TypeCorrect` | `TypeOK` |
| | `CallsStayInOrder` | `CallsInOrder` |
| | `NothingIsLeft` | `NothingLeft` |
| | `OkMeansWhole` | `OkIsWhole` |
| | `SessionsEndRight` | `EndsAsItWas` |
| | `ImplementsTransfer` | `TransferSpec` |
| `HandshakeProfileProofs` | `AlwaysConsistent` | `Spec => []Consistent`, the inductive invariant |
| | `TypeCorrect` | `TypeOK` |
| | `TicksStayExclusive` | `ExclusiveTicks` |
| | `TotalsAgree` | `Partition` |
| | `CompleteMeansPaired` | `CompleteIsPaired` |
| | `ClosedProfilesKeep` | `ClosedIsKept` |
| `DownloadStoreProofs` | `AlwaysConsistent` | `Spec => []Consistent`, the inductive invariant |
| | `TypeCorrect` | `TypeOK` |
| | `RecoversTheTruth` | `RecoversTruth`, if `ErrorPages \subseteq {<<>>}` |
| | `LossIsBounded` | `LossBounded` |
| `DownloadFileProofs` | `AlwaysCalm` | `Spec => []Calmly`, inductive beside `Consistent`, if `Calm` |
| | `StoreAlwaysOpens` | `AlwaysOpens`, if `Calm` |
| | `DeleteLeavesNothingBehind` | `DeleteLeavesNothing`, if `Calm` |
| | `StoreImplementsFile` | `FileSpec`, if `Calm` and `ErrorPages \subseteq {<<>>}` |

They hold for every value of the constants under the named assumptions of the
modules, which TLC evaluates in every run: any number of slots, segments, keys
and key entries (at least two per slot), any images and relocation tables of
their type, any request length, redirect limit, timeout and word size, any width
of the clock and depth of the profiler's stacks.

**The library.** None of the properties is inductive by itself. `ExactReuse`
speaks of live sessions, but their contexts and tickets come from caches that
were filled by earlier sessions, so the invariant has to say what an *idle*
slot's caches are (`SlotExact`, `ResumeExact`). `HeapBalanced` needs to know
that a free slot has no SSL object (`SlotShape`): otherwise opening would leak
it. `IdsUnambiguous` needs that profiles survive a close under the ID of their
session. All need that nothing is left in the slots once the engine is gone
(`~e.loaded => Blank`): that is what makes a load start from cleared slots.
`Consistent` is the conjunction of those. The proof goes bottom-up: lemmas about
the releasing operators, field by field; one lemma per C function of the engine,
that it keeps a slot in order (`SlotOK`) and what it does to the slot's identity
(`KeepsIds`, `TakesId`); `UpdateOK` lifts this to the array of slots. That a free
ID exists is `FreeIdExists`: the reserved IDs inject into `Slots \X {0, 1}`, so
by the pigeonhole principle `MaxSessionId > 2 * MaxSessions` leaves one.
`PrepareOK` says that the head of `PalmTlsExecute` keeps everything or clears
everything. Then one lemma per trap, and the induction. `VerdictBinds` is a
second induction on top.

**The service.** What a trap does to the slots is stated once for each kind of trap:
it shares the library (`SharingEffect`), takes the engine away (`UnloadingEffect`),
opens a session in a free slot, of the present engine or of one loaded while
nobody was live (`OpeningEffect`), goes on with or ends the session it names
(`CallEffect`), or tests (`TestingEffect`); `StepEffect` says that every trap is one
of these. They rest on `AlwaysConsistent`, by which an ID has one slot. What an open
leaves in the slot it was given is `Given`: a session under the new ID if the open
says so, and no profile but that session's own (`Opens` adds that the slot was the
first free one, which is how `ClosedProfileKept` recognises it). The three action
properties are read off `StepEffect`. The refinement maps the live slots to the abstract
sessions; each effect becomes one step of `TlsSessionService` or a stutter.

**The profiler.** The code charges lazily: a tick belongs to a scope only when the
next entry, exit or suspension reads the clock. So `ExclusiveTicks` and
`Partition`, which compare closed books, are not inductive. `Consistent` says of
each slot how its books stand to the truth: the age of the running period is what
the observer has charged to it, and the total of its counters lacks just the ticks
since the last charge (`Timed`); `elapsed` may lag behind the counters only for
the period a call is charging (`Summed`), and a detail's counters add up to those
of its phase (`DetailSummed`); until it breaks, the stack is what is really open,
with `Other` below (`Scoped`), each counter lacks what is owed to its phase
(`Exclusive`), and the period is paired (`Paired`). The one assumption with teeth
is `MaxTicks < Wrap`: between two readings the clock does not go round, so the
difference modulo `Wrap` is the true one; `Wrap` itself, the start of the clock
and its wrapping are arbitrary. `ChargeKeeps` is the heart: a charge moves what is
owed into one counter; every operation is a charge and a few fields more.

**The loader.** The invariant says, thing by thing, that the ledger holds what the
records say: the load's (`LoadHeld`), the engine's (`EngineHeld`), the slots'
and the adapter's (`RunningHeld`). Around it stand what a load has at each of its
steps (`LoadOK`, `EngineOK`: while segments are copied, exactly those before the
present one), where a work database may come from (`StorageOK`), that a native
record holds all of its parts or none (`ArmletOK`), that an entry of the key
table belongs to one keyed object and every object with a short key has one
(`KeysOK`), and that memory is as linked until all of it is relocated
(`MemoryOK`). `Accounted` alone would not be inductive: it looks only at the
time between two traps. The ledger lemmas (`AcquireFine`, `ReleaseFine`,
`ReleaseAllFine`, `EnterFine`) turn "no misuse" into "what it stands on is held"
and "nothing stands on it"; `UnloadFine`, `CopiedFine` and `CleanedFine` add them
up for an unload, a copy and a cleanup. `RelocationsExact` rests on `ScannedAll`:
the part of a table scanned for a segment, from its first to its last entry,
contains all of the segment's entries, wherever they stand. A key table that
never overflows is a pigeonhole again (`FreeEntryExists`): the entries in use
inject into the objects.

**The job.** The ledger and the job's fields tell the same story: what the
application holds is what it had before and `Holds(job)`. The fields follow from
the job's state while it works, but `JobFinish` goes by the fields alone; so
from *any* state it gives everything back, in an order that is legal. `OkIsWhole`
and `EndsAsItWas` are proved action by action from the invariant. The refinement
maps "holds a connection" to the ledger; the invariant turns this into a
statement about the job (`Online`), and each action becomes a step of
`DownloadTransfer` or a stutter.

**The store.** The theorems hold for any versions of the file and any lengths,
record sizes and commit intervals, every fault, a card that comes and goes, and a
reset inside any operation; `RecoversTheTruth` assumes that error pages are empty, and
the run `error_page` shows what happens when one is not. Neither property is
inductive: both look at what the *next* start would make of the device. The
invariant has two halves. What is on the device at any time, on the trail of an
operation included (`DeviceOK`): a database has at most its two metadata slots, a
record stands in the slot of its generation's parity, and each record is true
(`MetaOK`): what it sums up is the beginning of the version it names, and whole
if it says complete on the word of a response that gave its length or was chunked
(`Vouched`; of others the code knows no better, see the observations). That is enough for `RecoversTruth`, whatever has become of
the data: opening compares the checksum before it trusts a record, so a file that
was cut or replaced is refused, not believed. What holds of a store in use
(`Ready`): it has the bytes it counts (`Sized`), and the slot of its present
generation holds its last commit (`Committed`), short of what is in memory by the
uncommitted bytes. `LossBounded` needs one fact more, that this slot wins at
the next start: the other record is older (`Newest`). It is not always: `DownloadStoreRestart`
returns to generation 0 and its first save writes generation 1, while the other
slot may keep a large one until the save after. So `Newest` is claimed only once
something was downloaded and while a body arrives; TLC found the
counterexamples that the first, simpler forms of the invariant had. Each operation has a lemma about
the value it returns and about every device on its trail (`Sound`); an action that a reset
cuts off is then the same case as one that runs to its end
(`EndsConsistent`, `GoesOnConsistent`).

**The file.** That the store always opens, that a delete takes the data with it and
that the store implements `DownloadFile` is not true of every environment, and
`Calm` (in `DownloadFileRefinement`) names what they ask of it. Without any one of
these, TLC finds `AlwaysOpens` violated by what the code does (findings,
observations):

* no reset while a response is accepted or an entry deleted: both take the data
  away before the metadata (`restart_reset`);
* a data record can always be had: an append that fails in its second record
  counts the first without its checksum;
* the file system refuses no file that is not open: a refusal leaves data
  in the file it was exported to while the metadata names another;
* all responses name the file alike: a 206 with another name is stored while the
  data goes on into the old file. (The empty string is no name: it is `None`.)

What stays is most of what can happen: any number of versions with any lengths, any
sizes of records, appends and commits, cards that come and go, short writes, servers
that ignore `If-Range`, exports that fail half-way, and resets between any two
writes of an opening, an append, a completion, a close or an export. The run
`store_refines` is an instance of it, which `MCDownloadFile` assumes and TLC checks.

None of the three is inductive, since all ask what an opening would do with the
device. `Calmly` says it of the device itself: the record an opening would choose
is *backed* by the data it counts (`Whole`, `Backed`), in the records or in the file it names; while a
download runs, what is in memory is backed too, has the last commit as its
beginning (`Agrees`), wins at the next start (`Newest`, here without the exception that
`Consistent` makes, since no reset cuts a restart off), and holds no other file open
than the one it names (`FilesKept`); at rest, nothing is open that would make an
opening fail (`Rest`). A record is
written over data that is already there, so a commit may be torn at any point: either the
old record stands or the new one does, and both are backed (`SaveTells`). Data is
only added behind what is counted (`PutHolds`), so every device on the way of an
append still backs the old record. An export copies to a file that no record names,
then commits, then removes the records (`ExportTells`). Each operation is followed with the
set `S` of files it may leave the device showing (`Running`, `Settled`): one lemma
per operation says that every device on its trail shows a member of `S`. With
`S` as small as the operation allows, the same lemmas give the refinement: what a step shows
is what was shown before, or one step of `DownloadFile` (`NextChanges`).

**Not proved, only model-checked.** `Terminates` (liveness under fairness is out
of this prover's reach). The parser and the native arithmetic: what they compute
is defined by recursion over data, which is out of reach too. `DownloadFile` itself has
no properties beyond its steps, which are its promises.

## 5. Not modelled, and why

* wolfSSL itself, NetLib, the Data, VFS, Resource and Memory Managers: external;
  their answers are nondeterministic inputs.
* Argument checks of the traps (null pointers, structure sizes, string
  lengths): they return before any state changes.
* The transfer loops inside one exchange, write or read: one action with the
  outcomes the loop may have. A data sink that calls the library from inside an
  exchange would need an interleaving within a trap.
* Ticks and timings in results, the ticks of a load's own profile, certificate
  validity dates, entropy.
* In the loader: all segments are unlocked before any is freed, where the code
  goes segment by segment; the ledger cannot tell the two apart. Loaded segments
  are taken to lie outside the linker's banks. The key length of an Aes object
  is taken not to change during its life, as in TLS it cannot. The 68K build's
  stub adapter (`tls_armlet_68k.c`) is the fate `NotArm`. The TLS 1.1 engine has
  no key pair test: there the pair is always right.
* In the native code: AES, GHASH, ChaCha20, Poly1305 and SHA-256. Masked
  selections are conditionals: only their values are modelled, not that they
  leave no trace.
* In the profiler: the counts of entries, and `tls_verify_profile.c`, whose hooks
  enter and leave a scope.
* In the parser: the URL and redirect-target functions, pure functions of
  strings. A head line is one octet.
* In the job: the blocking `DownloadClientRun`, which has no caller. The blocking
  request of `main.c` gives its session up to the library when a handshake
  fails, as the engine does.
* In the store: failures of the Data Manager other than a data record that cannot
  be had (creating the database and its two metadata records succeeds); two
  URLs with one hash; a card exchanged for another, or taken out or put in while a
  download runs (`MoveCard` waits for the end of a job; between two jobs it is free).
  Names: responses that name no file share one name, `DefaultName`. In the code the
  client fills an empty name from the URL before the first response
  (`download_client.c:884-886`, `928-930`), and after a restart the store falls
  back to `download.bin`; the run's names are one name either way.
* In the session engine: the failing exits of an open between its context and its
  session (`tls_engine.c:612-660`) are one action, `OpenSetupFails`. They differ in
  what had been built, and each frees all of it.
* 68K without ticket storage in TLS 1.3 is the outcome `kept = FALSE` of
  `SaveResumeSession`, a choice at every close.
* `tls_palm.c` (clock, memory and entropy shims), the user interface of `main.c`,
  examples, benchmarks, tests, build scripts.
