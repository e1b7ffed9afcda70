----------------------------- MODULE DownloadStore -----------------------------
(***************************************************************************)
(* The tester's persistent store for one download                           *)
(* (apps/tls-tester/src/download_store.c), driven by its download client    *)
(* (download_client.c) and its Files screen (main.c), on a device that may  *)
(* be reset between any two writes.                                         *)
(*                                                                          *)
(* A store operation is a value m: the device and the DownloadStore as the  *)
(* operation leaves them, its error, and the trail of device states it      *)
(* writes on the way.  A reset leaves the device in one of the trail.       *)
(***************************************************************************)
EXTENDS Naturals, Sequences

CONSTANTS
    Versions,        \* successive contents of the URL on the server
    Length,          \* Length[v]: units in version v
    Names,           \* filenames a response may carry; None: it carries none
    None,            \* NULL, an empty string, a record that holds nothing valid
    RecordSize,      \* DOWNLOAD_RECORD_SIZE in units
    CommitInterval,  \* DOWNLOAD_COMMIT_INTERVAL in units
    MaxAppend,       \* bound on the units of one append
    MaxGeneration,   \* bound on the generation a download starts from
    Cards,           \* subset of BOOLEAN: whether a card may be in the slot
    ErrorPages,      \* the bodies a 416 may have
    Faults,          \* failures the environment may inject
    ResetDuring      \* the operations a reset may interrupt

VARIABLES
    device,  \* what survives a reset, and which of it is open
    store,   \* the client's DownloadStore
    job,     \* where the download is
    reply    \* the last operation and its error

vars == <<device, store, job, reply>>

(* Content.  A unit is the piece of a version at a place, the text of an    *)
(* error page, or what a new record holds before it is written.             *)
Blank == <<None, 0>>
ErrorText == <<None, 1>>
Units == (Versions \cup {None}) \X Nat

Version(v) == [i \in 1..Length[v] |-> <<v, i>>]
Take(s, n) == SubSeq(s, 1, n)
Drop(s, n) == SubSeq(s, n + 1, Len(s))

(* Before a response has been accepted the filename is empty.               *)
NoName == ""
DefaultName == "download.bin"
FileNames == (Names \ {None}) \cup {NoName, DefaultName}

(* The CRC-32 of the data is modelled as the data it was computed over.     *)
(* stated is not in the record: it remembers for the properties whether the *)
(* response last accepted said where its body ends.  No guard reads it.     *)
Metadata == [generation: Nat, downloaded: Nat, total: Nat, sum: Seq(Units),
             kind: {"database", "vfs"}, validator: Versions \cup {None},
             name: FileNames, path: FileNames \cup {None},
             complete: BOOLEAN, stated: BOOLEAN]

ASSUME StoreAssumption ==
    /\ None \notin Versions \cup FileNames \cup Seq(Units) \cup Metadata
    /\ Versions # {}
    /\ Length \in [Versions -> Nat \ {0}]
    /\ {RecordSize, CommitInterval, MaxAppend} \subseteq Nat \ {0}
    /\ Cards \subseteq BOOLEAN
    /\ ErrorPages \subseteq Seq(Units)

ZeroMetadata ==
    [generation |-> 0, downloaded |-> 0, total |-> 0, sum |-> <<>>,
     kind |-> "database", validator |-> None, name |-> NoName, path |-> None,
     complete |-> FALSE, stated |-> FALSE]

Store == [open: BOOLEAN, metadata: Metadata,
          uncommitted: 0..(CommitInterval - 1), file: FileNames \cup {None}]

ClosedStore == [open |-> FALSE, metadata |-> ZeroMetadata,
                uncommitted |-> 0, file |-> None]

(* slots: the two metadata records, None where a record is blank or torn.   *)
(* data: the data records, one after another.  openFiles: files held open.  *)
Device == [exists: BOOLEAN, slots: Seq(Metadata \cup {None}), data: Seq(Units),
           files: [FileNames -> Seq(Units) \cup {None}],
           open: BOOLEAN, openFiles: SUBSET FileNames, card: BOOLEAN]

EmptyDevice(card) ==
    [exists |-> FALSE, slots |-> <<>>, data |-> <<>>,
     files |-> [f \in FileNames |-> None],
     open |-> FALSE, openFiles |-> {}, card |-> card]

Rebooted(d) == [d EXCEPT !.open = FALSE, !.openFiles = {}]

Errors == {"Ok", "AlreadyOpen", "CorruptDatabase", "InvalidParam", "FileEOF",
           "NoVolume", "FileBusy", "NoMemory", "DatabaseOpen"}

-----------------------------------------------------------------------------
(* Operations.                                                              *)

Begin(d, s) == [device |-> d, store |-> s, error |-> "Ok", trail |-> {d}]
Succeeded(m) == m.error = "Ok"
Fail(m, e) == [m EXCEPT !.error = e]
Write(m, d) == [m EXCEPT !.device = d, !.trail = @ \cup {d}]

EnsureMetadataSlots(m) ==
    LET slots(n) == m.device.slots \o [i \in 1..(n - Len(m.device.slots)) |-> None]
        with(n) == [m.device EXCEPT !.slots = slots(n)]
    IN  [m EXCEPT !.device = with(2),
                  !.trail = @ \cup {with(n) : n \in Len(m.device.slots)..2}]

SlotOf(generation) == (generation % 2) + 1

(* Mutant of SaveMetadata: the commit count is not reset.                   *)
SaveMetadataUncounted(m) ==
    LET meta == [m.store.metadata EXCEPT !.generation = @ + 1]
        slot == SlotOf(meta.generation)
        ready == EnsureMetadataSlots(m)
        torn == Write(ready, [ready.device EXCEPT !.slots[slot] = None])
        saved == Write(torn, [torn.device EXCEPT !.slots[slot] = meta])
    IN  [saved EXCEPT !.store.metadata = meta]

(* A reset in the middle of the DmWrite leaves a record whose checksum is   *)
(* wrong.                                                                   *)
SaveMetadata(m) ==
    LET meta == [m.store.metadata EXCEPT !.generation = @ + 1]
        slot == SlotOf(meta.generation)
        ready == EnsureMetadataSlots(m)
        torn == Write(ready, [ready.device EXCEPT !.slots[slot] = None])
        saved == Write(torn, [torn.device EXCEPT !.slots[slot] = meta])
    IN  [saved EXCEPT !.store.metadata = meta, !.store.uncommitted = 0]

ReadMetadataSlot(d, i) == i <= Len(d.slots) /\ d.slots[i] # None

Chosen(d) ==
    IF /\ ReadMetadataSlot(d, 1)
       /\ ReadMetadataSlot(d, 2) => d.slots[1].generation > d.slots[2].generation
    THEN d.slots[1]
    ELSE d.slots[2]

LoadMetadata(m) ==
    IF ~\E i \in 1..2 : ReadMetadataSlot(m.device, i)
    THEN Fail(m, "CorruptDatabase")
    ELSE LET meta == Chosen(m.device)
             loaded == [m EXCEPT !.store.metadata = meta]
         IN  IF meta.kind = "database" /\ Len(m.device.data) < meta.downloaded
             THEN Fail(loaded, "CorruptDatabase")
             ELSE loaded

(* Records are removed from the front, one at a time.                       *)
RemoveRecords(m) ==
    [m EXCEPT !.device.data = <<>>,
              !.trail = @ \cup {[m.device EXCEPT !.data = Drop(@, n * RecordSize)]
                                : n \in 0..(Len(m.device.data) \div RecordSize)}]

CloseFile(m) ==
    [m EXCEPT !.device.openFiles = @ \ {m.store.file}, !.store.file = None]

(* The file system deletes no file that is open, nor without the card.      *)
DeleteFile(m, path) ==
    IF m.device.card /\ path \notin m.device.openFiles
    THEN Write(m, [m.device EXCEPT !.files[path] = None])
    ELSE m

(* Mutant of RemoveData: the file on the card stays.                        *)
RemoveDataRecordsOnly(m) == RemoveRecords(CloseFile(m))

RemoveData(m) ==
    LET closed == CloseFile(m)
        path == m.store.metadata.path
    IN  RemoveRecords(IF m.store.metadata.kind = "vfs" /\ path # None
                      THEN DeleteFile(closed, path)
                      ELSE closed)

(* Mutant of Fitted: a file that is longer than the metadata says is        *)
(* refused as well.                                                         *)
FittedExactly(m) ==
    IF Len(m.device.files[m.store.file]) # m.store.metadata.downloaded
    THEN Fail(CloseFile(m), "FileEOF")
    ELSE m

(* What was written after the last commit is cut off.                       *)
Fitted(m) ==
    LET size == m.store.metadata.downloaded
    IN  IF Len(m.device.files[m.store.file]) < size
        THEN Fail(CloseFile(m), "FileEOF")
        ELSE Write(m, [m.device EXCEPT !.files[m.store.file] = Take(@, size)])

(* A file opened for writing is opened exclusively.                         *)
TryOpenVfs(m, fails) ==
    LET path == m.store.metadata.name
        named == [m EXCEPT !.store.metadata.path = path]
        opened == [named EXCEPT
                      !.device.openFiles = @ \cup {path},
                      !.device.files[path] = IF @ = None THEN <<>> ELSE @,
                      !.store.file = path]
    IN  IF ~m.device.card THEN Fail(m, "NoVolume")
        ELSE IF fails \/ path \in m.device.openFiles THEN Fail(named, "FileBusy")
        ELSE Fitted(Write(opened, opened.device))

Stored(m) ==
    Take(IF m.store.metadata.kind = "vfs" THEN m.device.files[m.store.file]
                                          ELSE m.device.data,
         m.store.metadata.downloaded)

(* Mutant of VerifyStoredData: the checksum is not compared.                *)
VerifyStoredDataTrusting(m) == m

VerifyStoredData(m) ==
    IF Stored(m) = m.store.metadata.sum THEN m ELSE Fail(m, "CorruptDatabase")

CreateDatabase(m) ==
    Write(m, [m.device EXCEPT !.exists = TRUE])

(* The Data Manager opens a database for writing once.                      *)
Open(d) ==
    LET m == Begin(d, ClosedStore)
        created == CreateDatabase(m)
        opened == [created EXCEPT !.device.open = TRUE, !.store.open = TRUE]
        loaded == LoadMetadata(opened)
        zeroed == [loaded EXCEPT !.store.metadata = ZeroMetadata, !.error = "Ok"]
        filed == IF loaded.store.metadata.kind = "vfs"
                 THEN TryOpenVfs(loaded, FALSE)
                 ELSE loaded
    IN  CASE d.open -> Fail(m, "AlreadyOpen")
        []   ~d.open /\ ~Succeeded(loaded) -> SaveMetadata(RemoveData(zeroed))
        []   OTHER -> IF Succeeded(filed) THEN VerifyStoredData(filed) ELSE filed

Flush(m) == IF m.store.uncommitted # 0 THEN SaveMetadata(m) ELSE m

Close(m) ==
    LET saved == IF m.store.open THEN CloseFile(Flush(m)) ELSE m
    IN  [saved EXCEPT !.device.open = @ /\ ~m.store.open, !.store = ClosedStore]

Restart(m) ==
    SaveMetadata([RemoveData(m) EXCEPT !.store.metadata = ZeroMetadata])

MarkComplete(m) ==
    IF m.store.metadata.total \notin {0, m.store.metadata.downloaded}
    THEN Fail(m, "CorruptDatabase")
    ELSE SaveMetadata([m EXCEPT !.store.metadata.complete = TRUE])

-----------------------------------------------------------------------------
(* Accepting a response.  The server is truthful and gives every version a  *)
(* validator.  A 206 of another version than the stored one comes from a    *)
(* server that ignores If-Range.                                            *)

(* sized: it gives the length of the file, by Content-Length or by          *)
(* Content-Range.  framed: its body has a Content-Length or is chunked; one *)
(* that is neither ends where the connection does.                          *)
Response == [code: {200, 206, 404, 416}, version: Versions, sized: BOOLEAN,
             framed: BOOLEAN, name: Names, page: ErrorPages]

(* The responses to a request that resumes what the store holds.  A 416     *)
(* comes from a server that honours If-Range.                               *)
Responses(meta) ==
    {r \in Response :
        /\ r.code = 200 => (r.sized => r.framed)
        /\ r.code = 206 => r.sized /\ meta.downloaded \in 1..(Length[r.version] - 1)
        /\ r.code = 416 => /\ r.sized /\ r.version = meta.validator
                          /\ meta.downloaded >= Length[r.version]}

Body(r, n) ==
    CASE r.code = 200 -> Version(r.version)
    []   r.code = 206 -> Drop(Version(r.version), n)
    []   OTHER -> r.page

(* Mutant of Continues: the validator is not compared.                      *)
ContinuesUnvalidated(meta, r) == r.code = 206

(* The parser has checked that a 206 starts where the request asked.        *)
Continues(meta, r) ==
    /\ r.code = 206
    /\ meta.downloaded # 0 => meta.validator \in {None, r.version}

Described(meta, r) ==
    [meta EXCEPT
        !.validator = r.version,
        !.name = IF r.name # None THEN r.name
                 ELSE IF @ = NoName THEN DefaultName ELSE @,
        !.total = IF r.sized THEN Length[r.version] ELSE @,
        !.complete = FALSE,
        !.stated = r.sized \/ r.framed]

(* A store that holds no data yet moves to the card if it can.              *)
Placed(m, fails) ==
    LET filed == TryOpenVfs(m, fails)
    IN  IF m.store.metadata.downloaded # 0 THEN m
        ELSE IF Succeeded(filed)
             THEN [filed EXCEPT !.store.metadata.kind = "vfs"]
             ELSE [filed EXCEPT !.error = "Ok"]

AcceptResponse(m, r, fails) ==
    LET meta == m.store.metadata
        based == IF meta.downloaded # 0 /\ r.code = 200 THEN Restart(m) ELSE m
        described ==
            [based EXCEPT !.store.metadata = Described(based.store.metadata, r)]
    IN  IF r.code = 416 /\ meta.downloaded = Length[r.version]
        THEN MarkComplete([m EXCEPT !.store.metadata.total = Length[r.version],
                                    !.store.metadata.stated = TRUE])
        ELSE IF r.code = 200 \/ Continues(meta, r)
             THEN SaveMetadata(Placed(described, fails))
             ELSE Fail(m, IF meta.downloaded # 0 THEN "CorruptDatabase"
                                                 ELSE "InvalidParam")

-----------------------------------------------------------------------------
(* Appending.                                                               *)

RoundedUp(n) == ((n + RecordSize - 1) \div RecordSize) * RecordSize

PutRecords(d, at, units) ==
    LET end == at + Len(units)
        size == IF Len(d.data) < RoundedUp(end) THEN RoundedUp(end) ELSE Len(d.data)
    IN  [d EXCEPT !.data = [i \in 1..size |->
            CASE i \in (at + 1)..end -> units[i - at]
            []   i \notin (at + 1)..end /\ i <= Len(d.data) -> d.data[i]
            []   OTHER -> Blank]]

PutFile(d, path, units) == [d EXCEPT !.files[path] = @ \o units]

(* How many of n units can be stored: all of them, unless a new record      *)
(* cannot be had or the card takes only a part.                             *)
Storable(m, n) ==
    LET room == Len(m.device.data) - m.store.metadata.downloaded
        onCard == m.store.metadata.kind = "vfs"
    IN  {n}
        \cup (IF onCard /\ "ShortWrite" \in Faults THEN 0..(n - 1) ELSE {})
        \cup (IF ~onCard /\ "NoRecord" \in Faults /\ room < n THEN {room} ELSE {})

(* Mutant of CommitDue: a commit comes one unit late.                       *)
CommitDueLate(uncommitted) == uncommitted > CommitInterval

CommitDue(uncommitted) == uncommitted >= CommitInterval

(* Records are counted as they are written; the checksum and the commit     *)
(* count follow once all are.                                               *)
AppendData(m, units, written) ==
    LET meta == m.store.metadata
        onCard == meta.kind = "vfs"
        with(n) == IF onCard
                   THEN PutFile(m.device, m.store.file, Take(units, n))
                   ELSE PutRecords(m.device, meta.downloaded, Take(units, n))
        put == [m EXCEPT !.device = with(written),
                         !.trail = @ \cup {with(n) : n \in 0..written}]
        counted == [put EXCEPT !.store.metadata.downloaded = @ + Len(units),
                               !.store.metadata.sum = @ \o units,
                               !.store.uncommitted = @ + Len(units)]
        cut == IF onCard THEN put
               ELSE [put EXCEPT !.store.metadata.downloaded = @ + written]
    IN  IF written < Len(units)
        THEN Fail(cut, IF onCard THEN "FileEOF" ELSE "NoMemory")
        ELSE IF CommitDue(counted.store.uncommitted) THEN SaveMetadata(counted)
             ELSE counted

-----------------------------------------------------------------------------
(* Deleting and exporting.                                                  *)

DeleteDatabase(m) ==
    IF m.device.open
    THEN Fail(m, "DatabaseOpen")
    ELSE [Write(m, [m.device EXCEPT !.exists = FALSE, !.slots = <<>>, !.data = <<>>])
             EXCEPT !.error = "Ok"]

DeleteUrl(d) ==
    LET m == Open(d)
    IN  DeleteDatabase(Close(IF Succeeded(m) THEN RemoveData(m) ELSE m))

DeleteAll(d) ==
    LET m == Begin(d, ClosedStore)
        loaded == LoadMetadata([m EXCEPT !.device.open = TRUE, !.store.open = TRUE])
        filed == IF loaded.store.metadata.kind = "vfs"
                 THEN TryOpenVfs(loaded, FALSE)
                 ELSE loaded
        cleaned == IF Succeeded(loaded) THEN RemoveData(filed) ELSE loaded
    IN  DeleteDatabase(IF d.open THEN m ELSE Close(cleaned))

(* Copies the records to a new file, commits, and drops the records; what   *)
(* was written is deleted again when a step fails.                          *)
ExportToVfs(d, written) ==
    LET m == Open(d)
        path == m.store.metadata.name
        named == DeleteFile([m EXCEPT !.store.metadata.path = path], path)
        opened == [named EXCEPT !.device.openFiles = @ \cup {path}]
        with(n) == [opened.device EXCEPT !.files[path] = Take(Stored(m), n)]
        copied == [opened EXCEPT
                      !.device = [with(written) EXCEPT !.openFiles = @ \ {path}],
                      !.trail = @ \cup {with(n) : n \in 0..written}]
        moved == SaveMetadata([copied EXCEPT !.store.metadata.kind = "vfs"])
    IN  CASE ~Succeeded(m) -> [m EXCEPT !.store = ClosedStore]
        []   Succeeded(m) /\ m.store.metadata.kind = "vfs" -> Close(m)
        []   OTHER ->
                 IF ~d.card THEN Fail(Close(m), "NoVolume")
                 ELSE IF path \in d.openFiles THEN Fail(Close(named), "FileBusy")
                 ELSE IF written < m.store.metadata.downloaded
                 THEN Fail(Close(DeleteFile(copied, path)), "FileEOF")
                 ELSE Close(RemoveRecords(moved))

-----------------------------------------------------------------------------
(* The download job and the user.                                           *)

(* body: the parser knows where the body ends.  stream: it ends where the   *)
(* connection does.                                                         *)
Receiving == {"body", "stream"}
Stages == {"idle", "request"} \cup Receiving
Idle == [stage |-> "idle", left |-> <<>>]

Operations == {"Open", "AcceptResponse", "Append", "MarkComplete", "Close",
               "DeleteUrl", "Delete", "ExportToVfs", "Card", "Reset"}

Init ==
    /\ device \in {EmptyDevice(card) : card \in Cards}
    /\ store = ClosedStore
    /\ job = Idle
    /\ reply = [op |-> "Reset", error |-> "Ok"]

(* The operation runs to its end, or a reset cuts it short.                 *)
Runs(op, m, next) ==
    \/ /\ device' = m.device
       /\ store' = m.store
       /\ job' = next
       /\ reply' = [op |-> op, error |-> m.error]
    \/ /\ op \in ResetDuring
       /\ \E d \in m.trail : device' = Rebooted(d)
       /\ store' = ClosedStore
       /\ job' = Idle
       /\ reply' = [op |-> "Reset", error |-> "Ok"]

Now == Begin(device, store)

(* DownloadClientRun, DownloadClientStep: however a job ends.               *)
JobFinish(m) == Close(Flush(m))

Young == \A i \in 1..Len(device.slots) :
             device.slots[i] # None => device.slots[i].generation <= MaxGeneration

(* A store that fails to open is dropped as it is.                          *)
DownloadStart ==
    /\ job = Idle
    /\ Young
    /\ LET m == Open(device)
       IN  IF ~Succeeded(m)
           THEN Runs("Open", [m EXCEPT !.store = ClosedStore], Idle)
           ELSE IF m.store.metadata.complete
           THEN Runs("Open", Close(m), Idle)
           ELSE Runs("Open", m, [stage |-> "request", left |-> <<>>])

Respond ==
    /\ job.stage = "request"
    /\ \E r \in Responses(store.metadata),
          fails \in {f \in BOOLEAN : f => "FileBusy" \in Faults} :
          LET m == AcceptResponse(Now, r, fails)
              body == Body(r, store.metadata.downloaded)
          IN  IF Succeeded(m)
              THEN Runs("AcceptResponse", m,
                        [stage |-> IF r.framed THEN "body" ELSE "stream",
                         left  |-> body])
              ELSE Runs("AcceptResponse", JobFinish(m), Idle)

Receive ==
    /\ job.stage \in Receiving
    /\ \E n \in 1..MaxAppend :
          /\ n <= Len(job.left)
          /\ \E written \in Storable(Now, n) :
                LET m == AppendData(Now, Take(job.left, n), written)
                IN  IF Succeeded(m)
                    THEN Runs("Append", m, [job EXCEPT !.left = Drop(@, n)])
                    ELSE Runs("Append", JobFinish(m), Idle)

(* HttpParserFinish refuses the end of the connection in the middle of a    *)
(* body that has a length or is chunked, and takes it for the end of any    *)
(* other.                                                                   *)
Finalize ==
    /\ job.stage \in Receiving
    /\ job.stage = "body" => job.left = <<>>
    /\ Runs("MarkComplete", JobFinish(MarkComplete(Now)), Idle)

(* A cancel, a deadline, a network failure, bad framing, leaving the        *)
(* application.                                                             *)
Abandon ==
    /\ job.stage # "idle"
    /\ Runs("Close", JobFinish(Now), Idle)

(* The Files screen lists the entries whose metadata can be read.           *)
Listed ==
    /\ device.exists
    /\ Succeeded(LoadMetadata(Begin(device, ClosedStore)))

Delete ==
    /\ job = Idle
    /\ device.exists
    /\ \/ Listed /\ Runs("DeleteUrl", DeleteUrl(device), Idle)
       \/ Runs("Delete", DeleteAll(device), Idle)

Export ==
    /\ job = Idle
    /\ Listed
    /\ Young
    /\ LET size == Chosen(device).downloaded
       IN  \E written \in {size} \cup (IF "ShortWrite" \in Faults
                                       THEN 0..size ELSE {}) :
              Runs("ExportToVfs", ExportToVfs(device, written), Idle)

(* The user takes the card out, which closes its files, or puts it back.    *)
MoveCard ==
    /\ job = Idle
    /\ (~device.card) \in Cards
    /\ device' = [device EXCEPT !.card = ~@, !.openFiles = {}]
    /\ reply' = [op |-> "Card", error |-> "Ok"]
    /\ UNCHANGED <<store, job>>

Reset ==
    /\ device' = Rebooted(device)
    /\ store' = ClosedStore
    /\ job' = Idle
    /\ reply' = [op |-> "Reset", error |-> "Ok"]

Next ==
    \/ DownloadStart \/ Respond \/ Receive \/ Finalize \/ Abandon
    \/ Delete \/ Export \/ MoveCard \/ Reset

Spec == Init /\ [][Next]_vars

-----------------------------------------------------------------------------
(* Properties.                                                              *)

(* The device, the store in memory, the job and the reply have their types. *)
TypeOK ==
    /\ device \in Device
    /\ store \in Store
    /\ job \in [stage: Stages, left: Seq(Units)]
    /\ reply \in [op: Operations, error: Errors]

(* What the next download would find, were the device reset now and a card  *)
(* in the slot.                                                             *)
Reopened(d) == Open([Rebooted(d) EXCEPT !.card = TRUE])
Usable(d) == Succeeded(Reopened(d))
Recovered(d) == Stored(Reopened(d))

(* It says that it is complete, and the response that completed it had said *)
(* where its body ends.                                                     *)
Vouched(meta) == meta.complete /\ meta.stated
RecoveredWhole(d) == Vouched(Reopened(d).store.metadata)

(* DownloadStoreOpen: whatever has happened, the store can be opened again. *)
AlwaysOpens == Usable(device)

(* Whatever a store that opens recovers is the beginning of one version of  *)
(* the file, never a mixture, never text of an error page, never data that  *)
(* was not written; and what says that it is complete is a whole version,   *)
(* unless the response that completed it had given no length and was not    *)
(* chunked.  Such a body may be cut anywhere: HttpParserFinish takes the    *)
(* end of the connection for its end, and MarkComplete has no total to      *)
(* compare with.                                                            *)
RecoversTruth ==
    Usable(device) =>
        \E v \in Versions :
            /\ \E n \in 0..Length[v] : Recovered(device) = Take(Version(v), n)
            /\ RecoveredWhole(device) => Recovered(device) = Version(v)

(* A reset costs a running download less than one commit interval.          *)
LossBounded ==
    (job # Idle /\ Usable(device)) =>
        store.metadata.downloaded < Len(Recovered(device)) + CommitInterval

Deletes == {"DeleteUrl", "Delete"}

(* Deleting an entry with the card in the slot leaves neither its database  *)
(* nor the file that held its data.                                         *)
DeleteLeavesNothing ==
    [][(reply'.op \in Deletes /\ reply'.error = "Ok" /\ device.card) =>
           /\ ~device'.exists
           /\ (Listed /\ Chosen(device).kind = "vfs") =>
                  device'.files[Chosen(device).name] = None]_vars
=============================================================================
