--------------------------- MODULE DownloadFileProofs ---------------------------
(***************************************************************************)
(* The theorems about DownloadStore in a calm environment: the store always *)
(* opens again, a delete leaves nothing behind, and the store implements    *)
(* DownloadFile, for every size of records, commit interval and append,     *)
(* every set of versions, and any number of short writes, resets and        *)
(* changes of the card.                                                     *)
(*                                                                          *)
(* Calmly is the inductive invariant, on top of Consistent: the record that *)
(* an opening would choose is backed by the data it counts.  It is proved   *)
(* of the device after every step, and of every device on the way that a    *)
(* reset could leave.                                                       *)
(***************************************************************************)
EXTENDS DownloadFileRefinement, DownloadStoreProofs

(* The name that all responses give the file.                               *)
TheName == CHOOSE f \in FileNames : \A n \in Names : NamedAs(n) = f

(* The data that the metadata counts is where it says, with its checksum.   *)
DataOf(d, meta) == IF meta.kind = "vfs" THEN Content(d, meta.name) ELSE d.data

Backed(d, meta) ==
    /\ meta.downloaded <= Len(DataOf(d, meta))
    /\ Take(DataOf(d, meta), meta.downloaded) = meta.sum
    /\ meta.name \in {NoName, TheName}
    /\ meta.downloaded # 0 => meta.name # NoName

Whole(d) ==
    /\ Readable(d) => Backed(d, Chosen(d))
    /\ d.exists \/ d.slots = <<>>

(* The file of DownloadFile that a device shows, and the one that metadata  *)
(* shows once it is committed.                                              *)
FileOf(meta) == [present |-> TRUE, content |-> meta.sum, complete |-> Vouched(meta)]

Shown(d) ==
    [present  |-> d.exists,
     content  |-> IF Readable(d) THEN Chosen(d).sum ELSE <<>>,
     complete |-> Readable(d) /\ Vouched(Chosen(d))]

Tells(d, S) == Whole(d) /\ Shown(d) \in S

(* While a download runs, the last commit is of what the store holds.       *)
Agrees(c, meta) ==
    /\ c.name = meta.name /\ c.validator = meta.validator
    /\ c.complete = meta.complete /\ c.stated = meta.stated
    /\ c.sum = Take(meta.sum, c.downloaded)

FilesKept(d, s) ==
    /\ s.metadata.kind = "vfs" => d.card /\ s.file = s.metadata.name
    /\ s.metadata.kind = "database" => s.file = None
    /\ d.openFiles \subseteq {NoName, s.file}

Tight(d, meta) ==
    meta.kind = "vfs" => Len(Content(d, meta.name)) = meta.downloaded

Kept(d, s) ==
    /\ d.exists /\ Newest(d, s)
    /\ Backed(d, s.metadata)
    /\ Agrees(Last(d, s), s.metadata)
    /\ FilesKept(d, s) /\ Tight(d, s.metadata)

(* When none runs, the file that the chosen record names is not open.       *)
Rest(d) ==
    /\ d.openFiles \subseteq {NoName}
    /\ Readable(d) /\ Chosen(d).kind = "vfs" => Chosen(d).name \notin d.openFiles

Calmly ==
    /\ Whole(device)
    /\ job.stage = "idle" => Rest(device)
    /\ job.stage # "idle" => Kept(device, store)
    /\ job.stage = "request" => ~store.metadata.complete /\ store.uncommitted = 0
    /\ job.stage \in Receiving => store.metadata.name # NoName

-----------------------------------------------------------------------------
(* What is found on a device.                                               *)

(* The record in a slot.                                                    *)
Record(d, i) == IF i <= Len(d.slots) THEN d.slots[i] ELSE None

LEMMA RecordFacts ==
    ASSUME NEW d, DeviceOK(d)
    PROVE  /\ Len(d.slots) \in 0..2
           /\ \A i \in 1..2 : ReadMetadataSlot(d, i) <=> Record(d, i) # None
           /\ Readable(d) <=> Record(d, 1) # None \/ Record(d, 2) # None
           /\ \A i \in 1..2 : Record(d, i) # None =>
                 /\ Record(d, i) = d.slots[i] /\ Len(d.slots) = 2
                 /\ Record(d, i) \in Metadata
                 /\ Record(d, i).generation \in Nat
                 /\ SlotOf(Record(d, i).generation) = i
<1>1. d.slots \in Seq(Metadata \cup {None})
  BY DEF DeviceOK, Device
<1>2. Len(d.slots) \in 0..2
  BY <1>1, LenProperties, UpToTwo DEF DeviceOK
<1>3. \A i \in 1..2 : ReadMetadataSlot(d, i) <=> Record(d, i) # None
  BY DEF Record, ReadMetadataSlot
<1>4. ASSUME NEW i \in 1..2, Record(d, i) # None
      PROVE  /\ Record(d, i) = d.slots[i] /\ Len(d.slots) = 2
             /\ Record(d, i) \in Metadata
             /\ Record(d, i).generation \in Nat
             /\ SlotOf(Record(d, i).generation) = i
  <2>1. i \in 1..Len(d.slots) /\ Record(d, i) = d.slots[i]
    BY <1>2, <1>4 DEF Record
  <2>2. MetaOK(d.slots[i]) /\ SlotOf(d.slots[i].generation) = i /\ Len(d.slots) = 2
    BY <1>4, <2>1 DEF DeviceOK
  <2> QED
    BY <2>1, <2>2 DEF MetaOK, Metadata
<1> QED
  BY <1>2, <1>3, <1>4 DEF Readable

(* The newer of two records is chosen, and the only one.                    *)
LEMMA NewerIsChosen ==
    ASSUME NEW d, DeviceOK(d), NEW i \in 1..2, Record(d, i) # None,
           Record(d, Other(i)) # None =>
               Record(d, Other(i)).generation < Record(d, i).generation
    PROVE  Readable(d) /\ Chosen(d) = Record(d, i)
<1>1. i = 1 \/ i = 2
  OBVIOUS
<1>2. Other(1) = 2 /\ Other(2) = 1
  BY DEF Other
<1>3. /\ \A k \in 1..2 : ReadMetadataSlot(d, k) <=> Record(d, k) # None
      /\ \A k \in 1..2 : Record(d, k) # None =>
            Record(d, k) = d.slots[k] /\ Record(d, k).generation \in Nat
      /\ Readable(d) <=> Record(d, 1) # None \/ Record(d, 2) # None
  BY RecordFacts
<1>4. CASE i = 1
  BY <1>2, <1>3, <1>4 DEF Chosen
<1>5. CASE i = 2
  <2>1. ~(/\ ReadMetadataSlot(d, 1)
          /\ ReadMetadataSlot(d, 2) => d.slots[1].generation > d.slots[2].generation)
    BY <1>2, <1>3, <1>5
  <2> QED
    BY <1>3, <1>5, <2>1 DEF Chosen
<1> QED
  BY <1>1, <1>4, <1>5

(* A change outside the records that leaves what the chosen one counts.     *)
LEMMA OutsideTells ==
    ASSUME NEW d, NEW e, NEW S, Tells(d, S),
           e.slots = d.slots, e.exists = d.exists,
           Readable(d) => Backed(e, Chosen(d))
    PROVE  Tells(e, S) /\ (Readable(e) <=> Readable(d)) /\ Chosen(e) = Chosen(d)
<1>1. (Readable(e) <=> Readable(d)) /\ Chosen(e) = Chosen(d)
  BY DEF Readable, Chosen, ReadMetadataSlot
<1>2. Shown(e) = Shown(d)
  BY <1>1 DEF Shown
<1> QED
  BY <1>1, <1>2 DEF Tells, Whole

LEMMA SameBacked ==
    ASSUME NEW d, NEW e, NEW meta, Backed(d, meta), e.data = d.data, e.files = d.files
    PROVE  Backed(e, meta)
BY DEF Backed, DataOf, Content

(* What is open and where the card is does not matter.                      *)
LEMMA SameTells ==
    ASSUME NEW d, NEW e, NEW S, Tells(d, S), e.slots = d.slots, e.exists = d.exists,
           e.data = d.data, e.files = d.files
    PROVE  Tells(e, S) /\ (Readable(e) <=> Readable(d)) /\ Chosen(e) = Chosen(d)
<1>1. Readable(d) => Backed(e, Chosen(d))
  BY SameBacked DEF Tells, Whole
<1> QED
  BY <1>1, OutsideTells

LEMMA RebootedTells ==
    ASSUME NEW d \in Device, NEW S, Tells(d, S)
    PROVE  Tells(Rebooted(d), S) /\ Rest(Rebooted(d))
<1>1. /\ Rebooted(d).slots = d.slots /\ Rebooted(d).exists = d.exists
      /\ Rebooted(d).data = d.data /\ Rebooted(d).files = d.files
      /\ Rebooted(d).openFiles = {}
  BY DEF Rebooted, Device
<1> QED
  BY <1>1, SameTells DEF Rest

-----------------------------------------------------------------------------
(* Commits.                                                                 *)

Beside(e, d) == e.exists = d.exists /\ e.data = d.data /\ e.files = d.files

LEMMA WriteFields ==
    ASSUME NEW m \in OpValue, NEW d \in Device, NEW q, q = Write(m, d)
    PROVE  /\ q \in OpValue
           /\ q.device = d /\ q.store = m.store /\ q.error = m.error
           /\ q.trail = m.trail \cup {d}
<1> DEFINE u == m.trail \cup {d}
<1>1. u \in SUBSET Device
  BY DEF OpValue
<1>2. q = [m EXCEPT !.device = d, !.trail = u]
  BY DEF Write
<1> HIDE DEF u
<1> QED
  BY <1>1, <1>2 DEF OpValue, u

(* A reset in a commit leaves the former record, or none, or the new one.   *)
LEMMA SaveTrail ==
    ASSUME NEW m, Sound(m), NEW q, q = SaveMetadata(m)
    PROVE  LET i == SlotOf(m.store.metadata.generation + 1)
           IN  \A e \in q.trail :
                 \/ e \in m.trail
                 \/ /\ Beside(e, m.device)
                    /\ Record(e, Other(i)) = Record(m.device, Other(i))
                    /\ \/ Record(e, i) = Record(m.device, i)
                       \/ Record(e, i) = None
                       \/ Record(e, i) = q.store.metadata
<1> DEFINE meta == [m.store.metadata EXCEPT !.generation = @ + 1]
           i == SlotOf(meta.generation)
           k == Len(m.device.slots)
           with(n) == Padded(m.device, n)
           ready == EnsureMetadataSlots(m)
           tornDevice == [ready.device EXCEPT !.slots[i] = None]
           torn == Write(ready, tornDevice)
           savedDevice == [torn.device EXCEPT !.slots[i] = meta]
           saved == Write(torn, savedDevice)
<1>1. /\ m.store.metadata \in Metadata /\ m.store \in LooseStore /\ m.device \in Device
      /\ m.store.metadata.generation \in Nat /\ DeviceOK(m.device) /\ MetaOK(m.store.metadata)
  BY SoundTypes
<1>2. k \in 0..2 /\ 2 \in k..2
  <2>1. k \in 0..2
    BY <1>1, RecordFacts
  <2> HIDE DEF k
  <2> QED
    BY <2>1
<1>3. MetaOK(meta) /\ meta.generation = m.store.metadata.generation + 1 /\ meta.generation \in Nat
  BY <1>1 DEF MetaOK, IsTrue, Vouched, Metadata
<1>4. i \in 1..2 /\ i = SlotOf(m.store.metadata.generation + 1)
  BY <1>3, SlotRange
<1>5. \A n \in k..2 :
          /\ DeviceOK(with(n)) /\ Len(with(n).slots) = n
          /\ Beside(with(n), m.device)
          /\ \A h \in 1..2 : Record(with(n), h) = Record(m.device, h)
  <2> TAKE n \in k..2
  <2>1. /\ DeviceOK(with(n)) /\ Len(with(n).slots) = n
        /\ \A h \in 1..n : with(n).slots[h] = IF h <= k THEN m.device.slots[h] ELSE None
    BY <1>1, PaddedOK, Zenon
  <2>2. Beside(with(n), m.device)
    BY <1>1 DEF Padded, Device, Beside
  <2>3. \A h \in 1..2 : Record(with(n), h) = Record(m.device, h)
    <3> HIDE DEF with
    <3> QED
      BY <1>2, <2>1 DEF Record
  <2> QED
    BY <2>1, <2>2, <2>3
<1>6. ready = [device |-> with(2), store |-> m.store, error |-> m.error,
             trail |-> m.trail \cup {with(n) : n \in k..2}]
  <2> DEFINE all == {with(n) : n \in k..2}
  <2>1. ready = [m EXCEPT !.device = with(2), !.trail = @ \cup all]
    BY DEF EnsureMetadataSlots, Padded
  <2> HIDE DEF all, with, ready
  <2>2. ready = [device |-> with(2), store |-> m.store, error |-> m.error,
                 trail |-> m.trail \cup all]
    BY <2>1 DEF Sound, OpValue
  <2> QED
    BY <2>2 DEF all
<1> HIDE DEF with, meta, i, k, ready
<1>7. /\ DeviceOK(ready.device) /\ Len(ready.device.slots) = 2 /\ ready.device \in Device
      /\ Beside(ready.device, m.device)
      /\ \A h \in 1..2 : Record(ready.device, h) = Record(m.device, h)
  BY <1>2, <1>5, <1>6 DEF DeviceOK
<1>8. /\ DeviceOK(tornDevice) /\ Len(tornDevice.slots) = 2
      /\ tornDevice = [ready.device EXCEPT !.slots = tornDevice.slots]
      /\ tornDevice.slots[i] = None
      /\ tornDevice.slots[Other(i)] = ready.device.slots[Other(i)]
  BY <1>4, <1>7, RecordOK
<1> HIDE DEF tornDevice
<1>9. /\ torn \in OpValue /\ torn.device = tornDevice /\ torn.store = m.store
      /\ torn.trail = ready.trail \cup {tornDevice}
  <2>1. ready \in OpValue
    <3>1. \A d \in ready.trail : d \in Device
      BY <1>5, <1>6 DEF DeviceOK, Sound
    <3> QED
      BY <1>6, <1>7, <3>1 DEF Sound, OpValue
  <2>2. tornDevice \in Device
    BY <1>8 DEF DeviceOK
  <2> QED
    <3>1. ready.store = m.store
      BY <1>6
    <3> QED
      BY <2>1, <2>2, <3>1, WriteFields DEF torn
<1> HIDE DEF torn
<1>10. /\ DeviceOK(savedDevice) /\ Len(savedDevice.slots) = 2
       /\ savedDevice = [torn.device EXCEPT !.slots = savedDevice.slots]
       /\ savedDevice.slots[i] = meta
       /\ savedDevice.slots[Other(i)] = torn.device.slots[Other(i)]
  BY <1>3, <1>4, <1>8, <1>9, RecordOK
<1> HIDE DEF savedDevice
<1>11. /\ saved \in OpValue /\ saved.store = m.store
       /\ saved.trail = torn.trail \cup {savedDevice}
  <2>1. savedDevice \in Device
    BY <1>10 DEF DeviceOK
  <2> QED
    BY <1>9, <2>1, WriteFields DEF saved
<1>12. q = [saved EXCEPT !.store.metadata = meta, !.store.uncommitted = 0]
  BY DEF SaveMetadata, saved, savedDevice, torn, tornDevice, ready, meta, i
<1> HIDE DEF saved
<1>13. q.trail = saved.trail /\ q.store.metadata = meta
  <2> DEFINE s == [m.store EXCEPT !.metadata = meta, !.uncommitted = 0]
  <2>1. s.metadata = meta
    BY <1>1 DEF LooseStore
  <2>2. q = [saved EXCEPT !.store = s]
    BY <1>11, <1>12 DEF OpValue
  <2> HIDE DEF s
  <2> QED
    BY <1>11, <2>1, <2>2 DEF OpValue
<1>14. q.trail = m.trail \cup {with(n) : n \in k..2} \cup {tornDevice} \cup {savedDevice}
  BY <1>6, <1>9, <1>11, <1>13
<1>15. Other(i) \in 1..2
  BY <1>4, OtherRange
<1>16. /\ Beside(tornDevice, m.device)
       /\ Record(tornDevice, i) = None
       /\ Record(tornDevice, Other(i)) = Record(m.device, Other(i))
  <2>1. Beside(tornDevice, m.device)
    BY <1>7, <1>8 DEF Beside, Device
  <2> QED
    BY <1>4, <1>7, <1>8, <1>15, <2>1 DEF Record
<1>17. /\ Beside(savedDevice, m.device)
       /\ Record(savedDevice, i) = meta
       /\ Record(savedDevice, Other(i)) = Record(m.device, Other(i))
  <2>1. Beside(savedDevice, m.device)
    BY <1>8, <1>9, <1>10, <1>16 DEF Beside, Device, DeviceOK
  <2> QED
    BY <1>4, <1>8, <1>9, <1>10, <1>15, <1>16, <2>1 DEF Record
<1>18. ASSUME NEW e \in q.trail
       PROVE  \/ e \in m.trail
              \/ /\ Beside(e, m.device)
                 /\ Record(e, Other(i)) = Record(m.device, Other(i))
                 /\ \/ Record(e, i) = Record(m.device, i)
                    \/ Record(e, i) = None
                    \/ Record(e, i) = q.store.metadata
  <2>1. CASE e \in m.trail
    BY <2>1
  <2>2. CASE e \in {with(n) : n \in k..2}
    BY <1>4, <1>5, <1>15, <2>2
  <2>3. CASE e = tornDevice
    BY <1>16, <2>3
  <2>4. CASE e = savedDevice
    BY <1>13, <1>17, <2>4
  <2> QED
    BY <1>14, <1>18, <2>1, <2>2, <2>3, <2>4
<1> QED
  BY <1>4, <1>18

(* What a commit leaves as it is in the metadata.                           *)
Alike(a, b) ==
    /\ a.kind = b.kind /\ a.name = b.name /\ a.validator = b.validator
    /\ a.downloaded = b.downloaded /\ a.sum = b.sum
    /\ a.complete = b.complete /\ a.stated = b.stated

LEMMA AlikeBacked ==
    ASSUME NEW a, NEW b, Alike(a, b), NEW d, Backed(d, b)
    PROVE  Backed(d, a) /\ FileOf(a) = FileOf(b)
BY DEF Alike, Backed, DataOf, FileOf, Vouched

(* A device whose chosen record is backed shows the file of that record.    *)
LEMMA ChosenTells ==
    ASSUME NEW d, d.exists = TRUE, Readable(d), NEW meta, Chosen(d) = meta,
           Backed(d, meta), NEW S, FileOf(meta) \in S
    PROVE  Tells(d, S)
<1>1. Vouched(meta) \in BOOLEAN
  BY DEF Vouched
<1>2. Shown(d) = FileOf(meta)
  BY <1>1 DEF Shown, FileOf
<1> QED
  BY <1>2 DEF Tells, Whole

LEMMA SaveFields ==
    ASSUME NEW m, Sound(m), NEW q, q = SaveMetadata(m)
    PROVE  /\ Sound(q) /\ q.error = m.error
           /\ Beside(q.device, m.device)
           /\ q.device.openFiles = m.device.openFiles /\ q.device.card = m.device.card
           /\ q.device.open = m.device.open
           /\ q.store.file = m.store.file /\ q.store.open = m.store.open
           /\ q.store.uncommitted = 0
           /\ Alike(q.store.metadata, m.store.metadata)
           /\ q.store.metadata.generation = m.store.metadata.generation + 1
           /\ Record(q.device, SlotOf(q.store.metadata.generation)) = q.store.metadata
           /\ Record(q.device, Other(SlotOf(q.store.metadata.generation)))
                 = Record(m.device, SlotOf(m.store.metadata.generation))
<1> DEFINE g == m.store.metadata.generation + 1
           i == SlotOf(g)
<1>1. /\ m.store.metadata \in Metadata /\ m.store \in LooseStore /\ m.device \in Device
      /\ m.store.metadata.generation \in Nat
  BY SoundTypes
<1>2. /\ Sound(q) /\ q.error = m.error
      /\ q.store = [m.store EXCEPT
                       !.metadata = [m.store.metadata EXCEPT !.generation = g],
                       !.uncommitted = 0]
      /\ q.device = [m.device EXCEPT !.slots = q.device.slots]
      /\ Len(q.device.slots) = 2
      /\ q.device.slots[i] = q.store.metadata
      /\ q.device.slots[Other(i)] = IF Other(i) <= Len(m.device.slots)
                                    THEN m.device.slots[Other(i)] ELSE None
  BY ZenonT(40), SaveSound
<1> DEFINE meta == [m.store.metadata EXCEPT !.generation = g]
<1>3. Alike(meta, m.store.metadata) /\ meta.generation = g
  BY <1>1 DEF Alike, Metadata
<1>4. /\ q.store.metadata = meta
      /\ q.store.file = m.store.file /\ q.store.open = m.store.open
      /\ q.store.uncommitted = 0
  <2> HIDE DEF meta
  <2>1. q.store = [m.store EXCEPT !.metadata = meta, !.uncommitted = 0]
    BY <1>2 DEF meta
  <2> QED
    BY <1>1, <2>1 DEF LooseStore
<1>5. /\ Beside(q.device, m.device)
      /\ q.device.openFiles = m.device.openFiles /\ q.device.card = m.device.card
      /\ q.device.open = m.device.open
  BY <1>1, <1>2 DEF Device, Beside
<1>6. i \in 1..2 /\ Other(i) \in 1..2 /\ Other(i) = SlotOf(m.store.metadata.generation)
  <2>1. SlotOf(m.store.metadata.generation) \in 1..2
        /\ i = Other(SlotOf(m.store.metadata.generation))
    BY <1>1, SlotRange
  <2> QED
    BY <2>1 DEF Other
<1>7. /\ Record(q.device, i) = q.store.metadata
      /\ Record(q.device, Other(i)) = Record(m.device, Other(i))
  BY <1>2, <1>6 DEF Record
<1> HIDE DEF meta
<1> QED
  BY <1>2, <1>3, <1>4, <1>5, <1>6, <1>7

(* The record of the present generation, and the one before.                *)
LEMMA SlotsAre ==
    ASSUME NEW d, DeviceOK(d), NEW s, s.metadata.generation \in Nat
    PROVE  LET i == SlotOf(s.metadata.generation)
           IN  /\ i \in 1..2 /\ Other(i) \in 1..2 /\ Other(Other(i)) = i
               /\ Present(d, s) => Record(d, i) = Last(d, s) /\ Record(d, i) # None
                                   /\ Record(d, i).generation = s.metadata.generation
               /\ Len(d.slots) = 2 => Record(d, i) = Last(d, s) /\ Record(d, Other(i)) = Former(d, s)
<1> DEFINE i == SlotOf(s.metadata.generation)
<1>1. i \in 1..2 /\ Other(i) \in 1..2 /\ Other(Other(i)) = i
  <2>1. i \in 1..2
    BY SlotRange
  <2> QED
    BY <2>1 DEF Other
<1>2. Len(d.slots) = 2 => Record(d, i) = d.slots[i] /\ Record(d, Other(i)) = d.slots[Other(i)]
  BY <1>1 DEF Record
<1> QED
  BY <1>1, <1>2 DEF Present, Last, Former

LEMMA LastIsChosen ==
    ASSUME NEW d, DeviceOK(d), NEW s, s.metadata.generation \in Nat,
           Present(d, s), Newest(d, s)
    PROVE  Readable(d) /\ Chosen(d) = Last(d, s)
<1> DEFINE i == SlotOf(s.metadata.generation)
<1>1. /\ i \in 1..2 /\ Record(d, i) = Last(d, s) /\ Record(d, i) # None
      /\ Record(d, i).generation = s.metadata.generation
      /\ Record(d, Other(i)) = Former(d, s)
  <2>1. Len(d.slots) = 2
    BY DEF Present
  <2> QED
    BY <2>1, SlotsAre
<1>2. Record(d, Other(i)) # None => Record(d, Other(i)).generation < Record(d, i).generation
  BY <1>1 DEF Newest
<1> HIDE DEF i
<1> QED
  BY <1>1, <1>2, NewerIsChosen

(* A commit of what is there.                                               *)
LEMMA SaveEnds ==
    ASSUME NEW m, Sound(m), m.device.exists, Present(m.device, m.store),
           Backed(m.device, m.store.metadata),
           NEW q, q = SaveMetadata(m)
    PROVE  /\ Present(q.device, q.store) /\ Newest(q.device, q.store)
           /\ Last(q.device, q.store) = q.store.metadata
           /\ Backed(q.device, q.store.metadata)
           /\ Readable(q.device) /\ Chosen(q.device) = q.store.metadata
           /\ q.device.exists
           /\ Tells(q.device, {FileOf(m.store.metadata)})
<1> DEFINE g == m.store.metadata.generation
           meta == q.store.metadata
           i == SlotOf(meta.generation)
<1>1. /\ Sound(q) /\ Beside(q.device, m.device)
      /\ Alike(meta, m.store.metadata)
      /\ meta.generation = g + 1
      /\ Record(q.device, i) = meta
      /\ Record(q.device, Other(i)) = Record(m.device, SlotOf(g))
  BY SaveFields
<1>2. /\ DeviceOK(q.device) /\ meta \in Metadata /\ meta.generation \in Nat
      /\ DeviceOK(m.device) /\ g \in Nat
  BY <1>1, SoundTypes
<1>3. Record(m.device, SlotOf(g)) # None /\ Record(m.device, SlotOf(g)).generation = g
  BY <1>2, SlotsAre
<1>4. meta # None
  BY <1>2, Constants
<1>5. i \in 1..2
  BY <1>2, SlotRange
<1>6. Readable(q.device) /\ Chosen(q.device) = meta
  <2>1. Record(q.device, i) # None
        /\ Record(q.device, Other(i)).generation < Record(q.device, i).generation
    BY <1>1, <1>2, <1>3, <1>4
  <2> HIDE DEF i
  <2> QED
    BY <1>1, <1>2, <1>5, <2>1, NewerIsChosen
<1>7. Len(q.device.slots) = 2
  BY <1>2, <1>6, ChosenFacts
<1>8. Last(q.device, q.store) = meta /\ Present(q.device, q.store)
  <2>1. Record(q.device, i) = Last(q.device, q.store)
    BY <1>2, <1>7, SlotsAre
  <2> QED
    BY <1>1, <1>4, <1>7, <2>1 DEF Present
<1>9. Newest(q.device, q.store)
  <2>1. Record(q.device, Other(i)) = Former(q.device, q.store)
    BY <1>2, <1>7, SlotsAre
  <2> QED
    BY <1>1, <1>2, <1>3, <2>1 DEF Newest
<1>10. Backed(q.device, meta) /\ FileOf(meta) = FileOf(m.store.metadata)
  <2>1. Backed(q.device, m.store.metadata)
    BY <1>1, SameBacked DEF Beside
  <2> QED
    BY <1>1, <2>1, AlikeBacked
<1>11. Tells(q.device, {FileOf(m.store.metadata)})
  <2>1. q.device.exists = TRUE
    <3>1. m.device \in Device
      BY <1>2 DEF DeviceOK
    <3> QED
      BY <1>1, <3>1 DEF Beside, Device
  <2> HIDE DEF meta
  <2> QED
    BY <1>6, <1>10, <2>1, ChosenTells
<1> QED
  BY <1>1, <1>6, <1>8, <1>9, <1>10, <1>11 DEF Beside

(* Until it is done the last commit is what a device shows.                 *)
LEMMA SaveTells ==
    ASSUME NEW m, Sound(m), m.device.exists, Present(m.device, m.store),
           Newest(m.device, m.store), Backed(m.device, m.store.metadata),
           NEW S, Tells(m.device, S), FileOf(m.store.metadata) \in S,
           \A e \in m.trail : Tells(e, S),
           NEW q, q = SaveMetadata(m)
    PROVE  Tells(q.device, S) /\ \A e \in q.trail : Tells(e, S)
<1> DEFINE meta == m.store.metadata
           g == meta.generation
           i == SlotOf(g + 1)
           c == Last(m.device, m.store)
<1>1. /\ DeviceOK(m.device) /\ meta \in Metadata /\ g \in Nat
      /\ m.device.exists = TRUE
  BY SoundTypes DEF DeviceOK, Device
<1>2. i \in 1..2 /\ Other(i) \in 1..2 /\ Other(i) = SlotOf(g) /\ i = Other(SlotOf(g))
      /\ Other(Other(i)) = i
  <2>1. SlotOf(g) \in 1..2 /\ i = Other(SlotOf(g))
    BY <1>1, SlotRange
  <2> QED
    BY <2>1 DEF Other
<1>3. /\ Readable(m.device) /\ Chosen(m.device) = c
      /\ Record(m.device, Other(i)) = c /\ c # None /\ c.generation = g
      /\ Record(m.device, i) # None => Record(m.device, i).generation < g
  <2>1. Readable(m.device) /\ Chosen(m.device) = c
    BY <1>1, LastIsChosen
  <2>2. Len(m.device.slots) = 2
    BY DEF Present
  <2>3. Record(m.device, SlotOf(g)) = c /\ Record(m.device, Other(SlotOf(g))) = Former(m.device, m.store)
    BY <1>1, <2>2, SlotsAre
  <2> QED
    BY <1>2, <2>1, <2>3 DEF Present, Newest
<1>4. Backed(m.device, c) /\ Shown(m.device) \in S
  BY <1>3 DEF Tells, Whole
<1>5. /\ Sound(q)
      /\ Alike(q.store.metadata, meta) /\ q.store.metadata.generation = g + 1
      /\ q.store.metadata \in Metadata
  BY SaveFields, SoundTypes
<1>6. Backed(m.device, q.store.metadata) /\ FileOf(q.store.metadata) \in S
  BY <1>5, AlikeBacked
<1>7. ASSUME NEW e, DeviceOK(e), Beside(e, m.device), Record(e, Other(i)) = c,
             \/ Record(e, i) = Record(m.device, i)
             \/ Record(e, i) = None
             \/ Record(e, i) = q.store.metadata
      PROVE  Tells(e, S)
  <2>1. e.exists = TRUE
    BY <1>1, <1>7 DEF Beside
  <2>2. Backed(e, c) /\ Backed(e, q.store.metadata)
    BY <1>4, <1>6, <1>7, SameBacked DEF Beside
  <2>3. CASE Record(e, i) = Record(m.device, i) \/ Record(e, i) = None
    <3>1. Record(e, Other(i)) # None
          /\ (Record(e, i) # None => Record(e, i).generation < Record(e, Other(i)).generation)
      BY <1>3, <1>7, <2>3
    <3> HIDE DEF i, c
    <3>2. Readable(e) /\ Chosen(e) = Record(e, Other(i))
      BY <1>2, <1>7, <3>1, NewerIsChosen
    <3>3. Shown(e) = Shown(m.device)
      BY <1>1, <1>3, <1>7, <2>1, <3>2 DEF Shown
    <3> QED
      BY <1>4, <1>7, <2>1, <2>2, <3>2, <3>3 DEF Tells, Whole
  <2>4. CASE Record(e, i) = q.store.metadata
    <3>1. Record(e, i) # None /\ Record(e, Other(i)).generation < Record(e, i).generation
      BY <1>1, <1>3, <1>5, <1>7, <2>4, Constants
    <3> HIDE DEF i, c
    <3>2. Readable(e) /\ Chosen(e) = q.store.metadata
      BY <1>2, <1>7, <2>4, <3>1, NewerIsChosen
    <3> QED
      BY <1>6, <2>1, <2>2, <3>2, ChosenTells
  <2> QED
    BY <1>7, <2>3, <2>4
<1>8. ASSUME NEW e \in q.trail
      PROVE  Tells(e, S)
  <2>1. DeviceOK(e)
    BY <1>5 DEF Sound
  <2>2. CASE e \in m.trail
    BY <2>2
  <2>3. CASE /\ Beside(e, m.device)
             /\ Record(e, Other(i)) = Record(m.device, Other(i))
             /\ \/ Record(e, i) = Record(m.device, i)
                \/ Record(e, i) = None
                \/ Record(e, i) = q.store.metadata
    BY <1>3, <1>7, <2>1, <2>3
  <2> QED
    BY <1>8, <2>2, <2>3, SaveTrail
<1>9. Tells(q.device, S)
  <2>1. Tells(q.device, {FileOf(meta)})
    BY SaveEnds
  <2> QED
    BY <2>1 DEF Tells
<1> QED
  BY <1>8, <1>9

-----------------------------------------------------------------------------
(* A store that is open, with what it holds ready to be committed; and one  *)
(* whose last commit names the same file.                                   *)
Writable(m, S) ==
    /\ Sound(m) /\ m.store.open /\ m.device.exists
    /\ Present(m.device, m.store) /\ Newest(m.device, m.store)
    /\ Backed(m.device, m.store.metadata)
    /\ FilesKept(m.device, m.store)
    /\ FileOf(m.store.metadata) \in S
    /\ Tells(m.device, S)
    /\ \A e \in m.trail : Tells(e, S)

Running(m, S) ==
    /\ Writable(m, S)
    /\ Last(m.device, m.store).kind = m.store.metadata.kind
    /\ Last(m.device, m.store).name = m.store.metadata.name

(* Nothing is open but what no record names.                                *)
Settled(m, S) ==
    /\ Ended(m) /\ Tells(m.device, S) /\ Rest(m.device)
    /\ \A e \in m.trail : Tells(e, S)

(* Closing the file of the store settles the device.                        *)
Closing(m, S) ==
    /\ Sound(m)
    /\ m.device.openFiles \ {m.store.file} \subseteq {NoName}
    /\ Readable(m.device) /\ Chosen(m.device).kind = "vfs" =>
           Chosen(m.device).name \notin m.device.openFiles \ {m.store.file}
    /\ Tells(m.device, S)
    /\ \A e \in m.trail : Tells(e, S)

LEMMA FilesKeptSame ==
    ASSUME NEW d, NEW s, FilesKept(d, s), NEW e, e.openFiles = d.openFiles, e.card = d.card,
           NEW t, Alike(t.metadata, s.metadata), t.file = s.file
    PROVE  FilesKept(e, t)
BY DEF FilesKept, Alike

LEMMA SaveRuns ==
    ASSUME NEW m, NEW S, Writable(m, S), NEW q, q = SaveMetadata(m)
    PROVE  /\ Running(q, S) /\ q.store.uncommitted = 0
           /\ Last(q.device, q.store) = q.store.metadata
           /\ Alike(q.store.metadata, m.store.metadata)
           /\ Beside(q.device, m.device) /\ q.device.card = m.device.card
           /\ q.store.file = m.store.file /\ q.error = m.error
           /\ Tells(q.device, {FileOf(m.store.metadata)})
<1>1. /\ Sound(q) /\ q.error = m.error /\ Beside(q.device, m.device)
      /\ q.device.openFiles = m.device.openFiles /\ q.device.card = m.device.card
      /\ q.store.file = m.store.file /\ q.store.open = m.store.open
      /\ q.store.uncommitted = 0
      /\ Alike(q.store.metadata, m.store.metadata)
  BY SaveFields DEF Writable
<1>2. /\ Present(q.device, q.store) /\ Newest(q.device, q.store)
      /\ Last(q.device, q.store) = q.store.metadata
      /\ Backed(q.device, q.store.metadata)
      /\ Tells(q.device, {FileOf(m.store.metadata)})
  BY SaveEnds DEF Writable
<1>3. Tells(q.device, S) /\ \A e \in q.trail : Tells(e, S)
  BY SaveTells DEF Writable
<1>4. FilesKept(q.device, q.store)
  BY <1>1, FilesKeptSame DEF Writable
<1>5. FileOf(q.store.metadata) \in S
  BY <1>1, AlikeBacked DEF Alike, FileOf, Writable
<1> QED
  BY <1>1, <1>2, <1>3, <1>4, <1>5 DEF Running, Writable, Beside

LEMMA FlushRuns ==
    ASSUME NEW m, NEW S, Running(m, S), NEW q, q = Flush(m)
    PROVE  Running(q, S) /\ q.store.uncommitted = 0 /\ q.error = m.error
<1>1. CASE m.store.uncommitted # 0
  BY <1>1, SaveRuns DEF Flush, Running
<1>2. CASE m.store.uncommitted = 0
  BY <1>2 DEF Flush
<1> QED
  BY <1>1, <1>2

LEMMA RunningCloses ==
    ASSUME NEW m, NEW S, Running(m, S)
    PROVE  Closing(m, S)
<1>1. Sound(m) /\ FilesKept(m.device, m.store)
      /\ Present(m.device, m.store) /\ Newest(m.device, m.store)
  BY DEF Running, Writable
<1>2. DeviceOK(m.device) /\ m.store.metadata.generation \in Nat
  BY <1>1, SoundTypes
<1>3. Chosen(m.device) = Last(m.device, m.store)
  BY <1>1, <1>2, LastIsChosen
<1>4. Chosen(m.device).kind = "vfs" => Chosen(m.device).name = m.store.file
  BY <1>1, <1>3 DEF Running, FilesKept
<1> QED
  BY <1>1, <1>4 DEF Running, Writable, Closing, FilesKept

LEMMA CloseFields ==
    ASSUME NEW m, Sound(m), NEW q, q = Close(m)
    PROVE  /\ Ended(q) /\ q.error = m.error
           /\ ~m.store.open => q.device = m.device /\ q.trail = m.trail
           /\ m.store.open =>
                 /\ Beside(q.device, Flush(m).device)
                 /\ q.device.slots = Flush(m).device.slots
                 /\ q.device.openFiles = Flush(m).device.openFiles \ {Flush(m).store.file}
                 /\ ~q.device.open
                 /\ q.trail = Flush(m).trail
<1> DEFINE flushed == Flush(m)
           saved == IF m.store.open THEN CloseFile(flushed) ELSE m
           open == saved.device.open /\ ~m.store.open
           d == [saved.device EXCEPT !.open = open]
<1>1. Ended(q) /\ q.error = m.error
  BY CloseEnds
<1>2. Sound(flushed)
  BY FlushSound
<1>3. q = [saved EXCEPT !.device.open = open, !.store = ClosedStore]
  BY DEF Close
<1> HIDE DEF flushed
<1>4. /\ Sound(CloseFile(flushed))
      /\ CloseFile(flushed).device = [flushed.device EXCEPT !.openFiles = @ \ {flushed.store.file}]
      /\ CloseFile(flushed).trail = flushed.trail
  BY <1>2, CloseFileSound
<1>5. Sound(saved)
  BY <1>4
<1>6. /\ ~m.store.open => saved = m
      /\ m.store.open => saved.device = [flushed.device EXCEPT !.openFiles = @ \ {flushed.store.file}]
                         /\ saved.trail = flushed.trail
  BY <1>4
<1> HIDE DEF saved
<1>7. saved \in OpValue /\ saved.device \in Device /\ saved.device.open \in BOOLEAN
      /\ flushed.device \in Device
  BY <1>2, <1>5, SoundTypes DEF Sound, Device
<1>8. open \in BOOLEAN /\ (m.store.open => ~open) /\ (~m.store.open => open = saved.device.open)
  BY <1>7
<1> HIDE DEF open
<1>9. q.device = d /\ q.trail = saved.trail
  BY <1>3, <1>7 DEF OpValue
<1>10. /\ Beside(d, saved.device) /\ d.slots = saved.device.slots
       /\ d.openFiles = saved.device.openFiles /\ d.open = open
  BY <1>7, <1>8 DEF Device, Beside
<1>11. ~m.store.open => d = saved.device
  BY <1>7, <1>8 DEF Device
<1> HIDE DEF d
<1>12. m.store.open => /\ Beside(saved.device, flushed.device)
                       /\ saved.device.slots = flushed.device.slots
                       /\ saved.device.openFiles = flushed.device.openFiles \ {flushed.store.file}
  BY <1>6, <1>7 DEF Device, Beside
<1> QED
  BY <1>1, <1>6, <1>8, <1>9, <1>10, <1>11, <1>12 DEF flushed, Beside

LEMMA CloseSettles ==
    ASSUME NEW m, Sound(m), m.store.open, NEW S, Closing(Flush(m), S), NEW q, q = Close(m)
    PROVE  Settled(q, S) /\ q.error = m.error
<1> DEFINE f == Flush(m)
<1>1. /\ Ended(q) /\ q.error = m.error
      /\ Beside(q.device, f.device) /\ q.device.slots = f.device.slots
      /\ q.device.openFiles = f.device.openFiles \ {f.store.file}
      /\ q.trail = f.trail
  BY CloseFields
<1> HIDE DEF f
<1>2. Closing(f, S)
  BY DEF f
<1>3. /\ Tells(q.device, S) /\ (Readable(q.device) <=> Readable(f.device))
      /\ Chosen(q.device) = Chosen(f.device)
  BY <1>1, <1>2, SameTells DEF Closing, Beside
<1> QED
  BY <1>1, <1>2, <1>3 DEF Closing, Settled, Rest

LEMMA FinishSettles ==
    ASSUME NEW m, NEW S, Running(m, S), NEW q, q = JobFinish(m)
    PROVE  Settled(q, S) /\ q.error = m.error
<1>1. Running(Flush(m), S) /\ Flush(m).error = m.error
  BY FlushRuns
<1>2. Running(Flush(Flush(m)), S)
  BY <1>1, FlushRuns
<1>3. Closing(Flush(Flush(m)), S)
  BY <1>2, RunningCloses
<1> QED
  BY <1>1, <1>3, CloseSettles DEF JobFinish, Running, Writable

-----------------------------------------------------------------------------
(* Opening.                                                                 *)

LEMMA TakeNothing ==
    ASSUME NEW S, NEW s \in Seq(S)
    PROVE  Take(s, 0) = <<>>
<1>1. Take(s, 0) \in Seq(S) /\ Len(Take(s, 0)) = 0
  BY TakeSeq, LenProperties
<1> QED
  BY <1>1, EmptySeq

LEMMA DataType ==
    ASSUME NEW d \in Device, NEW meta \in Metadata
    PROVE  DataOf(d, meta) \in Seq(Units) /\ Len(DataOf(d, meta)) \in Nat
<1>1. meta.name \in FileNames
  BY DEF Metadata
<1>2. d.data \in Seq(Units)
  BY DEF Device
<1> QED
  BY <1>1, <1>2, ContentType, LenProperties DEF DataOf

LEMMA EmptyBacked ==
    ASSUME NEW d \in Device, NEW meta \in Metadata, meta.downloaded = 0, meta.sum = <<>>,
           meta.name \in {NoName, TheName}
    PROVE  Backed(d, meta)
<1>1. DataOf(d, meta) \in Seq(Units) /\ Len(DataOf(d, meta)) \in Nat
  BY DataType
<1> QED
  BY <1>1, TakeNothing DEF Backed

LEMMA StartTells ==
    ASSUME NEW d, DeviceOK(d), ~d.open, ~Readable(d), d.exists \/ d.slots = <<>>,
           d.openFiles \subseteq {NoName},
           NEW S, Shown(d) \in S, FileOf(ZeroMetadata) \in S,
           NEW q, q = Open(d)
    PROVE  /\ q.error = "Ok" /\ q.store = Started
           /\ Running(q, S) /\ Kept(q.device, q.store)
<1>1. ~Loads(d)
  BY DEF Loads
<1>2. PICK r : Emptied(d, r) /\ q = SaveMetadata(r)
  BY <1>1, OpenEmpties
<1>3. /\ Sound(q) /\ q.error = "Ok" /\ q.store = Started
      /\ q.device = [Created(d) EXCEPT !.data = <<>>, !.slots = q.device.slots]
      /\ Len(q.device.slots) = 2
      /\ q.device.slots[2] = Started.metadata
      /\ q.device.slots[1] = IF Len(d.slots) = 2 THEN d.slots[1] ELSE None
  BY <1>1, OpenStarted
<1>4. /\ Started.open /\ Started.file = None /\ Started.uncommitted = 0
      /\ Started.metadata \in Metadata /\ Started.metadata # None
      /\ Started.metadata.generation = 1 /\ Started.metadata.downloaded = 0
      /\ Started.metadata.kind = "database" /\ Started.metadata.name = NoName
      /\ Started.metadata.sum = <<>> /\ ~Started.metadata.complete
  BY StartedType, Constants
<1>5. SlotOf(1) = 2 /\ Other(2) = 1
  BY DEF SlotOf, Other
<1>6. /\ DeviceOK(r.device) /\ r.device.slots = d.slots /\ r.store.metadata.generation = 0
      /\ \A i \in 1..2 : Record(d, i) = None /\ Record(r.device, i) = None
  <2>1. \A i \in 1..2 : Record(d, i) = None
    BY RecordFacts
  <2>2. Sound(r) /\ r.device.slots = d.slots /\ r.store = Fresh
    BY <1>2 DEF Emptied
  <2>3. Record(r.device, 1) = Record(d, 1) /\ Record(r.device, 2) = Record(d, 2)
    BY <2>2 DEF Record
  <2> QED
    BY <2>1, <2>2, <2>3, FreshType, SoundTypes
<1>7. FileOf(Started.metadata) = FileOf(ZeroMetadata)
  BY <1>4, FreshType, StartedType DEF FileOf, Metadata, Vouched
<1>8. ASSUME NEW e, DeviceOK(e), e.exists = TRUE,
             Record(e, 1) = None, Record(e, 2) \in {None, Started.metadata}
      PROVE  Tells(e, S)
  <2>1. e \in Device /\ Backed(e, Started.metadata)
    BY <1>4, <1>8, EmptyBacked DEF DeviceOK
  <2>2. CASE Record(e, 2) = None
    <3>1. ~Readable(e)
      BY <1>8, <2>2, RecordFacts
    <3>2. Shown(e) = FileOf(ZeroMetadata)
      <4>1. ZeroMetadata.complete = FALSE /\ ZeroMetadata.sum = <<>>
        BY DEF ZeroMetadata
      <4> QED
        BY <1>8, <3>1, <4>1 DEF Shown, FileOf, Vouched
    <3> QED
      BY <1>8, <3>1, <3>2 DEF Tells, Whole
  <2>3. CASE Record(e, 2) = Started.metadata
    <3>1. Readable(e) /\ Chosen(e) = Started.metadata
      BY <1>4, <1>5, <1>8, <2>3, NewerIsChosen
    <3> QED
      BY <1>7, <1>8, <2>1, <3>1, ChosenTells
  <2> QED
    BY <1>8, <2>2, <2>3
<1>9. ASSUME NEW e \in r.trail
      PROVE  Tells(e, S)
  <2>1. CASE e = d
    BY <2>1 DEF Tells, Whole
  <2>2. CASE e.slots = d.slots /\ e.exists = TRUE
    <3>1. DeviceOK(e)
      BY <1>2 DEF Emptied, Sound
    <3>2. Record(e, 1) = None /\ Record(e, 2) = None
      BY <1>6, <2>2 DEF Record
    <3> QED
      BY <1>8, <2>2, <3>1, <3>2
  <2> QED
    BY <1>2, <1>9, <2>1, <2>2 DEF Emptied
<1>10. r.device.exists = TRUE
  <2>1. r.device = [Created(d) EXCEPT !.data = <<>>] /\ Created(d) \in Device
        /\ Created(d).exists = TRUE
    BY <1>2, CreatedOK DEF Emptied, DeviceOK, Device
  <2> QED
    BY <2>1 DEF Device
<1>11. ASSUME NEW e \in q.trail
       PROVE  Tells(e, S)
  <2>1. DeviceOK(e)
    BY <1>3 DEF Sound
  <2>2. SlotOf(r.store.metadata.generation + 1) = 2
    BY <1>5, <1>6
  <2>3. \/ e \in r.trail
        \/ /\ Beside(e, r.device)
           /\ Record(e, 1) = Record(r.device, 1)
           /\ \/ Record(e, 2) = Record(r.device, 2)
              \/ Record(e, 2) = None
              \/ Record(e, 2) = q.store.metadata
    <3>1. Sound(r)
      BY <1>2 DEF Emptied
    <3> QED
      BY <1>2, <1>5, <2>2, <3>1, SaveTrail
  <2>4. CASE e \in r.trail
    BY <1>9, <2>4
  <2>5. CASE /\ Beside(e, r.device)
             /\ Record(e, 1) = Record(r.device, 1)
             /\ \/ Record(e, 2) = Record(r.device, 2)
                \/ Record(e, 2) = None
                \/ Record(e, 2) = q.store.metadata
    <3>1. e.exists = TRUE
      BY <1>10, <2>5 DEF Beside
    <3>2. Record(e, 1) = None /\ Record(e, 2) \in {None, Started.metadata}
      BY <1>3, <1>6, <2>5
    <3> QED
      BY <1>8, <2>1, <3>1, <3>2
  <2> QED
    BY <2>3, <2>4, <2>5
<1>12. /\ q.device.exists = TRUE /\ q.device.openFiles = d.openFiles
       /\ q.device \in Device /\ DeviceOK(q.device)
  <2>1. /\ Created(d) \in Device /\ Created(d).exists = TRUE
        /\ Created(d).openFiles = d.openFiles
    BY CreatedOK DEF DeviceOK, Device
  <2>2. q.device = [Created(d) EXCEPT !.data = <<>>, !.slots = q.device.slots]
    BY <1>3
  <2>3. DeviceOK(q.device) /\ q.device \in Device
    BY <1>3 DEF Sound, DeviceOK
  <2> QED
    BY <2>1, <2>2, <2>3 DEF Device
<1>13. Record(q.device, 1) = None /\ Record(q.device, 2) = Started.metadata
  <2>1. Len(d.slots) = 2 => Record(d, 1) = d.slots[1]
    BY DEF Record
  <2> QED
    BY <1>3, <1>6, <2>1 DEF Record
<1>14. Tells(q.device, S)
  BY <1>8, <1>12, <1>13
<1>15. /\ Last(q.device, q.store) = Started.metadata
       /\ Present(q.device, q.store) /\ Newest(q.device, q.store)
  <2>1. Last(q.device, q.store) = Started.metadata /\ Former(q.device, q.store) = None
    BY <1>3, <1>4, <1>5, <1>13 DEF Last, Former, Record
  <2> QED
    BY <1>3, <1>4, <2>1 DEF Present, Newest
<1>16. Backed(q.device, q.store.metadata) /\ FilesKept(q.device, q.store)
       /\ Tight(q.device, q.store.metadata)
  BY <1>3, <1>4, <1>12, EmptyBacked DEF FilesKept, Tight
<1>17. Agrees(Last(q.device, q.store), q.store.metadata)
  BY <1>3, <1>4, <1>15, TakeNothing DEF Agrees, Metadata
<1>18. Running(q, S)
  BY <1>3, <1>4, <1>7, <1>11, <1>12, <1>14, <1>15, <1>16 DEF Running, Writable
<1> QED
  BY <1>3, <1>12, <1>15, <1>16, <1>17, <1>18 DEF Kept

(* A store whose records can be used is loaded, unless its file is on a     *)
(* card that is not there.                                                  *)
LEMMA WholeLoads ==
    ASSUME NEW d, DeviceOK(d), Whole(d), Readable(d)
    PROVE  Loads(d) /\ d.exists = TRUE
<1>1. Len(d.slots) = 2
  BY ChosenFacts
<1>2. d.slots # <<>>
  BY <1>1
<1>3. d.exists = TRUE
  BY <1>2 DEF Whole, DeviceOK, Device
<1>4. Chosen(d).kind = "database" => Chosen(d).downloaded <= Len(d.data)
  BY DEF Whole, Backed, DataOf
<1> QED
  BY <1>3, <1>4 DEF Loads

(* The chosen record after an opening is backed on every device on the way. *)
LEMMA OpenTrailTells ==
    ASSUME NEW d, DeviceOK(d), Whole(d), Readable(d), NEW S, Shown(d) \in S,
           NEW q, OpenTrail(d, q), NEW e \in q.trail
    PROVE  Tells(e, S)
<1> DEFINE c == Chosen(d)
           content == Content(d, c.name)
<1>1. d.exists = TRUE
  BY WholeLoads
<1>2. /\ e.slots = d.slots /\ e.exists = d.exists /\ e.data = d.data
      /\ \/ e.files = d.files
         \/ c.kind = "vfs" /\ Content(e, c.name) \in {content, Take(content, c.downloaded)}
  BY <1>1 DEF OpenTrail
<1>3. /\ c \in Metadata /\ c.name \in FileNames /\ c.downloaded \in Nat
      /\ content \in Seq(Units) /\ Len(content) \in Nat
  <2>1. c \in Metadata
    BY ChosenFacts
  <2>2. c.name \in FileNames /\ c.downloaded \in Nat
    BY <2>1 DEF Metadata
  <2> QED
    BY <2>1, <2>2, ContentType DEF DeviceOK
<1>4. Backed(d, c)
  BY DEF Whole
<1> HIDE DEF c
<1>5. Backed(e, c)
  <2>1. CASE e.files = d.files
    BY <1>2, <1>4, <2>1, SameBacked
  <2>2. CASE c.kind = "vfs" /\ Content(e, c.name) \in {content, Take(content, c.downloaded)}
    <3>1. c.downloaded \in 0..Len(content) /\ Take(content, c.downloaded) = c.sum
      BY <1>3, <1>4, <2>2 DEF Backed, DataOf
    <3> HIDE DEF content
    <3>2. /\ Len(Take(content, c.downloaded)) = c.downloaded
          /\ Take(Take(content, c.downloaded), c.downloaded) = Take(content, c.downloaded)
      BY <1>3, <3>1, TakeSeq, TakeAll
    <3>3. c.downloaded <= Len(Content(e, c.name)) /\ Take(Content(e, c.name), c.downloaded) = c.sum
      BY <1>3, <2>2, <3>1, <3>2
    <3> QED
      BY <1>4, <2>2, <3>3 DEF Backed, DataOf
  <2> QED
    BY <1>2, <2>1, <2>2
<1>6. Tells(d, S)
  BY DEF Tells
<1> QED
  BY <1>2, <1>5, <1>6, OutsideTells DEF c

LEMMA LoadTells ==
    ASSUME NEW d, DeviceOK(d), ~d.open, Whole(d), Readable(d), Rest(d),
           NEW S, Shown(d) \in S, NEW q, q = Open(d)
    PROVE  /\ Sound(q)
           /\ \A e \in q.trail : Tells(e, S)
           /\ q.error = "Ok" => /\ Running(q, S) /\ Kept(q.device, q.store)
                                /\ Alike(q.store.metadata, Chosen(d))
           /\ q.error # "Ok" => /\ Chosen(d).kind = "vfs" /\ ~d.card
                                /\ q.device = Created(d) /\ q.store.file = None
                                /\ q.store.uncommitted = 0 /\ q.store.open
<1> DEFINE c == Chosen(d)
           content == Content(d, c.name)
           cut == Take(content, c.downloaded)
           opens == d.card /\ c.name \notin d.openFiles /\ c.downloaded <= Len(content)
<1>1. Loads(d) /\ d.exists = TRUE /\ OpenedAs(d, q)
  BY WholeLoads, OpenLoaded
<1>2. /\ c \in Metadata /\ c # None /\ c.name \in FileNames /\ c.downloaded \in Nat
      /\ c.generation \in Nat
      /\ c.kind \in {"database", "vfs"} /\ c.sum \in Seq(Units) /\ c.complete \in BOOLEAN
      /\ content \in Seq(Units) /\ Len(content) \in Nat
      /\ d \in Device /\ d.data \in Seq(Units) /\ Len(d.data) \in Nat
      /\ Len(d.slots) = 2 /\ d.slots[SlotOf(c.generation)] = c
      /\ SlotOf(c.generation) \in 1..2
      /\ d.slots[Other(SlotOf(c.generation))] # None =>
            d.slots[Other(SlotOf(c.generation))].generation < c.generation
  <2>1. c \in Metadata /\ c # None /\ Len(d.slots) = 2 /\ d.slots[SlotOf(c.generation)] = c
        /\ SlotOf(c.generation) \in 1..2
        /\ (d.slots[Other(SlotOf(c.generation))] # None =>
              d.slots[Other(SlotOf(c.generation))].generation < c.generation)
    BY ChosenFacts
  <2>2. c.name \in FileNames /\ c.downloaded \in Nat /\ c.generation \in Nat
        /\ c.kind \in {"database", "vfs"} /\ c.sum \in Seq(Units) /\ c.complete \in BOOLEAN
    BY <2>1 DEF Metadata
  <2>3. d \in Device
    BY DEF DeviceOK
  <2>4. content \in Seq(Units) /\ Len(content) \in Nat /\ d.data \in Seq(Units)
        /\ Len(d.data) \in Nat
    BY <2>2, <2>3, ContentType, FilesType
  <2> QED
    BY <2>1, <2>2, <2>3, <2>4
<1>3. Backed(d, c) /\ Tells(d, S)
  BY DEF Whole, Tells
<1>4. /\ d.openFiles \subseteq {NoName}
      /\ c.kind = "vfs" => c.name \notin d.openFiles
  BY DEF Rest
<1>5. c.kind = "vfs" => c.downloaded <= Len(content) /\ cut = c.sum
  BY <1>3 DEF Backed, DataOf
<1>6. c.kind = "database" => Take(d.data, c.downloaded) = c.sum
  BY <1>3 DEF Backed, DataOf
<1> HIDE DEF c
<1>7. /\ Sound(q)
      /\ q.store = Repathed(LoadedStore(d), q.store.metadata.path, q.store.file)
      /\ q.device = [Created(d) EXCEPT !.files = q.device.files,
                                       !.openFiles = q.device.openFiles]
      /\ c.kind = "database" => q.device = Created(d) /\ q.store = LoadedStore(d)
                                /\ q.error = "Ok"
      /\ c.kind = "vfs" => (q.error = "Ok" <=> opens)
      /\ c.kind = "vfs" /\ opens =>
            /\ q.store.file = c.name
            /\ q.device.openFiles = d.openFiles \cup {c.name}
            /\ q.device.files = [d.files EXCEPT ![c.name] = cut]
      /\ c.kind = "vfs" /\ (~d.card \/ c.name \in d.openFiles) =>
              q.device = Created(d) /\ q.store.file = None
      /\ c.kind = "database" \/ ~d.card \/ c.name \in d.openFiles \/ opens =>
              OpenTrail(d, q)
  BY <1>1, <1>5, <1>6 DEF OpenedAs, c
<1>8. OpenTrail(d, q)
  BY <1>2, <1>4, <1>5, <1>7
<1>9. \A e \in q.trail : Tells(e, S)
  BY <1>8, OpenTrailTells
<1>10. /\ LoadedStore(d) \in LooseStore /\ LoadedStore(d).metadata = c
       /\ LoadedStore(d).file = None /\ LoadedStore(d).open
       /\ LoadedStore(d).uncommitted = 0
  BY LoadedStoreType DEF c
<1>11. /\ q.store.open /\ q.store.uncommitted = 0
       /\ q.store.metadata = [c EXCEPT !.path = q.store.metadata.path]
  <2> DEFINE p == q.store.metadata.path
             f == q.store.file
  <2>1. q.store = Repathed(LoadedStore(d), p, f)
    BY <1>7
  <2> HIDE DEF p, f
  <2>2. q.store.metadata = [c EXCEPT !.path = p]
    BY <1>10, <2>1, RepathedMeta
  <2>3. q.store.open = LoadedStore(d).open /\ q.store.uncommitted = LoadedStore(d).uncommitted
    BY <1>10, <2>1 DEF Repathed, LooseStore
  <2> QED
    BY <1>10, <2>2, <2>3 DEF p
<1>12. Alike(q.store.metadata, c) /\ q.store.metadata.generation = c.generation
  <2> DEFINE p == q.store.metadata.path
  <2>1. q.store.metadata = [c EXCEPT !.path = p]
    BY <1>11
  <2> HIDE DEF p
  <2> QED
    BY <1>2, <2>1 DEF Alike, Metadata
<1>13. ASSUME q.error = "Ok"
       PROVE  Running(q, S) /\ Kept(q.device, q.store)
  <2>1. c.kind = "vfs" => opens
    BY <1>7, <1>13
  <2>2. /\ q.device.slots = d.slots /\ q.device.exists = d.exists
        /\ q.device.data = d.data /\ q.device.card = d.card
    <3>1. /\ Created(d) \in Device /\ Created(d).slots = d.slots
          /\ Created(d).exists = d.exists /\ Created(d).data = d.data
          /\ Created(d).card = d.card
      BY <1>1, CreatedOK DEF DeviceOK, Device
    <3> QED
      BY <1>7, <3>1 DEF Device
  <2>3. c.kind = "database" => q.device.files = d.files /\ q.device.openFiles = d.openFiles
                               /\ q.store.file = None
    BY <1>7, <1>10, CreatedOK
  <2>4. c.kind = "vfs" => /\ Content(q.device, c.name) = cut
                          /\ cut \in Seq(Units) /\ Len(cut) = c.downloaded
                          /\ Take(cut, c.downloaded) = c.sum
    <3> HAVE c.kind = "vfs"
    <3>1. c.downloaded \in 0..Len(content)
      BY <1>2, <1>5
    <3> HIDE DEF content
    <3>2. cut \in Seq(Units) /\ Len(cut) = c.downloaded /\ Take(cut, c.downloaded) = cut
      BY <1>2, <3>1, TakeSeq, TakeAll
    <3> HIDE DEF cut
    <3>3. d.files \in [FileNames -> Seq(Units) \cup {None}]
      BY <1>2, FilesType
    <3>4. q.device.files[c.name] = cut /\ cut # None
      BY <1>2, <1>7, <2>1, <3>2, <3>3, Constants
    <3> QED
      BY <1>5, <3>2, <3>4 DEF Content
  <2>5. Backed(q.device, c)
    <3>1. CASE c.kind = "database"
      BY <1>3, <2>2, <2>3, <3>1, SameBacked
    <3>2. CASE c.kind = "vfs"
      BY <1>2, <1>3, <2>4, <3>2 DEF Backed, DataOf
    <3> QED
      BY <1>2, <3>1, <3>2
  <2>6. Tells(q.device, S)
    BY <1>3, <2>2, <2>5, OutsideTells DEF c
  <2>7. /\ Last(q.device, q.store) = c
        /\ Present(q.device, q.store) /\ Newest(q.device, q.store)
    BY <1>2, <1>12, <2>2 DEF Last, Former, Present, Newest
  <2>8. /\ Backed(q.device, q.store.metadata)
        /\ FileOf(q.store.metadata) = FileOf(c)
    BY <1>12, <2>5, AlikeBacked
  <2>9. FileOf(c) \in S
    <3>1. Shown(d) = FileOf(c)
      BY <1>1, <1>2 DEF Shown, FileOf, Vouched, c
    <3> QED
      BY <3>1
  <2>10. FilesKept(q.device, q.store)
    <3>1. CASE c.kind = "database"
      BY <1>4, <1>12, <2>3, <3>1 DEF FilesKept, Alike
    <3>2. CASE c.kind = "vfs"
      BY <1>4, <1>7, <1>12, <2>1, <2>2, <3>2 DEF FilesKept, Alike
    <3> QED
      BY <1>2, <3>1, <3>2
  <2>11. Tight(q.device, q.store.metadata)
    BY <1>12, <2>4 DEF Tight, Alike
  <2>12. Agrees(Last(q.device, q.store), q.store.metadata)
    <3>1. Take(c.sum, c.downloaded) = c.sum
      <4>1. CASE c.kind = "vfs"
        BY <2>4, <4>1, <1>5
      <4>2. CASE c.kind = "database"
        <5>1. c.downloaded \in 0..Len(d.data) /\ Take(d.data, c.downloaded) = c.sum
          BY <1>2, <1>3, <1>6, <4>2 DEF Backed, DataOf
        <5> QED
          BY <1>2, <5>1, TakeAll
      <4> QED
        BY <1>2, <4>1, <4>2
    <3> QED
      BY <1>12, <2>7, <3>1 DEF Agrees, Alike
  <2>13. Running(q, S)
    BY <1>1, <1>7, <1>9, <1>11, <1>12, <2>2, <2>6, <2>7, <2>8, <2>9, <2>10
    DEF Running, Writable, Alike
  <2> QED
    BY <1>1, <2>2, <2>7, <2>8, <2>10, <2>11, <2>12, <2>13 DEF Kept
<1>14. ASSUME q.error # "Ok"
       PROVE  c.kind = "vfs" /\ ~d.card /\ q.device = Created(d) /\ q.store.file = None
  BY <1>2, <1>4, <1>5, <1>7, <1>14
<1> QED
  BY <1>7, <1>9, <1>11, <1>12, <1>13, <1>14 DEF c

LEMMA OpenTells ==
    ASSUME NEW d, DeviceOK(d), Whole(d), Rest(d),
           NEW S, Shown(d) \in S, ~Readable(d) => FileOf(ZeroMetadata) \in S,
           NEW q, q = Open(d)
    PROVE  /\ Sound(q)
           /\ \A e \in q.trail : Tells(e, S)
           /\ q.error = "Ok" => /\ Running(q, S) /\ Kept(q.device, q.store)
                                /\ q.store.uncommitted = 0 /\ ~d.open
           /\ q.error # "Ok" => /\ q.device = d \/ q.device = Created(d)
                                /\ Tells(q.device, S) /\ Rest(q.device)
<1>1. Tells(d, S) /\ d \in Device
  BY DEF Tells, DeviceOK
<1>2. CASE d.open
  BY <1>1, <1>2, OpenRefused
<1>3. CASE ~d.open /\ ~Readable(d)
  <2>1. q.error = "Ok" /\ q.store = Started /\ Running(q, S) /\ Kept(q.device, q.store)
    BY <1>3, StartTells DEF Whole, Rest
  <2> QED
    BY <1>3, <2>1, StartedType DEF Running, Writable
<1>4. CASE ~d.open /\ Readable(d)
  <2>1. /\ Sound(q)
        /\ \A e \in q.trail : Tells(e, S)
        /\ q.error = "Ok" => Running(q, S) /\ Kept(q.device, q.store)
        /\ q.error # "Ok" => q.device = Created(d)
    BY <1>4, LoadTells
  <2>2. q.error = "Ok" => q.store.uncommitted = 0
    BY OpenSucceeds
  <2>3. q.error # "Ok" => Tells(q.device, S) /\ Rest(q.device)
    <3> HAVE q.error # "Ok"
    <3>1. q.device = Created(d)
      BY <2>1
    <3>2. d.exists = TRUE
      BY <1>4, WholeLoads
    <3>3. /\ Created(d).slots = d.slots /\ Created(d).exists = d.exists
          /\ Created(d).data = d.data /\ Created(d).files = d.files
          /\ Created(d).openFiles = d.openFiles
      BY <1>1, <3>2 DEF Created, Device
    <3>4. Tells(Created(d), S) /\ Readable(Created(d)) /\ Chosen(Created(d)) = Chosen(d)
      BY <1>1, <1>4, <3>3, SameTells
    <3> QED
      BY <1>4, <3>1, <3>3, <3>4 DEF Rest
  <2> QED
    BY <1>4, <2>1, <2>2, <2>3
<1> QED
  BY <1>2, <1>3, <1>4

(* A device whose chosen record is backed can be used, and recovers the     *)
(* file that it shows.                                                      *)
LEMMA WholeUsable ==
    ASSUME NEW d, DeviceOK(d), Whole(d)
    PROVE  Usable(d) /\ FileOn(d) = Shown(d)
<1> DEFINE e == [Rebooted(d) EXCEPT !.card = TRUE]
<1>1. /\ e.slots = d.slots /\ e.data = d.data /\ e.files = d.files /\ e.exists = d.exists
      /\ e.openFiles = {} /\ ~e.open /\ e.card
      /\ e \in Device /\ d \in Device
  BY DEF DeviceOK, Device, Rebooted
<1>2. DeviceOK(e)
  BY <1>1, SameSlots
<1> HIDE DEF e
<1> DEFINE S == {Shown(e), FileOf(ZeroMetadata)}
<1>3. Tells(d, {Shown(d)})
  BY DEF Tells
<1>4. Whole(e) /\ Rest(e) /\ (Readable(e) <=> Readable(d))
  <2>1. Tells(e, {Shown(d)}) /\ (Readable(e) <=> Readable(d))
    BY <1>1, <1>3, SameTells
  <2> QED
    BY <1>1, <2>1 DEF Tells, Rest
<1>5. Open(e).error = "Ok"
  <2>1. CASE Readable(e)
    <3>1. Shown(e) \in S
      OBVIOUS
    <3> HIDE DEF S
    <3> QED
      BY <1>1, <1>2, <1>4, <2>1, <3>1, LoadTells
  <2>2. CASE ~Readable(e)
    BY ZenonT(40), <1>1, <1>2, <2>2, OpenStarted DEF Loads
  <2> QED
    BY <2>1, <2>2
<1>6. Usable(d)
  BY <1>5 DEF Usable, Reopened, Succeeded, e
<1>7. /\ ~Loads(d) => Recovered(d) = <<>> /\ ~RecoveredWhole(d)
      /\ Loads(d) => Recovered(d) = Chosen(d).sum /\ RecoveredWhole(d) = Vouched(Chosen(d))
  BY <1>6, ReopenedFacts
<1>8. Loads(d) <=> Readable(d)
  BY WholeLoads DEF Loads
<1>9. /\ Readable(d) => Recovered(d) = Chosen(d).sum /\ RecoveredWhole(d) = Vouched(Chosen(d))
      /\ ~Readable(d) => Recovered(d) = <<>> /\ RecoveredWhole(d) = FALSE
  <2>1. ~Readable(d) => RecoveredWhole(d) = FALSE
    <3> HAVE ~Readable(d)
    <3>1. ~Readable(e) /\ ~Loads(e)
      BY <1>4 DEF Loads
    <3>2. Open(e).store = Started
      BY ZenonT(40), <1>1, <1>2, <3>1, OpenStarted
    <3>3. ~Started.metadata.complete
      BY StartedType
    <3> QED
      BY <3>2, <3>3 DEF RecoveredWhole, Reopened, Vouched, e
  <2> QED
    BY <1>7, <1>8, <2>1
<1>10. FileOn(d) = [present |-> d.exists, content |-> Recovered(d), complete |-> RecoveredWhole(d)]
  <2>1. RecoveredWhole(d) \in BOOLEAN
    <3>1. Vouched(Chosen(d)) \in BOOLEAN
      BY DEF Vouched
    <3> QED
      BY <1>9, <3>1
  <2>2. (Usable(d) /\ RecoveredWhole(d)) = RecoveredWhole(d)
    BY <1>6, <2>1
  <2> QED
    BY <1>6, <2>2 DEF FileOn
<1>11. Shown(d) = [present |-> d.exists, content |-> Recovered(d), complete |-> RecoveredWhole(d)]
  <2>1. Readable(d) => (Readable(d) /\ Vouched(Chosen(d))) = Vouched(Chosen(d))
    BY DEF Vouched
  <2>2. ~Readable(d) => (Readable(d) /\ Vouched(Chosen(d))) = FALSE
    OBVIOUS
  <2> QED
    BY <1>9, <2>1, <2>2 DEF Shown
<1> QED
  BY <1>6, <1>10, <1>11, Zenon

-----------------------------------------------------------------------------
(* Steps.                                                                   *)

(* An operation that a reset may cut short tells S on the way.              *)
Way(op, m, S) == op \in ResetDuring => \A e \in m.trail : Tells(e, S)

LEMMA CutOffCalmly ==
    ASSUME NEW e \in Device, NEW S, Tells(e, S), device' = Rebooted(e), job' = Idle
    PROVE  Calmly' /\ Shown(device') \in S
<1>1. Tells(Rebooted(e), S) /\ Rest(Rebooted(e))
  BY RebootedTells
<1>2. Whole(device') /\ Rest(device') /\ Shown(device') \in S
  BY <1>1, Zenon DEF Tells
<1> QED
  BY <1>2 DEF Calmly, Idle, Receiving

LEMMA EndsCalmly ==
    ASSUME NEW op, NEW m, Sound(m), NEW S, Way(op, m, S), Tells(m.device, S), Rest(m.device),
           Runs(op, m, Idle)
    PROVE  Calmly' /\ Shown(device') \in S
<1>1. CASE device' = m.device /\ job' = Idle
  <2>1. Whole(device') /\ Rest(device') /\ Shown(device') \in S
    BY <1>1, Zenon DEF Tells
  <2> QED
    BY <1>1, <2>1 DEF Calmly, Idle, Receiving
<1>2. CASE op \in ResetDuring /\ (\E e \in m.trail : device' = Rebooted(e)) /\ job' = Idle
  <2>1. PICK e \in m.trail : device' = Rebooted(e)
    BY <1>2
  <2>2. e \in Device /\ Tells(e, S)
    BY <1>2 DEF Sound, DeviceOK, Way
  <2> QED
    BY <1>2, <2>1, <2>2, CutOffCalmly
<1> QED
  BY <1>1, <1>2 DEF Runs

LEMMA GoesOnCalmly ==
    ASSUME NEW op, NEW m, Sound(m), NEW S, Way(op, m, S), Tells(m.device, S),
           Kept(m.device, m.store),
           NEW next, next.stage \in Stages \ {"idle"},
           next.stage = "request" => ~m.store.metadata.complete /\ m.store.uncommitted = 0,
           next.stage \in Receiving => m.store.metadata.name # NoName,
           Runs(op, m, next)
    PROVE  Calmly' /\ Shown(device') \in S
<1>1. CASE device' = m.device /\ store' = m.store /\ job' = next
  <2>1. Whole(device') /\ Kept(device', store') /\ Shown(device') \in S
    BY <1>1, Zenon DEF Tells
  <2> QED
    BY <1>1, <2>1 DEF Calmly
<1>2. CASE op \in ResetDuring /\ (\E e \in m.trail : device' = Rebooted(e)) /\ job' = Idle
  <2>1. PICK e \in m.trail : device' = Rebooted(e)
    BY <1>2
  <2>2. e \in Device /\ Tells(e, S)
    BY <1>2 DEF Sound, DeviceOK, Way
  <2> QED
    BY <1>2, <2>1, <2>2, CutOffCalmly
<1> QED
  BY <1>1, <1>2 DEF Runs

(* What a running download starts from.                                     *)
LEMMA NowRuns ==
    ASSUME Consistent, Calmly, job.stage # "idle",
           NEW S, Shown(device) \in S, FileOf(store.metadata) \in S
    PROVE  /\ Running(Now, S) /\ Kept(device, store) /\ Now.error = "Ok"
           /\ Now.device = device /\ Now.store = store
<1>1. /\ Sound(Now) /\ Now.error = "Ok" /\ Now.device = device /\ Now.store = store
      /\ Ready(Now.device, Now.store)
  BY NowSound
<1>2. Kept(device, store) /\ Tells(device, S)
  BY DEF Calmly, Tells
<1>3. Now.trail = {device}
  BY DEF Now, Begin
<1>4. /\ Present(device, store) /\ Last(device, store).kind = store.metadata.kind
      /\ store.open
  BY <1>1 DEF Ready, Committed
<1> QED
  BY <1>1, <1>2, <1>3, <1>4 DEF Running, Writable, Kept, Agrees

Unchanged == Shown(device') = Shown(device)

LEMMA StartCalmly ==
    ASSUME Consistent, Calmly, DownloadStart
    PROVE  /\ Calmly'
           /\ Unchanged \/ (~Readable(device) /\ Shown(device') = FileOf(ZeroMetadata))
<1> DEFINE m == Open(device)
           S == {f \in {Shown(device), FileOf(ZeroMetadata)} :
                    f = Shown(device) \/ ~Readable(device)}
<1>1. /\ DeviceOK(device) /\ Whole(device) /\ Rest(device)
      /\ Shown(device) \in S
      /\ ~Readable(device) => FileOf(ZeroMetadata) \in S
  BY DEF Consistent, Calmly, DownloadStart, Idle
<1>2. \A f \in S : f = Shown(device) \/ (~Readable(device) /\ f = FileOf(ZeroMetadata))
  OBVIOUS
<1> HIDE DEF S
<1>3. /\ Sound(m)
      /\ \A e \in m.trail : Tells(e, S)
      /\ m.error = "Ok" => Running(m, S) /\ Kept(m.device, m.store) /\ m.store.uncommitted = 0
      /\ m.error # "Ok" => Tells(m.device, S) /\ Rest(m.device)
  BY <1>1, OpenTells
<1>4. IF m.error # "Ok" THEN Runs("Open", [m EXCEPT !.store = ClosedStore], Idle)
      ELSE IF m.store.metadata.complete THEN Runs("Open", Close(m), Idle)
      ELSE Runs("Open", m, [stage |-> "request", left |-> <<>>])
  BY DEF DownloadStart, Succeeded
<1> HIDE DEF m
<1>5. Calmly' /\ Shown(device') \in S
  <2>1. CASE m.error # "Ok"
    <3> DEFINE q == [m EXCEPT !.store = ClosedStore]
    <3>1. /\ Sound(q) /\ q.device = m.device /\ q.trail = m.trail
      <4>1. Ended(q)
        BY <1>3, DroppedEnds
      <4>2. q.device = m.device /\ q.trail = m.trail
        BY <1>3 DEF Sound, OpValue
      <4> QED
        BY <4>1, <4>2 DEF Ended
    <3>2. Runs("Open", q, Idle)
      BY <1>4, <2>1
    <3> HIDE DEF q
    <3>3. Way("Open", q, S) /\ Tells(q.device, S) /\ Rest(q.device)
      BY <1>3, <2>1, <3>1 DEF Way
    <3> QED
      BY <3>1, <3>2, <3>3, EndsCalmly
  <2>2. CASE m.error = "Ok" /\ m.store.metadata.complete
    <3>1. Flush(m) = m /\ m.store.open
      BY <1>3, <2>2 DEF Flush, Running, Writable
    <3>2. Settled(Close(m), S)
      BY <1>3, <2>2, <3>1, RunningCloses, CloseSettles
    <3> QED
      BY <1>4, <2>2, <3>2, EndsCalmly DEF Settled, Ended, Way
  <2>3. CASE m.error = "Ok" /\ ~m.store.metadata.complete
    <3> DEFINE next == [stage |-> "request", left |-> <<>>]
    <3>1. /\ Runs("Open", m, next) /\ next.stage = "request"
          /\ next.stage \in Stages \ {"idle"} /\ next.stage \notin Receiving
      BY <1>4, <2>3 DEF Stages, Receiving
    <3> HIDE DEF next
    <3>2. Way("Open", m, S) /\ Tells(m.device, S)
      BY <1>3, <2>3 DEF Way, Running, Writable
    <3> QED
      BY <1>3, <2>3, <3>1, <3>2, GoesOnCalmly
  <2> QED
    BY <2>1, <2>2, <2>3
<1> QED
  BY <1>2, <1>5 DEF Unchanged

LEMMA AbandonCalmly ==
    ASSUME Consistent, Calmly, Abandon
    PROVE  Calmly' /\ (Unchanged \/ Shown(device') = FileOf(store.metadata))
<1> DEFINE S == {Shown(device), FileOf(store.metadata)}
<1>1. Running(Now, S)
  BY NowRuns DEF Abandon
<1> HIDE DEF S
<1>2. Settled(JobFinish(Now), S)
  BY <1>1, FinishSettles
<1>3. Calmly' /\ Shown(device') \in S
  BY <1>2, EndsCalmly DEF Abandon, Settled, Ended, Way
<1> QED
  BY <1>3 DEF S, Unchanged

(* What a store that becomes complete shows.                                *)
Completed(meta) == [meta EXCEPT !.complete = TRUE]

LEMMA MarkSettles ==
    ASSUME NEW m, NEW S, Running(m, S), m.error = "Ok",
           FileOf(Completed(m.store.metadata)) \in S,
           Truthful =>
               /\ m.store.metadata.validator \in Versions
               /\ IsBeginning(m.store.metadata.sum, m.store.metadata.validator)
               /\ m.store.metadata.stated
                  /\ m.store.metadata.total \in {0, m.store.metadata.downloaded}
                     => m.store.metadata.sum = Version(m.store.metadata.validator),
           NEW q, q = JobFinish(MarkComplete(m))
    PROVE  Settled(q, S)
<1> DEFINE meta == m.store.metadata
           done == Completed(meta)
           w == WithMeta(m, done)
<1>1. /\ Sound(m) /\ meta \in Metadata /\ m.store \in LooseStore
  BY SoundTypes DEF Running, Writable
<1>2. CASE meta.total \notin {0, meta.downloaded}
  <2> DEFINE f == Fail(m, "CorruptDatabase")
  <2>1. MarkComplete(m) = f
    BY <1>2 DEF MarkComplete
  <2>2. /\ Sound(f) /\ f.device = m.device /\ f.store = m.store /\ f.trail = m.trail
    BY <1>1, FailSound DEF Errors
  <2> HIDE DEF f
  <2>3. Running(f, S)
    BY <2>2 DEF Running, Writable
  <2> QED
    BY <2>1, <2>3, FinishSettles
<1>3. CASE meta.total \in {0, meta.downloaded}
  <2>1. MarkComplete(m) = SaveMetadata(w)
    BY <1>3 DEF MarkComplete, WithMeta, Completed
  <2>2. MetaOK(done)
    <3>1. /\ done \in Metadata /\ done.sum = meta.sum /\ done.validator = meta.validator
          /\ done.stated = meta.stated
      BY <1>1 DEF Metadata, Completed
    <3> HIDE DEF done
    <3> QED
      BY <1>3, <3>1 DEF MetaOK, IsTrue, Vouched
  <2>3. /\ Sound(w) /\ w.device = m.device /\ w.trail = m.trail
        /\ w.store.metadata = done /\ w.store.open = m.store.open
        /\ w.store.file = m.store.file
    BY <1>1, <2>2, MetaSound
  <2>4. /\ done.generation = meta.generation /\ done.kind = meta.kind /\ done.name = meta.name
        /\ done.downloaded = meta.downloaded /\ done.sum = meta.sum
    BY <1>1 DEF Completed, Metadata
  <2> HIDE DEF done, w, meta
  <2>5. Writable(w, S)
    <3>1. /\ Present(w.device, w.store) /\ Newest(w.device, w.store)
      BY <2>3, <2>4 DEF Running, Writable, Present, Newest, Last, Former, meta
    <3>2. Backed(w.device, w.store.metadata)
      BY <2>3, <2>4 DEF Running, Writable, Backed, DataOf, meta
    <3>3. FilesKept(w.device, w.store)
      BY <2>3, <2>4 DEF Running, Writable, FilesKept, meta
    <3>4. FileOf(w.store.metadata) \in S
      BY <2>3 DEF done, meta
    <3> QED
      BY <2>3, <3>1, <3>2, <3>3, <3>4 DEF Running, Writable
  <2>6. Running(SaveMetadata(w), S)
    BY <2>5, SaveRuns
  <2> QED
    BY <2>1, <2>6, FinishSettles
<1> QED
  BY <1>2, <1>3

LEMMA FinalizeCalmly ==
    ASSUME Consistent, Calmly, Finalize
    PROVE  /\ Calmly'
           /\ \/ Unchanged
              \/ Shown(device') = FileOf(store.metadata)
              \/ Shown(device') = FileOf(Completed(store.metadata))
<1> DEFINE S == {Shown(device), FileOf(store.metadata), FileOf(Completed(store.metadata))}
<1>1. Running(Now, S) /\ Now.error = "Ok" /\ Now.store = store
  BY NowRuns DEF Finalize, Receiving
<1>2. FileOf(Completed(store.metadata)) \in S
  OBVIOUS
<1> HIDE DEF S
<1>3. Truthful =>
          /\ store.metadata.validator \in Versions
          /\ IsBeginning(store.metadata.sum, store.metadata.validator)
          /\ store.metadata.stated
             /\ store.metadata.total \in {0, store.metadata.downloaded}
                => store.metadata.sum = Version(store.metadata.validator)
  BY EndIsWhole
<1>4. Settled(JobFinish(MarkComplete(Now)), S)
  BY <1>1, <1>2, <1>3, MarkSettles
<1>5. Calmly' /\ Shown(device') \in S
  BY <1>4, EndsCalmly DEF Finalize, Settled, Ended, Way
<1> QED
  BY <1>5 DEF S, Unchanged

LEMMA ResetCalmly ==
    ASSUME Consistent, Calmly, Reset
    PROVE  Calmly' /\ Unchanged
<1>1. device \in Device /\ Tells(device, {Shown(device)})
  BY DEF Consistent, TypeOK, Calmly, Tells
<1>2. Calmly' /\ Shown(device') \in {Shown(device)}
  BY <1>1, CutOffCalmly DEF Reset
<1> QED
  BY <1>2 DEF Unchanged

LEMMA MoveCardCalmly ==
    ASSUME Consistent, Calmly, MoveCard
    PROVE  Calmly' /\ Unchanged
<1> DEFINE e == [device EXCEPT !.card = ~@, !.openFiles = {}]
<1>1. /\ device \in Device /\ Tells(device, {Shown(device)})
      /\ device' = e /\ job' = job /\ job.stage = "idle"
  BY DEF Consistent, TypeOK, Calmly, Tells, MoveCard, Idle
<1>2. /\ e.slots = device.slots /\ e.exists = device.exists /\ e.data = device.data
      /\ e.files = device.files /\ e.openFiles = {}
  BY <1>1 DEF Device
<1> HIDE DEF e
<1>3. Tells(e, {Shown(device)}) /\ Rest(e)
  <2>1. Tells(e, {Shown(device)})
    BY <1>1, <1>2, SameTells
  <2> QED
    BY <1>2, <2>1 DEF Rest
<1>4. Whole(device') /\ Rest(device') /\ Shown(device') = Shown(device)
  BY <1>1, <1>3, Zenon DEF Tells
<1> QED
  BY <1>1, <1>4 DEF Calmly, Unchanged, Receiving

LEMMA InitCalmly == Init => Calmly /\ Shown(device) = [present |-> FALSE, content |-> <<>>, complete |-> FALSE]
<1> SUFFICES ASSUME Init PROVE Calmly /\ Shown(device) = [present |-> FALSE, content |-> <<>>, complete |-> FALSE]
  OBVIOUS
<1>1. device.slots = <<>> /\ device.exists = FALSE /\ device.openFiles = {}
  BY DEF Init, EmptyDevice
<1>2. ~Readable(device)
  BY <1>1 DEF Readable, ReadMetadataSlot
<1> QED
  BY <1>1, <1>2 DEF Calmly, Whole, Rest, Init, Idle, Shown, Receiving

-----------------------------------------------------------------------------
(* Appending.                                                               *)

LEMMA TakeOfTake ==
    ASSUME NEW S, NEW s \in Seq(S), NEW t \in Seq(S), NEW n \in Nat,
           n <= Len(s), n <= Len(t), Take(s, n) = Take(t, n), NEW k \in 0..n
    PROVE  Take(s, k) = Take(t, k)
<1>1. n \in 0..Len(s) /\ n \in 0..Len(t) /\ k \in 0..Len(s) /\ k \in 0..Len(t)
  BY LenProperties
<1>2. /\ \A i \in 1..n : Take(s, n)[i] = s[i]
      /\ \A i \in 1..n : Take(t, n)[i] = t[i]
      /\ Take(s, k) \in Seq(S) /\ Len(Take(s, k)) = k
      /\ \A i \in 1..k : Take(s, k)[i] = s[i]
      /\ Take(t, k) \in Seq(S) /\ Len(Take(t, k)) = k
      /\ \A i \in 1..k : Take(t, k)[i] = t[i]
  BY <1>1, TakeSeq
<1>3. ASSUME NEW i \in 1..k
      PROVE  Take(s, k)[i] = Take(t, k)[i]
  <2>1. i \in 1..n
    OBVIOUS
  <2> QED
    BY <1>2, <2>1
<1> QED
  BY <1>2, <1>3, SeqEqual

(* What is backed now was backed when less had been downloaded.             *)
LEMMA EarlierBacked ==
    ASSUME NEW e \in Device, NEW meta \in Metadata, Backed(e, meta),
           NEW c \in Metadata, c.kind = meta.kind, Agrees(c, meta),
           c.downloaded <= meta.downloaded, meta.downloaded = Len(meta.sum)
    PROVE  Backed(e, c)
<1> DEFINE y == DataOf(e, meta)
           n == meta.downloaded
           k == c.downloaded
<1>1. /\ y \in Seq(Units) /\ Len(y) \in Nat /\ n \in Nat /\ k \in Nat
      /\ meta.sum \in Seq(Units)
  BY DataType DEF Metadata
<1>2. n <= Len(y) /\ Take(y, n) = meta.sum
  BY DEF Backed
<1>3. DataOf(e, c) = y
  BY DEF DataOf, Agrees
<1> HIDE DEF y
<1>4. Take(meta.sum, n) = meta.sum /\ k \in 0..n
  <2>1. n \in 0..Len(y) /\ n = Len(meta.sum)
    BY <1>1, <1>2
  <2>2. Len(meta.sum) \in 0..Len(meta.sum)
    BY <1>1, <2>1
  <2>3. Take(y, n) = Take(Take(y, n), n)
    BY <1>1, <2>1, TakeAll
  <2> QED
    BY <1>1, <1>2, <2>3
<1>5. Take(y, k) = Take(meta.sum, k)
  <2>1. n <= Len(meta.sum) /\ Take(y, n) = Take(meta.sum, n)
    BY <1>1, <1>2, <1>4
  <2> QED
    BY <1>1, <1>2, <1>4, <2>1, TakeOfTake
<1> QED
  BY <1>1, <1>2, <1>3, <1>5 DEF Backed, Agrees

(* The records written after those that are counted.                        *)
LEMMA PutRecordsHolds ==
    ASSUME NEW d \in Device, NEW sum \in Seq(Units), NEW units \in Seq(Units),
           Len(sum) <= Len(d.data), Take(d.data, Len(sum)) = sum,
           NEW e, e = PutRecords(d, Len(sum), units)
    PROVE  /\ e \in Device
           /\ e.slots = d.slots /\ e.exists = d.exists /\ e.files = d.files
           /\ e.openFiles = d.openFiles /\ e.card = d.card
           /\ Len(sum) + Len(units) <= Len(e.data)
           /\ Take(e.data, Len(sum) + Len(units)) = sum \o units
<1> DEFINE at == Len(sum)
           end == at + Len(units)
           size == IF Len(d.data) < RoundedUp(end) THEN RoundedUp(end) ELSE Len(d.data)
           x(i) == CASE i \in (at + 1)..end -> units[i - at]
                   []   i \notin (at + 1)..end /\ i <= Len(d.data) -> d.data[i]
                   []   OTHER -> Blank
           data == [i \in 1..size |-> x(i)]
<1>1. /\ d.data \in Seq(Units) /\ Len(d.data) \in Nat /\ at \in Nat /\ Len(units) \in Nat
      /\ end \in Nat
  BY FilesType, LenProperties
<1>2. RoundedUp(end) \in Nat /\ RoundedUp(end) >= end
  BY <1>1, RoundedUpBound
<1>3. size \in Nat /\ size >= end
  BY <1>1, <1>2
<1>4. /\ \A i \in 1..at : x(i) = d.data[i]
      /\ \A i \in (at + 1)..end : x(i) = units[i - at]
  BY <1>1
<1>5. \A i \in 1..size : x(i) \in Units
  <2> TAKE i \in 1..size
  <2>1. Blank \in Units
    BY DEF Blank, Units
  <2>2. CASE i \in (at + 1)..end
    <3>1. i - at \in 1..Len(units)
      BY <1>1, <2>2
    <3>2. units[i - at] \in Units
      BY <3>1, ElementOfSeq
    <3> QED
      BY <2>2, <3>2
  <2>3. CASE i \notin (at + 1)..end /\ i <= Len(d.data)
    <3>1. i \in 1..Len(d.data)
      BY <1>1, <1>3, <2>3
    <3>2. d.data[i] \in Units
      BY <1>1, <3>1, ElementOfSeq
    <3> QED
      BY <2>3, <3>2
  <2>4. CASE i \notin (at + 1)..end /\ ~(i <= Len(d.data))
    BY <2>1, <2>4
  <2> QED
    BY <2>2, <2>3, <2>4
<1>6. e = [d EXCEPT !.data = data]
  BY DEF PutRecords
<1> HIDE DEF x, size
<1>7. data \in Seq(Units) /\ Len(data) = size /\ \A i \in 1..size : data[i] = x(i)
  BY <1>3, <1>5
<1> HIDE DEF data
<1>8. /\ e \in Device
      /\ e.slots = d.slots /\ e.exists = d.exists /\ e.files = d.files
      /\ e.openFiles = d.openFiles /\ e.card = d.card /\ e.data = data
  BY <1>6, <1>7 DEF Device
<1>9. end \in 0..Len(data)
  BY <1>1, <1>3, <1>7
<1>10. /\ Take(data, end) \in Seq(Units) /\ Len(Take(data, end)) = end
       /\ \A i \in 1..end : Take(data, end)[i] = data[i]
  BY <1>7, <1>9, TakeSeq
<1>11. /\ sum \o units \in Seq(Units) /\ Len(sum \o units) = end
       /\ \A i \in 1..end : (sum \o units)[i] = IF i <= at THEN sum[i] ELSE units[i - at]
  BY ConcatProperties
<1>12. \A i \in 1..at : sum[i] = d.data[i]
  <2>1. at \in 0..Len(d.data)
    BY <1>1
  <2> QED
    BY <1>1, <2>1, TakeSeq
<1>13. ASSUME NEW i \in 1..end
       PROVE  Take(data, end)[i] = (sum \o units)[i]
  <2>1. Take(data, end)[i] = x(i)
    BY <1>1, <1>3, <1>7, <1>10
  <2>2. CASE i <= at
    BY <1>1, <1>4, <1>11, <1>12, <2>1, <2>2
  <2>3. CASE ~(i <= at)
    <3>1. i \in (at + 1)..end
      BY <1>1, <2>3
    <3> QED
      BY <1>4, <1>11, <2>1, <2>3, <3>1
  <2> QED
    BY <2>2, <2>3
<1>14. Take(data, end) = sum \o units
  BY <1>10, <1>11, <1>13, SeqEqual
<1> QED
  BY <1>3, <1>7, <1>8, <1>14

(* What is written at the end of a file that is just as long.               *)
LEMMA PutFileHolds ==
    ASSUME NEW d \in Device, NEW path \in FileNames, d.files[path] # None,
           NEW units \in Seq(Units), NEW e, e = PutFile(d, path, units)
    PROVE  /\ e \in Device
           /\ e.slots = d.slots /\ e.exists = d.exists /\ e.data = d.data
           /\ e.openFiles = d.openFiles /\ e.card = d.card
           /\ Content(e, path) = d.files[path] \o units
<1> DEFINE content == d.files[path] \o units
           files == [d.files EXCEPT ![path] = content]
<1>1. d.files \in [FileNames -> Seq(Units) \cup {None}]
  BY FilesType
<1>2. content \in Seq(Units) /\ content # None
  <2>1. d.files[path] \in Seq(Units)
    BY FilesType
  <2>2. content \in Seq(Units)
    BY <2>1, ConcatProperties
  <2> QED
    BY <2>2, Constants
<1>3. e = [d EXCEPT !.files = files]
  BY <1>1 DEF PutFile, Device
<1> HIDE DEF content
<1>4. files \in [FileNames -> Seq(Units) \cup {None}] /\ files[path] = content
  BY <1>1, <1>2
<1> HIDE DEF files
<1>5. /\ e \in Device
      /\ e.slots = d.slots /\ e.exists = d.exists /\ e.data = d.data
      /\ e.openFiles = d.openFiles /\ e.card = d.card /\ e.files = files
  BY <1>1, <1>3, <1>4 DEF Device
<1> QED
  BY <1>2, <1>4, <1>5 DEF Content, content

LEMMA PutHolds ==
    ASSUME NEW m, Sound(m), Sized(m.device, m.store),
           Backed(m.device, m.store.metadata), Tight(m.device, m.store.metadata),
           FilesKept(m.device, m.store),
           NEW units \in Seq(Units), NEW n \in 0..Len(units),
           NEW e, e = Put(m, units, n)
    PROVE  LET meta == m.store.metadata
               size == meta.downloaded + n
               y == DataOf(e, meta)
           IN  /\ e \in Device
               /\ e.slots = m.device.slots /\ e.exists = m.device.exists
               /\ e.openFiles = m.device.openFiles /\ e.card = m.device.card
               /\ size <= Len(y) /\ Take(y, size) = meta.sum \o Take(units, n)
               /\ meta.kind = "vfs" => Len(y) = size
               /\ Backed(e, meta)
<1> DEFINE meta == m.store.metadata
           taken == Take(units, n)
           size == meta.downloaded + n
           y == DataOf(e, meta)
           same == /\ e.slots = m.device.slots /\ e.exists = m.device.exists
                   /\ e.openFiles = m.device.openFiles /\ e.card = m.device.card
<1>1. /\ m.device \in Device /\ meta.sum \in Seq(Units) /\ meta.downloaded = Len(meta.sum)
      /\ meta.name \in FileNames /\ meta.kind \in {"database", "vfs"}
      /\ taken \in Seq(Units) /\ Len(taken) = n /\ n \in Nat /\ Len(meta.sum) \in Nat
  BY SoundTypes, TakeSeq, LenProperties DEF Sized
<1>2. /\ meta.downloaded <= Len(DataOf(m.device, meta))
      /\ Take(DataOf(m.device, meta), meta.downloaded) = meta.sum
  BY DEF Backed
<1>3. meta.sum \o taken \in Seq(Units) /\ Len(meta.sum \o taken) = size
  <2>1. \A s, t \in Seq(Units) : s \o t \in Seq(Units) /\ Len(s \o t) = Len(s) + Len(t)
    BY ConcatProperties
  <2>2. meta.sum \o taken \in Seq(Units) /\ Len(meta.sum \o taken) = Len(meta.sum) + Len(taken)
    BY <1>1, <2>1, Zenon
  <2> HIDE DEF taken
  <2> QED
    BY <1>1, <2>2
<1>4. /\ e \in Device /\ same
      /\ size <= Len(y) /\ Take(y, size) = meta.sum \o taken
      /\ meta.kind = "vfs" => Len(y) = size
  <2>1. CASE meta.kind = "vfs"
    <3> DEFINE path == m.store.file
               content == m.device.files[path]
    <3>1. /\ path = meta.name /\ path \in FileNames /\ content # None
          /\ DataOf(m.device, meta) = content
      BY <1>1, <2>1 DEF Sized, Sound, FileHeld, FilesKept, DataOf, Content
    <3>2. content \in Seq(Units) /\ Len(content) = meta.downloaded
      BY <1>1, <2>1, <3>1, FilesType DEF Tight, DataOf
    <3>3. content = meta.sum
      <4>1. Take(content, Len(content)) = content
        BY <3>2, SubSeqFull DEF Take
      <4> QED
        BY <1>2, <3>1, <3>2, <4>1
    <3>4. e = PutFile(m.device, path, taken)
      BY <2>1 DEF Put
    <3>5. /\ e \in Device /\ same /\ Content(e, path) = meta.sum \o taken
      <4> DEFINE d == m.device
      <4>1. /\ d \in Device /\ path \in FileNames /\ d.files[path] # None
            /\ taken \in Seq(Units) /\ e = PutFile(d, path, taken)
        BY <1>1, <3>1, <3>4
      <4> HIDE DEF d, path, taken
      <4>2. /\ e \in Device
            /\ e.slots = d.slots /\ e.exists = d.exists /\ e.data = d.data
            /\ e.openFiles = d.openFiles /\ e.card = d.card
            /\ Content(e, path) = d.files[path] \o taken
        BY <4>1, PutFileHolds
      <4> QED
        BY <3>3, <4>2 DEF d
    <3>6. y = meta.sum \o taken
      BY <2>1, <3>1, <3>5 DEF DataOf
    <3>7. Take(meta.sum \o taken, Len(meta.sum \o taken)) = meta.sum \o taken
      BY <1>3, SubSeqFull DEF Take
    <3> HIDE DEF y, taken
    <3>8. size = Len(y) /\ Take(y, Len(y)) = y /\ size \in Nat
      <4>1. size \in Nat
        <5>1. meta.downloaded \in Nat /\ n \in Nat
          BY <1>1, Zenon
        <5> HIDE DEF meta
        <5> QED
          BY <5>1
      <4> QED
        BY <1>3, <3>6, <3>7, <4>1, Zenon
    <3> HIDE DEF size
    <3>9. size <= Len(y) /\ Take(y, size) = meta.sum \o taken
      BY <3>6, <3>8
    <3> QED
      BY <3>5, <3>8, <3>9
  <2>2. CASE meta.kind = "database"
    <3>1. e = PutRecords(m.device, Len(meta.sum), taken)
      BY <1>1, <2>2 DEF Put
    <3>2. DataOf(m.device, meta) = m.device.data /\ y = e.data
      BY <2>2 DEF DataOf
    <3>3. /\ e \in Device /\ same
          /\ Len(meta.sum) + Len(taken) <= Len(e.data)
          /\ Take(e.data, Len(meta.sum) + Len(taken)) = meta.sum \o taken
      <4> DEFINE d == m.device
                 sum == meta.sum
      <4>1. /\ d \in Device /\ sum \in Seq(Units) /\ taken \in Seq(Units)
            /\ Len(sum) <= Len(d.data) /\ Take(d.data, Len(sum)) = sum
            /\ e = PutRecords(d, Len(sum), taken)
        BY <1>1, <1>2, <3>1, <3>2
      <4> HIDE DEF d, sum, taken
      <4>2. /\ e \in Device
            /\ e.slots = d.slots /\ e.exists = d.exists
            /\ e.openFiles = d.openFiles /\ e.card = d.card
            /\ Len(sum) + Len(taken) <= Len(e.data)
            /\ Take(e.data, Len(sum) + Len(taken)) = sum \o taken
        BY SMTT(30), <4>1, PutRecordsHolds
      <4> QED
        BY <4>2 DEF d, sum
    <3> HIDE DEF taken, y
    <3> QED
      BY <1>1, <2>2, <3>2, <3>3
  <2> QED
    BY <1>1, <2>1, <2>2
<1>5. Take(y, meta.downloaded) = meta.sum /\ meta.downloaded <= Len(y)
  <2>1. y \in Seq(Units) /\ Len(y) \in Nat
    <3>1. meta \in Metadata
      BY SoundTypes
    <3> QED
      BY <1>4, <3>1, DataType
  <2> DEFINE z == meta.sum \o taken
  <2>2. Take(z, Len(meta.sum)) = meta.sum
    BY <1>1, TakeOfConcat
  <2>3. Take(z, size) = z
    BY <1>3, SubSeqFull DEF Take
  <2> HIDE DEF y, taken, same
  <2>4. /\ z \in Seq(Units) /\ size <= Len(z) /\ size <= Len(y) /\ Take(y, size) = Take(z, size)
        /\ size \in Nat /\ meta.downloaded \in 0..size
    <3>1. Len(z) = size /\ size \in Nat /\ meta.downloaded \in 0..size
      <4> HIDE DEF taken, meta
      <4> QED
        BY <1>1, <1>3
    <3> HIDE DEF size, z
    <3> QED
      BY <1>3, <1>4, <2>3, <3>1 DEF z
  <2> HIDE DEF z
  <2>5. Take(y, meta.downloaded) = Take(z, meta.downloaded)
    BY <2>1, <2>4, TakeOfTake
  <2> QED
    BY <1>1, <1>4, <2>1, <2>2, <2>5
<1>6. Backed(e, meta)
  BY <1>5 DEF Backed
<1> HIDE DEF y, taken
<1> QED
  BY <1>4, <1>6 DEF y, taken

LEMMA SavedIsKept ==
    ASSUME NEW m, NEW S, Writable(m, S), Tight(m.device, m.store.metadata),
           NEW q, q = SaveMetadata(m)
    PROVE  Kept(q.device, q.store)
<1> DEFINE meta == q.store.metadata
           y == DataOf(q.device, meta)
<1>1. /\ Running(q, S)
      /\ Last(q.device, q.store) = meta
      /\ Alike(meta, m.store.metadata)
      /\ Beside(q.device, m.device)
  BY SaveRuns
<1>2. /\ q.device \in Device /\ meta \in Metadata /\ meta.downloaded \in Nat
      /\ Backed(q.device, meta)
  BY <1>1, SoundTypes DEF Running, Writable
<1>3. y \in Seq(Units) /\ Len(y) \in Nat
  BY <1>2, DataType
<1>4. meta.downloaded \in 0..Len(y) /\ Take(y, meta.downloaded) = meta.sum
  BY <1>2, <1>3 DEF Backed
<1>5. Take(meta.sum, meta.downloaded) = meta.sum
  <2> HIDE DEF y, meta
  <2>1. Take(Take(y, meta.downloaded), meta.downloaded) = Take(y, meta.downloaded)
    BY <1>3, <1>4, TakeAll
  <2> QED
    BY <1>4, <2>1
<1>6. Agrees(Last(q.device, q.store), meta)
  BY <1>1, <1>5 DEF Agrees
<1>7. Tight(q.device, meta)
  BY <1>1 DEF Tight, Alike, Beside, Content
<1> QED
  BY <1>1, <1>6, <1>7 DEF Kept, Running, Writable

(* On every device that an append writes, what the store held is backed, and *)
(* so is its last commit.                                                   *)
LEMMA PutTells ==
    ASSUME NEW m, NEW S, Running(m, S), Ready(m.device, m.store),
           Kept(m.device, m.store),
           NEW units \in Seq(Units), NEW n \in 0..Len(units), NEW e, e = Put(m, units, n)
    PROVE  /\ Tells(e, S) /\ Present(e, m.store) /\ Newest(e, m.store)
           /\ Last(e, m.store) = Last(m.device, m.store)
           /\ Backed(e, m.store.metadata) /\ FilesKept(e, m.store)
           /\ e.exists
<1> DEFINE meta == m.store.metadata
           c == Last(m.device, m.store)
<1>1. /\ Sound(m) /\ Sized(m.device, m.store) /\ Committed(m.device, m.store)
      /\ Backed(m.device, meta) /\ Tight(m.device, meta) /\ FilesKept(m.device, m.store)
      /\ Tells(m.device, S) /\ m.device.exists
      /\ Present(m.device, m.store) /\ Newest(m.device, m.store)
      /\ Agrees(c, meta) /\ c.kind = meta.kind
  BY DEF Running, Writable, Ready, Kept
<1>2. /\ e \in Device
      /\ e.slots = m.device.slots /\ e.exists = m.device.exists
      /\ e.openFiles = m.device.openFiles /\ e.card = m.device.card
      /\ Backed(e, meta)
  BY <1>1, PutHolds
<1>3. /\ DeviceOK(m.device) /\ meta.generation \in Nat /\ meta \in Metadata
      /\ m.store \in LooseStore
  BY <1>1, SoundTypes
<1>4. Readable(m.device) /\ Chosen(m.device) = c /\ c \in Metadata
  BY <1>1, <1>3, LastIsChosen, ChosenFacts
<1>5. c.downloaded <= meta.downloaded /\ meta.downloaded = Len(meta.sum)
  <2>1. c.downloaded \in Nat /\ m.store.uncommitted \in Nat
    BY <1>3, <1>4 DEF Metadata, LooseStore
  <2>2. c.downloaded + m.store.uncommitted = meta.downloaded
    BY <1>1 DEF Committed
  <2> HIDE DEF c, meta
  <2>3. c.downloaded <= meta.downloaded
    BY <2>1, <2>2
  <2> QED
    BY <1>1, <2>3 DEF Sized, meta
<1>6. Backed(e, c)
  BY <1>1, <1>2, <1>3, <1>4, <1>5, EarlierBacked
<1>7. Tells(e, S)
  BY <1>1, <1>2, <1>4, <1>6, OutsideTells
<1>8. /\ Present(e, m.store) /\ Newest(e, m.store) /\ Last(e, m.store) = c
      /\ FilesKept(e, m.store)
  BY <1>1, <1>2 DEF Present, Newest, Last, Former, FilesKept
<1> QED
  BY <1>1, <1>2, <1>7, <1>8

(* Appending all of it, or as much as the card takes.                       *)
LEMMA AppendRuns ==
    ASSUME "NoRecord" \notin Faults,
           NEW m, NEW S, Running(m, S), m.error = "Ok", Ready(m.device, m.store),
           Kept(m.device, m.store), m.store.metadata.name # NoName,
           NEW units \in Seq(Units), Len(units) # 0, MetaOK(Grown(m.store.metadata, units)),
           FileOf(Grown(m.store.metadata, units)) \in S,
           NEW written \in Storable(m, Len(units)),
           NEW q, q = AppendData(m, units, written)
    PROVE  /\ Running(q, S)
           /\ q.error = "Ok" => Kept(q.device, q.store) /\ q.store.metadata.name # NoName
<1> DEFINE meta == m.store.metadata
           d == Put(m, units, written)
           all == {Put(m, units, n) : n \in 0..written}
           grown == Grown(meta, units)
           sum == m.store.uncommitted + Len(units)
           s == [m.store EXCEPT !.metadata = grown, !.uncommitted = sum]
<1>1. /\ Sound(m) /\ m.store \in LooseStore /\ meta \in Metadata
      /\ Sized(m.device, m.store) /\ Committed(m.device, m.store)
      /\ Backed(m.device, meta) /\ Tight(m.device, meta) /\ FilesKept(m.device, m.store)
      /\ meta.downloaded \in Nat /\ meta.sum \in Seq(Units)
      /\ m.store.uncommitted \in Nat
      /\ Agrees(Last(m.device, m.store), meta) /\ Last(m.device, m.store).kind = meta.kind
      /\ \A e \in m.trail : Tells(e, S)
      /\ m.store.open /\ FileOf(meta) \in S
  BY SoundTypes DEF Running, Writable, Ready, Kept, LooseStore
<1>2. Len(units) \in Nat /\ written \in 0..Len(units) /\ written \in Nat
  <2>1. Len(units) \in Nat
    BY LenProperties
  <2> QED
    BY <1>1, <2>1, StorableRange
<1>3. PICK put : AppendedBy(m, units, written, put, q)
  BY <1>1, <1>2, AppendPuts
<1> DEFINE counted == [put EXCEPT !.store = s]
<1>4. /\ Sound(put) /\ put.device = d /\ put.store = m.store /\ put.error = "Ok"
      /\ put.trail = m.trail \cup all
      /\ written < Len(units) /\ meta.kind = "vfs" => q = Fail(put, "FileEOF")
      /\ ~(written < Len(units)) =>
             q = IF CommitDue(counted.store.uncommitted) THEN SaveMetadata(counted) ELSE counted
  BY <1>3, Zenon DEF AppendedBy
<1>5. /\ Tells(d, S) /\ Present(d, m.store) /\ Newest(d, m.store)
      /\ Last(d, m.store) = Last(m.device, m.store)
      /\ Backed(d, meta) /\ FilesKept(d, m.store) /\ d.exists
  BY <1>2, PutTells
<1>6. ASSUME NEW e \in put.trail
      PROVE  Tells(e, S)
  <2>1. CASE e \in m.trail
    BY <1>1, <2>1
  <2>2. CASE e \in all
    <3>1. PICK n \in 0..written : e = Put(m, units, n)
      BY <2>2
    <3>2. n \in 0..Len(units)
      BY <1>2, <3>1
    <3> QED
      BY <3>1, <3>2, PutTells
  <2> QED
    BY <1>4, <1>6, <2>1, <2>2
<1>7. Running(put, S)
  BY <1>1, <1>4, <1>5, <1>6 DEF Running, Writable, Agrees
<1>8. CASE written < Len(units)
  <2>1. meta.kind = "vfs"
    BY <1>8 DEF Storable
  <2>2. q = Fail(put, "FileEOF")
    BY <1>4, <1>8, <2>1
  <2>3. /\ Sound(q) /\ q.device = put.device /\ q.store = put.store /\ q.error = "FileEOF"
        /\ q.trail = put.trail
    BY <1>4, <2>2, FailSound DEF Errors
  <2>4. Running(q, S)
    BY <1>7, <2>3 DEF Running, Writable
  <2> QED
    BY <2>3, <2>4
<1>9. CASE ~(written < Len(units))
  <2>1. written = Len(units)
    BY <1>2, <1>9
  <2>2. /\ grown \in Metadata /\ MetaOK(grown) /\ FileOf(grown) \in S
        /\ grown.downloaded = meta.downloaded + Len(units)
        /\ grown.sum = meta.sum \o units
        /\ grown.generation = meta.generation /\ grown.kind = meta.kind
        /\ grown.name = meta.name /\ grown.validator = meta.validator
        /\ grown.complete = meta.complete /\ grown.stated = meta.stated
    BY <1>1 DEF Grown, MetaOK, Metadata
  <2>3. sum \in Nat
    BY <1>1, <1>2
  <2> HIDE DEF grown, sum
  <2>4. /\ s \in LooseStore /\ s.metadata = grown /\ s.uncommitted = sum
        /\ s.file = m.store.file /\ s.open = m.store.open
    BY <1>1, <2>2, <2>3 DEF LooseStore
  <2>5. FileHeld(put.device, s)
    BY <1>4, <2>4 DEF FileHeld, Sound
  <2> HIDE DEF s
  <2>6. /\ Sound(counted) /\ counted.device = d /\ counted.store = s
        /\ counted.error = "Ok" /\ counted.trail = put.trail
    <3>1. Sound(put)
      BY <1>4
    <3>2. s \in LooseStore /\ MetaOK(s.metadata) /\ counted = [put EXCEPT !.store = s]
      BY <2>2, <2>4
    <3> HIDE DEF counted
    <3>3. /\ Sound(counted) /\ counted.device = put.device /\ counted.store = s
          /\ counted.error = put.error /\ counted.trail = put.trail
      BY <2>5, <3>1, <3>2, StoreSound
    <3> QED
      BY <1>4, <3>3
  <2>7. q = IF CommitDue(counted.store.uncommitted) THEN SaveMetadata(counted) ELSE counted
    BY <1>4, <1>9
  <2> HIDE DEF counted
  <2>8. Backed(d, grown) /\ Tight(d, grown)
    <3> DEFINE size == meta.downloaded + Len(units)
               y == DataOf(d, meta)
    <3>1. Take(units, Len(units)) = units
      BY SubSeqFull DEF Take
    <3>2. /\ size <= Len(y) /\ Take(y, size) = meta.sum \o Take(units, Len(units))
          /\ meta.kind = "vfs" => Len(y) = size
      <4> DEFINE n == Len(units)
      <4>1. n \in 0..Len(units) /\ d = Put(m, units, n)
        BY <1>2, <2>1
      <4> HIDE DEF n, d
      <4>2. LET z == DataOf(d, m.store.metadata)
            IN  /\ m.store.metadata.downloaded + n <= Len(z)
                /\ Take(z, m.store.metadata.downloaded + n)
                      = m.store.metadata.sum \o Take(units, n)
                /\ m.store.metadata.kind = "vfs" => Len(z) = m.store.metadata.downloaded + n
        BY SMTT(30), <1>1, <4>1, PutHolds
      <4> QED
        BY <4>2 DEF n
    <3>3. DataOf(d, grown) = y
      BY <2>2 DEF DataOf
    <3>4. Backed(d, grown)
      BY <1>5, <2>2, <3>1, <3>2, <3>3 DEF Backed
    <3>5. Tight(d, grown)
      BY <2>2, <3>2 DEF Tight, DataOf
    <3> QED
      BY <3>4, <3>5
  <2>9. Last(d, s) = Last(m.device, m.store) /\ Present(d, s) /\ Newest(d, s)
    BY <1>5, <2>2, <2>4 DEF Present, Newest, Last, Former
  <2>10. FilesKept(d, s)
    BY <1>5, <2>2, <2>4 DEF FilesKept
  <2>11. Writable(counted, S)
    BY <1>1, <1>5, <1>6, <2>2, <2>4, <2>6, <2>8, <2>9, <2>10 DEF Writable
  <2>12. CASE CommitDue(counted.store.uncommitted)
    <3>1. q = SaveMetadata(counted)
      BY <2>7, <2>12
    <3>2. Tight(counted.device, counted.store.metadata)
      BY <2>4, <2>6, <2>8
    <3>3. Running(q, S) /\ Alike(q.store.metadata, counted.store.metadata)
      BY <2>11, <3>1, SaveRuns
    <3>4. Kept(q.device, q.store)
      BY <2>11, <3>1, <3>2, SavedIsKept
    <3> QED
      BY <2>2, <2>4, <2>6, <3>3, <3>4 DEF Alike
  <2>13. CASE ~CommitDue(counted.store.uncommitted)
    <3>1. q = counted
      BY <2>7, <2>13
    <3>2. Running(counted, S)
      BY <1>1, <2>2, <2>4, <2>6, <2>9, <2>11 DEF Running, Agrees
    <3>3. Agrees(Last(d, s), grown)
      <4> DEFINE c == Last(m.device, m.store)
      <4>1. c.downloaded \in 0..Len(meta.sum)
        <5>1. c \in Metadata
          <6>1. DeviceOK(m.device) /\ meta.generation \in Nat
            BY <1>1, SoundTypes
          <6>2. Present(m.device, m.store) /\ Newest(m.device, m.store)
            BY DEF Kept, Running, Writable
          <6> QED
            BY <6>1, <6>2, LastIsChosen, ChosenFacts
        <5>2. c.downloaded \in Nat /\ c.downloaded + m.store.uncommitted = meta.downloaded
          BY <1>1, <5>1 DEF Metadata, Committed
        <5>3. meta.downloaded = Len(meta.sum)
          BY <1>1 DEF Sized
        <5> HIDE DEF c, meta
        <5> QED
          BY <1>1, <5>2, <5>3
      <4>2. Take(meta.sum \o units, c.downloaded) = Take(meta.sum, c.downloaded)
        <5> DEFINE x == meta.sum
                   z == x \o units
        <5>1. x \in Seq(Units) /\ Len(x) \in Nat
          BY <1>1, LenProperties
        <5> HIDE DEF x
        <5>2. z \in Seq(Units) /\ Len(z) = Len(x) + Len(units)
          BY <5>1, ConcatProperties
        <5>3. Take(z, Len(x)) = x /\ Take(x, Len(x)) = x
          BY <5>1, TakeOfConcat, SubSeqFull DEF Take
        <5> HIDE DEF z, c
        <5>4. Len(x) <= Len(x) /\ Len(x) <= Len(z)
          BY <1>2, <5>1, <5>2
        <5>5. c.downloaded \in 0..Len(x)
          BY <4>1 DEF x
        <5>6. Take(z, c.downloaded) = Take(x, c.downloaded)
          BY <5>1, <5>2, <5>3, <5>4, <5>5, TakeOfTake
        <5> QED
          BY <5>6 DEF z, x
      <4> QED
        BY <1>1, <2>2, <2>9, <4>2 DEF Agrees
    <3>4. Kept(q.device, q.store)
      BY <1>5, <2>4, <2>6, <2>8, <2>9, <2>10, <3>1, <3>3 DEF Kept
    <3> QED
      BY <2>2, <2>4, <2>6, <3>1, <3>2, <3>4
  <2> QED
    BY <2>12, <2>13
<1> QED
  BY <1>8, <1>9

(* Some of what is left of the response is appended.                        *)
LEMMA ReceiveCalmly ==
    ASSUME "NoRecord" \notin Faults, Consistent, Calmly, Receive
    PROVE  /\ Calmly'
           /\ \/ Unchanged
              \/ Shown(device') = FileOf(store.metadata)
              \/ \E n \in 1..Len(job.left) :
                    Shown(device') = FileOf(Grown(store.metadata, Take(job.left, n)))
<1>1. job.stage \in Receiving /\ job.stage # "idle"
  BY DEF Receive, Receiving
<1>2. PICK n \in 1..MaxAppend :
          /\ n <= Len(job.left)
          /\ \E written \in Storable(Now, n) :
                LET m == AppendData(Now, Take(job.left, n), written)
                IN  IF Succeeded(m)
                    THEN Runs("Append", m, [job EXCEPT !.left = Drop(@, n)])
                    ELSE Runs("Append", JobFinish(m), Idle)
  BY DEF Receive
<1>3. PICK written \in Storable(Now, n) :
          LET m == AppendData(Now, Take(job.left, n), written)
          IN  IF Succeeded(m)
              THEN Runs("Append", m, [job EXCEPT !.left = Drop(@, n)])
              ELSE Runs("Append", JobFinish(m), Idle)
  BY <1>2
<1> DEFINE units == Take(job.left, n)
           rest == Drop(job.left, n)
           next == [job EXCEPT !.left = rest]
           now == Now
           m == AppendData(now, units, written)
           meta == store.metadata
           S == {Shown(device), FileOf(meta), FileOf(Grown(meta, units))}
<1>4. /\ Running(now, S) /\ Kept(device, store) /\ now.error = "Ok"
      /\ now.device = device /\ now.store = store /\ Ready(device, store)
  <2>1. Shown(device) \in S /\ FileOf(store.metadata) \in S
    OBVIOUS
  <2>2. Ready(device, store) /\ job.stage # "idle"
    BY <1>1 DEF Consistent
  <2> HIDE DEF S
  <2> QED
    BY <2>1, <2>2, NowRuns
<1>5. /\ job \in [stage: Stages, left: Seq(Units)] /\ job.left \in Seq(Units)
      /\ meta.sum \in Seq(Units) /\ MetaOK(meta) /\ meta.name # NoName
      /\ Truthful => /\ meta.validator \in Versions
                     /\ meta.sum \o job.left = Version(meta.validator)
  BY <1>1 DEF Consistent, TypeOK, MetaOK, Metadata, Calmly
<1>6. Len(job.left) \in Nat /\ MaxAppend \in Nat
  BY <1>5, LenProperties, StoreAssumption
<1>7. n \in 0..Len(job.left) /\ n # 0 /\ n \in 1..Len(job.left)
  BY <1>2, <1>6
<1>8. /\ units \in Seq(Units) /\ Len(units) = n
      /\ rest \in Seq(Units) /\ units \o rest = job.left
  <2> DEFINE left == job.left
  <2>1. left \in Seq(Units) /\ n \in 0..Len(left) /\ n \in Nat
    BY <1>5, <1>6, <1>7
  <2> HIDE DEF left
  <2>2. /\ Take(left, n) \in Seq(Units) /\ Len(Take(left, n)) = n
        /\ Drop(left, n) \in Seq(Units)
    BY <2>1, TakeSeq, DropSeq
  <2>3. Take(left, n) \o Drop(left, n) = left
    BY <2>1, TakeDrop
  <2> QED
    BY <2>2, <2>3 DEF left
<1>9. IF Succeeded(m) THEN Runs("Append", m, next)
                      ELSE Runs("Append", JobFinish(m), Idle)
  BY <1>3
<1>10. next.stage \in Stages \ {"idle"} /\ next.stage # "request"
  <2> HIDE DEF rest
  <2> QED
    BY <1>1, <1>5 DEF Receiving
<1>11. FileOf(Grown(meta, units)) \in S
  OBVIOUS
<1> HIDE DEF m, units, rest, next, S, now
<1>12. (meta.sum \o units) \o rest = meta.sum \o job.left
  <2>1. \A s, t, u \in Seq(Units) : (s \o t) \o u = s \o (t \o u)
    BY SMTT(30), ConcatAssociative
  <2>2. (meta.sum \o units) \o rest = meta.sum \o (units \o rest)
    BY <1>5, <1>8, <2>1, Zenon
  <2> QED
    BY <1>8, <2>2
<1>13. MetaOK(Grown(meta, units))
  <2>1. Truthful => /\ meta.validator \in Versions
                    /\ (meta.sum \o units) \o rest = Version(meta.validator)
    BY <1>5, <1>12
  <2>2. MetaOK(meta) /\ units \in Seq(Units) /\ Len(units) # 0 /\ rest \in Seq(Units)
    BY <1>5, <1>7, <1>8
  <2> HIDE DEF meta
  <2> QED
    BY <2>1, <2>2, AppendedTrue
<1>14. /\ Running(m, S)
       /\ m.error = "Ok" => Kept(m.device, m.store) /\ m.store.metadata.name # NoName
  <2>1. /\ Ready(now.device, now.store) /\ Kept(now.device, now.store)
        /\ now.store.metadata.name # NoName
        /\ MetaOK(Grown(now.store.metadata, units))
        /\ FileOf(Grown(now.store.metadata, units)) \in S
        /\ written \in Storable(now, Len(units))
        /\ units \in Seq(Units) /\ Len(units) # 0
    BY <1>3, <1>4, <1>5, <1>7, <1>8, <1>11, <1>13 DEF now
  <2>2. m = AppendData(now, units, written)
    BY DEF m
  <2> QED
    BY <1>4, <2>1, <2>2, AppendRuns
<1>15. Calmly' /\ Shown(device') \in S
  <2>1. CASE ~Succeeded(m)
    <3>1. Settled(JobFinish(m), S)
      BY <1>14, FinishSettles
    <3>2. Runs("Append", JobFinish(m), Idle)
      BY <1>9, <2>1
    <3> QED
      BY <3>1, <3>2, EndsCalmly DEF Settled, Ended, Way
  <2>2. CASE Succeeded(m)
    <3>1. Runs("Append", m, next) /\ m.error = "Ok"
      BY <1>9, <2>2 DEF Succeeded
    <3>2. Way("Append", m, S) /\ Tells(m.device, S) /\ Sound(m)
      BY <1>14 DEF Running, Writable, Way
    <3> QED
      BY <1>10, <1>14, <3>1, <3>2, GoesOnCalmly
  <2> QED
    BY <2>1, <2>2
<1>16. \/ Unchanged
       \/ Shown(device') = FileOf(meta)
       \/ Shown(device') = FileOf(Grown(meta, units))
  BY <1>15 DEF S, Unchanged
<1> QED
  BY <1>7, <1>15, <1>16 DEF units

-----------------------------------------------------------------------------
(* Deleting.                                                                *)

LEMMA ClearsDatabase ==
    ASSUME NEW m, Ended(m), NEW q, q = DeleteDatabase(m)
    PROVE  /\ Ended(q)
           /\ m.device.open => q.device = m.device /\ q.error = "DatabaseOpen"
           /\ ~m.device.open =>
                 /\ q.error = "Ok"
                 /\ q.device.exists = FALSE /\ q.device.slots = <<>>
                 /\ q.device.files = m.device.files
                 /\ q.device.openFiles = m.device.openFiles
<1> DEFINE d == [m.device EXCEPT !.exists = FALSE, !.slots = <<>>, !.data = <<>>]
           deleted == Write(m, d)
<1>1. Sound(m) /\ m.device \in Device /\ m \in OpValue
  BY SoundTypes DEF Ended, Sound
<1>2. q = IF m.device.open THEN Fail(m, "DatabaseOpen") ELSE [deleted EXCEPT !.error = "Ok"]
  BY DEF DeleteDatabase
<1>3. <<>> \in Seq(Units) /\ <<>> \in Seq(Metadata \cup {None})
  OBVIOUS
<1>4. /\ d \in Device /\ d.exists = FALSE /\ d.slots = <<>>
      /\ d.files = m.device.files /\ d.openFiles = m.device.openFiles
  BY <1>1, <1>3 DEF Device
<1> HIDE DEF d
<1>5. deleted \in OpValue /\ deleted.device = d
  BY <1>1, <1>4, WriteFields
<1> HIDE DEF deleted
<1>6. Ended(q)
  BY DeleteDatabaseEnds
<1>7. CASE m.device.open
  BY <1>1, <1>2, <1>6, <1>7 DEF Fail, OpValue
<1>8. CASE ~m.device.open
  <2>1. q.device = d /\ q.error = "Ok"
    BY <1>2, <1>5, <1>8 DEF OpValue
  <2> QED
    BY <1>4, <1>6, <1>8, <2>1
<1> QED
  BY <1>7, <1>8

(* What deleting the entry of a device does.                                *)
DeletesFrom(d, q) ==
    /\ Ended(q)
    /\ d.open => q.device = d /\ q.error = "DatabaseOpen"
    /\ ~d.open =>
          /\ q.error = "Ok"
          /\ q.device.exists = FALSE /\ q.device.slots = <<>>
          /\ q.device.openFiles \subseteq {NoName}
          /\ d.card /\ Readable(d) /\ Chosen(d).kind = "vfs" =>
                q.device.files[Chosen(d).name] = None

(* The data is removed, the store closed and the database deleted.          *)
LEMMA ClearedDeletes ==
    ASSUME NEW d, ~d.open, NEW m, Sound(m), m.store.open, m.store.uncommitted = 0,
           m.device.openFiles \ {m.store.file} \subseteq {NoName},
           d.card /\ Readable(d) /\ Chosen(d).kind = "vfs" =>
               m.device.files[Chosen(d).name] = None,
           NEW q, q = DeleteDatabase(Close(m))
    PROVE  DeletesFrom(d, q)
<1> DEFINE c == Close(m)
<1>1. Flush(m) = m
  BY DEF Flush
<1>2. /\ Ended(c) /\ Beside(c.device, m.device) /\ ~c.device.open
      /\ c.device.openFiles = m.device.openFiles \ {m.store.file}
  BY <1>1, CloseFields
<1> HIDE DEF c
<1>3. /\ Ended(q) /\ q.error = "Ok"
      /\ q.device.exists = FALSE /\ q.device.slots = <<>>
      /\ q.device.files = c.device.files
      /\ q.device.openFiles = c.device.openFiles
  BY <1>2, ClearsDatabase DEF c
<1> QED
  BY <1>2, <1>3 DEF DeletesFrom, Beside

LEMMA UrlDeletes ==
    ASSUME NEW d, DeviceOK(d), Whole(d), Rest(d), Readable(d), NEW q, q = DeleteUrl(d)
    PROVE  DeletesFrom(d, q)
<1> DEFINE m == Open(d)
           cleared == IF Succeeded(m) THEN RemoveData(m) ELSE m
           c == Chosen(d)
<1>1. q = DeleteDatabase(Close(cleared))
  BY DEF DeleteUrl
<1>2. CASE d.open
  <2>1. Sound(m) /\ m.device = d /\ m.store = ClosedStore /\ m.error = "AlreadyOpen"
    BY <1>2, OpenRefused
  <2>2. cleared = m
    BY <2>1 DEF Succeeded
  <2> HIDE DEF m, cleared
  <2>3. Ended(Close(m)) /\ Close(m).device = d
    BY <2>1, CloseFields DEF ClosedStore
  <2>4. Ended(q) /\ q.device = d /\ q.error = "DatabaseOpen"
    BY <1>1, <1>2, <2>2, <2>3, ClearsDatabase
  <2> QED
    BY <1>2, <2>4 DEF DeletesFrom
<1>3. CASE ~d.open
  <2> DEFINE S == {Shown(d)}
  <2>1. Shown(d) \in S /\ m = Open(d)
    OBVIOUS
  <2> HIDE DEF S, m
  <2>2. /\ Sound(m)
        /\ m.error = "Ok" => Running(m, S)
        /\ m.error # "Ok" => /\ c.kind = "vfs" /\ ~d.card
                             /\ m.device = Created(d) /\ m.store.file = None
                             /\ m.store.uncommitted = 0 /\ m.store.open
    BY <1>3, <2>1, LoadTells
  <2>3. m.error = "Ok" => m.store.uncommitted = 0 /\ m.store.open
    BY <2>1, OpenSucceeds
  <2>4. CASE m.error # "Ok"
    <3>1. cleared = m
      BY <2>4 DEF Succeeded
    <3>2. m.device.openFiles \subseteq {NoName}
      BY <2>2, <2>4, CreatedOK DEF Rest
    <3> QED
      BY <1>1, <1>3, <2>2, <2>4, <3>1, <3>2, ClearedDeletes
  <2>5. CASE m.error = "Ok"
    <3>1. cleared = RemoveData(m)
      BY <2>5 DEF Succeeded
    <3> HIDE DEF cleared
    <3>2. /\ Sound(cleared)
          /\ cleared.store = [m.store EXCEPT !.file = None]
          /\ cleared.device = [m.device EXCEPT !.data = <<>>,
                                               !.openFiles = @ \ {m.store.file},
                                               !.files = cleared.device.files]
          /\ LET path == m.store.metadata.path
             IN  cleared.device.files =
                     IF /\ m.store.metadata.kind = "vfs" /\ path # None
                        /\ m.device.card /\ path \notin m.device.openFiles \ {m.store.file}
                     THEN [m.device.files EXCEPT ![path] = None]
                     ELSE m.device.files
      BY <2>2, <3>1, RemoveDataSound
    <3>3. /\ m.store \in LooseStore /\ m.device \in Device
          /\ FilesKept(m.device, m.store)
      BY <2>2, <2>5, SoundTypes DEF Running, Writable
    <3>4. /\ cleared.store.open /\ cleared.store.uncommitted = 0
          /\ cleared.store.file = None
          /\ cleared.device.openFiles = m.device.openFiles \ {m.store.file}
      BY <2>3, <2>5, <3>2, <3>3 DEF LooseStore, Device
    <3>5. ASSUME d.card, c.kind = "vfs"
          PROVE  cleared.device.files[c.name] = None
      <4>1. OpenedAs(d, m)
        BY <1>3, <2>1, WholeLoads, OpenLoaded
      <4>2. /\ m.store.file = c.name /\ m.store.metadata.path = c.name
            /\ m.device.openFiles = d.openFiles \cup {c.name}
            /\ m.device.card = d.card
            /\ m.store.metadata.kind = "vfs"
        <5>1. /\ m.store.file = c.name /\ m.store.metadata.path = c.name
              /\ m.device.openFiles = d.openFiles \cup {c.name}
          BY <2>5, <3>5, <4>1 DEF OpenedAs
        <5>2. Created(d).card = d.card /\ Created(d) \in Device
          BY CreatedOK DEF DeviceOK
        <5>3. m.device = [Created(d) EXCEPT !.files = m.device.files,
                                            !.openFiles = m.device.openFiles]
          BY <4>1 DEF OpenedAs
        <5>4. m.device.card = d.card
          BY <5>2, <5>3 DEF Device
        <5>5. Alike(m.store.metadata, c)
          BY <1>3, <2>1, <2>5, LoadTells
        <5> QED
          BY <3>5, <5>1, <5>4, <5>5 DEF Alike
      <4>3. c.name \notin d.openFiles /\ c.name \in FileNames /\ c.name # None
        <5>1. c \in Metadata
          BY ChosenFacts
        <5> QED
          BY <3>5, <5>1, Constants DEF Rest, Metadata
      <4>4. m.device.files \in [FileNames -> Seq(Units) \cup {None}]
        BY <3>3, FilesType
      <4>5. cleared.device.files = [m.device.files EXCEPT ![c.name] = None]
        BY <3>2, <3>5, <4>2, <4>3
      <4> HIDE DEF c
      <4> QED
        BY <4>3, <4>4, <4>5
    <3>6. cleared.device.openFiles \ {cleared.store.file} \subseteq {NoName}
      BY <3>3, <3>4 DEF FilesKept
    <3> QED
      BY <1>1, <1>3, <3>2, <3>4, <3>5, <3>6, ClearedDeletes
  <2> QED
    BY <2>4, <2>5
<1> QED
  BY <1>2, <1>3

LEMMA AllDeletes ==
    ASSUME NEW d, DeviceOK(d), Whole(d), Rest(d), NEW q, q = DeleteAll(d)
    PROVE  DeletesFrom(d, q)
<1> DEFINE m == Begin(d, ClosedStore)
           opened == [m EXCEPT !.device.open = TRUE, !.store.open = TRUE]
           loaded == LoadMetadata(opened)
           filed == IF loaded.store.metadata.kind = "vfs"
                    THEN TryOpenVfs(loaded, FALSE) ELSE loaded
           cleaned == IF Succeeded(loaded) THEN RemoveData(filed) ELSE loaded
           closed == Close(cleaned)
           last == IF d.open THEN m ELSE closed
           c == Chosen(d)
<1>1. q = DeleteDatabase(last)
  BY DEF DeleteAll
<1>2. CASE d.open
  <2>1. Sound(m) /\ m.device = d /\ m.store = ClosedStore
    BY ClosedFacts, BeginSound
  <2>2. last = m
    BY <1>2
  <2> HIDE DEF m, last
  <2>3. Ended(q) /\ q.device = d /\ q.error = "DatabaseOpen"
    BY <1>1, <1>2, <2>1, <2>2, ClearsDatabase DEF Ended
  <2> QED
    BY <1>2, <2>3 DEF DeletesFrom
<1>3. CASE ~d.open
  <2>1. /\ Sound(opened) /\ opened.error = "Ok" /\ opened.store = Fresh
        /\ opened.device = [d EXCEPT !.open = TRUE]
    BY DeletionOpens
  <2>2. q = DeleteDatabase(Close(cleaned))
    BY <1>1, <1>3
  <2> HIDE DEF opened, m
  <2>3. /\ opened.device.slots = d.slots /\ opened.device.data = d.data
        /\ opened.device.files = d.files /\ opened.device.openFiles = d.openFiles
        /\ opened.device.card = d.card /\ opened.device \in Device
        /\ d \in Device
    BY <2>1 DEF DeviceOK, Device
  <2>4. /\ Readable(opened.device) <=> Readable(d)
        /\ Chosen(opened.device) = c
        /\ Loads(opened.device) <=> Loads(d)
    BY <2>3 DEF Readable, Chosen, ReadMetadataSlot, Loads
  <2>5. Loads(d) <=> Readable(d)
    BY WholeLoads DEF Loads
  <2> HIDE DEF c
  <2>6. /\ Sound(loaded) /\ loaded.device = opened.device
        /\ loaded.error = IF Readable(d) THEN "Ok" ELSE "CorruptDatabase"
        /\ loaded.store = [Fresh EXCEPT !.metadata = IF Readable(d) THEN c
                                                     ELSE Fresh.metadata]
    BY <2>1, <2>4, <2>5, LoadSound
  <2> HIDE DEF loaded
  <2>7. /\ loaded.store.open /\ loaded.store.uncommitted = 0 /\ loaded.store.file = None
        /\ Readable(d) => loaded.store.metadata = c
    BY <2>6, FreshType DEF LooseStore
  <2>8. d.openFiles \subseteq {NoName}
    BY DEF Rest
  <2>9. CASE ~Readable(d)
    <3>1. cleaned = loaded
      BY <2>6, <2>9 DEF Succeeded
    <3> HIDE DEF cleaned
    <3>2. cleaned.device.openFiles \ {cleaned.store.file} \subseteq {NoName}
      BY <2>3, <2>6, <2>8, <3>1
    <3> QED
      BY <1>3, <2>2, <2>6, <2>7, <2>9, <3>1, <3>2, ClearedDeletes
  <2>10. CASE Readable(d)
    <3>1. cleaned = RemoveData(filed) /\ loaded.error = "Ok"
      BY <2>6, <2>10 DEF Succeeded
    <3>2. c \in Metadata /\ c.name \in FileNames /\ c.name # None /\ c.kind \in {"database", "vfs"}
      <4>1. c \in Metadata
        BY <2>10, ChosenFacts DEF c
      <4> QED
        BY <4>1, Constants DEF Metadata
    <3>3. /\ Sound(filed) /\ filed.device.card = d.card
          /\ filed.store.open /\ filed.store.uncommitted = 0
          /\ filed.device.openFiles \ {filed.store.file} \subseteq {NoName}
          /\ d.card /\ c.kind = "vfs" =>
                /\ filed.store.metadata.path = c.name
                /\ filed.store.metadata.kind = "vfs"
                /\ c.name \notin filed.device.openFiles \ {filed.store.file}
      <4>1. CASE c.kind # "vfs"
        <5>1. filed = loaded
          BY <2>7, <2>10, <4>1
        <5> QED
          BY <2>3, <2>6, <2>7, <2>8, <4>1, <5>1
      <4>2. CASE c.kind = "vfs"
        <5> DEFINE t == TryOpenVfs(loaded, FALSE)
        <5>1. filed = t
          BY <2>7, <2>10, <4>2
        <5>2. Tried(loaded, FALSE, t)
          BY <2>6, <3>1, TryOpenSound
        <5> HIDE DEF t, filed
        <5>3. /\ c.name \notin d.openFiles
              /\ c.downloaded <= Len(Content(loaded.device, c.name))
          <6>1. c.name \notin d.openFiles /\ c.downloaded <= Len(Content(d, c.name))
            BY <2>10, <4>2 DEF Rest, Whole, Backed, DataOf, c
          <6> QED
            BY <2>3, <2>6, <6>1 DEF Content
        <5>4. /\ Sound(t)
              /\ t.store = Repathed(loaded.store, t.store.metadata.path, t.store.file)
              /\ t.device = [loaded.device EXCEPT !.files = t.device.files,
                                                  !.openFiles = t.device.openFiles]
              /\ d.card => /\ t.store.file = c.name /\ t.store.metadata.path = c.name
                           /\ t.device.openFiles = d.openFiles \cup {c.name}
              /\ ~d.card => t.device = loaded.device /\ t.store.file = loaded.store.file
          BY <2>3, <2>6, <2>7, <2>10, <5>2, <5>3 DEF Tried
        <5>5. t.device.card = d.card
          BY ZenonT(40), <2>3, <2>6, <5>4 DEF Device
        <5>6. /\ t.store.open /\ t.store.uncommitted = 0 /\ t.store.metadata.kind = "vfs"
          <6> DEFINE p == t.store.metadata.path
                     f == t.store.file
          <6>1. t.store = Repathed(loaded.store, p, f) /\ loaded.store \in LooseStore
            BY <2>6, <5>4, SoundTypes
          <6> HIDE DEF p, f
          <6>2. t.store.metadata = [c EXCEPT !.path = p]
            BY <2>7, <2>10, <6>1, RepathedMeta
          <6>3. t.store.metadata.kind = "vfs"
            BY <3>2, <4>2, <6>2 DEF Metadata
          <6>4. t.store.open = loaded.store.open /\ t.store.uncommitted = loaded.store.uncommitted
            BY <6>1 DEF Repathed, LooseStore
          <6> QED
            BY <2>7, <6>3, <6>4
        <5> QED
          BY <2>3, <2>6, <2>7, <2>8, <5>1, <5>3, <5>4, <5>5, <5>6
      <4> QED
        BY <4>1, <4>2
    <3> HIDE DEF filed, cleaned
    <3>4. /\ Sound(cleaned)
          /\ cleaned.store = [filed.store EXCEPT !.file = None]
          /\ cleaned.device = [filed.device EXCEPT !.data = <<>>,
                                                   !.openFiles = @ \ {filed.store.file},
                                                   !.files = cleaned.device.files]
          /\ LET path == filed.store.metadata.path
             IN  cleaned.device.files =
                     IF /\ filed.store.metadata.kind = "vfs" /\ path # None
                        /\ filed.device.card
                        /\ path \notin filed.device.openFiles \ {filed.store.file}
                     THEN [filed.device.files EXCEPT ![path] = None]
                     ELSE filed.device.files
      BY <3>1, <3>3, RemoveDataSound
    <3>5. filed.store \in LooseStore /\ filed.device \in Device
          /\ filed.device.files \in [FileNames -> Seq(Units) \cup {None}]
      BY <3>3, SoundTypes, FilesType
    <3>6. /\ cleaned.store.open /\ cleaned.store.uncommitted = 0 /\ cleaned.store.file = None
          /\ cleaned.device.openFiles = filed.device.openFiles \ {filed.store.file}
      BY <3>3, <3>4, <3>5 DEF LooseStore, Device
    <3>7. d.card /\ c.kind = "vfs" => cleaned.device.files[c.name] = None
      <4> HAVE d.card /\ c.kind = "vfs"
      <4>1. cleaned.device.files = [filed.device.files EXCEPT ![c.name] = None]
        BY <3>2, <3>3, <3>4
      <4> QED
        BY <3>2, <3>5, <4>1
    <3>8. cleaned.device.openFiles \ {cleaned.store.file} \subseteq {NoName}
      BY <3>3, <3>6
    <3> QED
      BY <1>3, <2>2, <3>4, <3>6, <3>7, <3>8, ClearedDeletes DEF c
  <2> QED
    BY <2>9, <2>10
<1> QED
  BY <1>2, <1>3

Nothing == [present |-> FALSE, content |-> <<>>, complete |-> FALSE]

LEMMA DeleteCalmly ==
    ASSUME Calm, Consistent, Calmly, Delete
    PROVE  /\ Calmly'
           /\ Unchanged \/ Shown(device') = Nothing
           /\ reply'.error = "Ok" =>
                 /\ ~device'.exists
                 /\ device.card /\ Listed /\ Chosen(device).kind = "vfs" =>
                       device'.files[Chosen(device).name] = None
<1>1. DeviceOK(device) /\ Whole(device) /\ Rest(device)
  BY DEF Consistent, Calmly, Delete, Idle
<1>2. PICK op \in {"DeleteUrl", "Delete"}, q \in {DeleteUrl(device), DeleteAll(device)} :
          DeletesFrom(device, q) /\ Runs(op, q, Idle)
  <2>1. CASE Listed /\ Runs("DeleteUrl", DeleteUrl(device), Idle)
    <3>1. Readable(device)
      BY <1>1, <2>1, ListedLoads DEF Loads
    <3>2. DeletesFrom(device, DeleteUrl(device))
      BY <1>1, <3>1, UrlDeletes
    <3> QED
      BY <2>1, <3>2
  <2>2. CASE Runs("Delete", DeleteAll(device), Idle)
    <3>1. DeletesFrom(device, DeleteAll(device))
      BY <1>1, AllDeletes
    <3> QED
      BY <2>2, <3>1
  <2> QED
    BY <2>1, <2>2 DEF Delete
<1>3. op \notin ResetDuring
  BY DEF Calm
<1>4. device' = q.device /\ job' = Idle /\ reply' = [op |-> op, error |-> q.error]
  BY <1>2, <1>3 DEF Runs
<1>5. reply'.error = q.error
  BY <1>4
<1>6. CASE device.open
  <2>1. q.device = device /\ q.error = "DatabaseOpen"
    BY <1>2, <1>6 DEF DeletesFrom
  <2>2. device' = device
    BY <1>4, <2>1
  <2>3. Whole(device') /\ Rest(device') /\ Shown(device') = Shown(device)
    BY <1>1, <2>2, Zenon
  <2> QED
    BY <1>4, <1>5, <2>1, <2>3 DEF Calmly, Idle, Unchanged, Receiving
<1>7. CASE ~device.open
  <2>1. /\ q.device.exists = FALSE /\ q.device.slots = <<>>
        /\ q.device.openFiles \subseteq {NoName}
        /\ device.card /\ Readable(device) /\ Chosen(device).kind = "vfs" =>
              q.device.files[Chosen(device).name] = None
    BY <1>2, <1>7 DEF DeletesFrom
  <2>2. ~Readable(q.device)
    BY <2>1 DEF Readable, ReadMetadataSlot
  <2>3. Whole(q.device) /\ Rest(q.device) /\ Shown(q.device) = Nothing
    BY <2>1, <2>2 DEF Whole, Rest, Shown, Nothing
  <2>4. Whole(device') /\ Rest(device') /\ Shown(device') = Nothing
    BY <1>4, <2>3, Zenon
  <2>5. Listed => Readable(device)
    BY <1>1, ListedLoads DEF Loads
  <2>6. /\ device'.exists = FALSE
        /\ device.card /\ Listed /\ Chosen(device).kind = "vfs" =>
              device'.files[Chosen(device).name] = None
    <3>1. device.card /\ Listed /\ Chosen(device).kind = "vfs" =>
              q.device.files[Chosen(device).name] = None
      BY <2>1, <2>5
    <3> QED
      BY <1>4, <2>1, <3>1, Zenon
  <2> QED
    BY <1>4, <2>4, <2>6 DEF Calmly, Idle, Receiving
<1> QED
  BY <1>6, <1>7

-----------------------------------------------------------------------------
(* Accepting a response.                                                    *)

(* A commit over whatever stands in the other slot.                         *)
LEMMA LastSave ==
    ASSUME NEW m, Sound(m), m.device.exists, Present(m.device, m.store),
           Backed(m.device, m.store.metadata), FilesKept(m.device, m.store),
           Tight(m.device, m.store.metadata),
           NEW q, q = SaveMetadata(m)
    PROVE  /\ Kept(q.device, q.store)
           /\ q.store.metadata.name = m.store.metadata.name
           /\ Tells(q.device, {FileOf(m.store.metadata)})
<1> DEFINE meta == q.store.metadata
           y == DataOf(q.device, meta)
<1>1. /\ Sound(q) /\ Beside(q.device, m.device)
      /\ q.device.openFiles = m.device.openFiles /\ q.device.card = m.device.card
      /\ q.store.file = m.store.file
      /\ Alike(meta, m.store.metadata)
  BY SaveFields
<1>2. /\ Newest(q.device, q.store)
      /\ Last(q.device, q.store) = meta
      /\ Backed(q.device, meta)
      /\ q.device.exists
      /\ Tells(q.device, {FileOf(m.store.metadata)})
  BY SaveEnds
<1>3. q.device \in Device /\ meta \in Metadata /\ meta.downloaded \in Nat
  BY <1>1, SoundTypes
<1>4. y \in Seq(Units) /\ Len(y) \in Nat
  BY <1>3, DataType
<1>5. meta.downloaded \in 0..Len(y) /\ Take(y, meta.downloaded) = meta.sum
  BY <1>2, <1>3, <1>4 DEF Backed
<1>6. Take(meta.sum, meta.downloaded) = meta.sum
  <2> HIDE DEF y, meta
  <2>1. Take(Take(y, meta.downloaded), meta.downloaded) = Take(y, meta.downloaded)
    BY <1>4, <1>5, TakeAll
  <2> QED
    BY <1>5, <2>1
<1>7. Agrees(Last(q.device, q.store), meta)
  BY <1>2, <1>6 DEF Agrees
<1>8. Tight(q.device, meta)
  BY <1>1 DEF Tight, Alike, Beside, Content
<1>9. FilesKept(q.device, q.store)
  BY <1>1, FilesKeptSame
<1> QED
  BY <1>1, <1>2, <1>7, <1>8, <1>9 DEF Kept, Alike

(* Every response gives the file the one name.                              *)
LEMMA NamedTheSame ==
    ASSUME Calm, NEW n \in Names
    PROVE  TheName = NamedAs(n) /\ TheName \in FileNames /\ TheName # NoName
<1>1. NamedAs(n) \in FileNames /\ NamedAs(n) # NoName
  BY Constants DEF NamedAs, Calm, FileNames, NoName, DefaultName
<1>2. \A k \in Names : NamedAs(k) = NamedAs(n)
  BY DEF Calm
<1>3. \A k \in Names : NamedAs(k) = TheName
  BY <1>1, <1>2 DEF TheName
<1> QED
  BY <1>1, <1>3

LEMMA DescribedNames ==
    ASSUME Calm, NEW meta \in Metadata, meta.name \in {NoName, TheName},
           NEW r \in Response, NEW t, t = Described(meta, r)
    PROVE  t.name = TheName /\ t.complete = FALSE
<1>1. r.name \in Names
  BY DEF Response
<1>2. TheName = NamedAs(r.name)
  BY <1>1, NamedTheSame
<1> DEFINE name == IF r.name # None THEN r.name
                   ELSE IF meta.name = NoName THEN DefaultName ELSE meta.name
           total == IF r.sized THEN Length[r.version] ELSE meta.total
           stated == r.sized \/ r.framed
<1>3. name = TheName
  BY <1>2 DEF NamedAs
<1>4. t = [meta EXCEPT !.validator = r.version, !.name = name, !.total = total,
                       !.complete = FALSE, !.stated = stated]
  BY DEF Described, Metadata
<1> HIDE DEF name, total, stated
<1> QED
  BY <1>3, <1>4 DEF Metadata

(* A store that is started again is as a new one.                           *)
LEMMA RestartEmpties ==
    ASSUME NEW m, Sound(m), m.device.exists, m.device.openFiles \subseteq {NoName, m.store.file},
           NEW q, q = Restart(m)
    PROVE  /\ q.device.exists
           /\ q.store.metadata.downloaded = 0 /\ q.store.metadata.name = NoName
           /\ Backed(q.device, q.store.metadata)
           /\ FilesKept(q.device, q.store)
           /\ Tight(q.device, q.store.metadata)
<1> DEFINE removed == RemoveData(m)
           zeroed == WithMeta(removed, ZeroMetadata)
<1>1. /\ Sound(removed)
      /\ removed.store = [m.store EXCEPT !.file = None]
      /\ removed.device = [m.device EXCEPT !.data = <<>>,
                                           !.openFiles = @ \ {m.store.file},
                                           !.files = removed.device.files]
  BY RemoveDataSound
<1>2. q = SaveMetadata(zeroed)
  BY DEF Restart, WithMeta
<1> HIDE DEF removed
<1>3. removed.store.file = None
  BY <1>1, SoundTypes DEF LooseStore
<1>4. removed.device.openFiles \subseteq {NoName} /\ removed.device.exists
  <2> DEFINE o == m.device.openFiles \ {m.store.file}
             f == removed.device.files
  <2>1. removed.device = [m.device EXCEPT !.data = <<>>, !.openFiles = o, !.files = f]
    BY <1>1
  <2>2. m.device \in Device
    BY SoundTypes
  <2>3. o \subseteq {NoName}
    OBVIOUS
  <2> HIDE DEF o, f
  <2> QED
    BY <2>1, <2>2, <2>3 DEF Device
<1>5. /\ Sound(zeroed) /\ zeroed.device = removed.device
      /\ zeroed.store.metadata = ZeroMetadata /\ zeroed.store.file = removed.store.file
  <2>1. Sound(removed) /\ zeroed = WithMeta(removed, ZeroMetadata)
    BY <1>1
  <2> HIDE DEF zeroed
  <2> QED
    BY <2>1, MetaSound, ZeroMetadataOK
<1> HIDE DEF zeroed
<1>6. /\ Sound(q) /\ Beside(q.device, zeroed.device)
      /\ q.device.openFiles = zeroed.device.openFiles
      /\ q.store.file = zeroed.store.file
      /\ Alike(q.store.metadata, ZeroMetadata)
  BY <1>2, <1>5, SaveFields
<1>7. /\ q.store.metadata.downloaded = 0 /\ q.store.metadata.name = NoName
      /\ q.store.metadata.sum = <<>> /\ q.store.metadata.kind = "database"
  BY <1>6, FreshType DEF Alike, ZeroMetadata
<1>8. q.device \in Device /\ q.store.metadata \in Metadata
  BY <1>6, SoundTypes
<1>9. Backed(q.device, q.store.metadata)
  BY <1>7, <1>8, EmptyBacked
<1> QED
  BY <1>3, <1>4, <1>5, <1>6, <1>7, <1>9 DEF Beside, FilesKept, Tight

(* Choosing where the data goes keeps what is there.                        *)
LEMMA PlacedKeeps ==
    ASSUME NEW b, Sound(b), b.error = "Ok", b.device.exists, Sized(b.device, b.store),
           Backed(b.device, b.store.metadata), FilesKept(b.device, b.store),
           Tight(b.device, b.store.metadata),
           TheName \in FileNames \ {NoName},
           NEW text, MetaOK(text), text.name = TheName, text.kind = b.store.metadata.kind,
           text.downloaded = b.store.metadata.downloaded, text.sum = b.store.metadata.sum,
           text.downloaded # 0 => b.store.metadata.name = TheName,
           NEW fails \in BOOLEAN, ~fails,
           NEW q, q = Placed(WithMeta(b, text), fails)
    PROVE  /\ q.device.exists
           /\ q.store.metadata.name = TheName
           /\ q.store.metadata.complete = text.complete
           /\ Backed(q.device, q.store.metadata)
           /\ FilesKept(q.device, q.store)
           /\ Tight(q.device, q.store.metadata)
<1> DEFINE m == WithMeta(b, text)
           filed == TryOpenVfs(m, fails)
           content == Content(b.device, TheName)
           opens == /\ b.device.card /\ TheName \notin b.device.openFiles
                    /\ text.downloaded <= Len(content)
           p == filed.store.metadata.path
           f == filed.store.file
           old == b.store.metadata
<1>1. /\ Sound(m) /\ m.device = b.device /\ m.error = "Ok"
      /\ m.store.metadata = text /\ m.store.file = b.store.file
  BY MetaSound
<1>2. b.device \in Device /\ old \in Metadata /\ text \in Metadata /\ old.downloaded \in Nat
  BY SoundTypes DEF MetaOK
<1>3. old.name \in {NoName, TheName} /\ content \in Seq(Units) /\ Len(content) \in Nat
  BY <1>2, ContentType DEF Backed
<1>4. q = IF text.downloaded # 0 THEN m
          ELSE IF Succeeded(filed)
               THEN [filed EXCEPT !.store.metadata.kind = "vfs"]
               ELSE [filed EXCEPT !.error = "Ok"]
  BY <1>1 DEF Placed
<1>5. CASE text.downloaded # 0
  <2>1. q.device = b.device /\ q.store.metadata = text /\ q.store.file = b.store.file
    BY <1>1, <1>4, <1>5
  <2>2. old.name = TheName
    BY <1>5
  <2> QED
    BY <2>1, <2>2 DEF Backed, DataOf, FilesKept, Tight
<1>6. CASE text.downloaded = 0
  <2>1. /\ Sound(filed)
        /\ filed.error = "Ok" <=> opens
        /\ filed.store = Repathed(m.store, p, f)
        /\ filed.device = [b.device EXCEPT !.files = filed.device.files,
                                           !.openFiles = filed.device.openFiles]
        /\ opens => /\ f = TheName
                    /\ filed.device.openFiles = b.device.openFiles \cup {TheName}
                    /\ filed.device.files = [b.device.files EXCEPT
                                                ![TheName] = Take(content, text.downloaded)]
        /\ ~opens => filed.device = b.device /\ f = b.store.file
    <3> HIDE DEF filed, m
    <3>1. \A c : c = TryOpenVfs(m, fails) => Tried(m, fails, c)
      BY <1>1, TryOpenSound
    <3>2. Tried(m, FALSE, filed)
      BY <3>1, Zenon DEF filed
    <3> QED
      BY <1>1, <1>6, <3>2, Zenon DEF Tried
  <2>2. m.store \in LooseStore
    BY <1>1, SoundTypes
  <2> HIDE DEF filed, m
  <2>3. p \in FileNames \cup {None} /\ f \in FileNames \cup {None}
    BY <2>1, SoundTypes
  <2> DEFINE meta == [text EXCEPT !.path = p]
  <2>4. filed.store.metadata = meta
    BY <1>1, <2>1, <2>2, RepathedMeta
  <2>5. /\ meta \in Metadata /\ MetaOK(meta)
        /\ meta.downloaded = 0 /\ meta.sum = text.sum
        /\ meta.name = TheName /\ meta.kind = text.kind /\ meta.complete = text.complete
    BY <1>2, <1>6, <2>3, MetaPath DEF Metadata
  <2> HIDE DEF meta
  <2>6. text.sum = <<>>
    <3>1. Len(old.sum) = 0 /\ old.sum \in Seq(Units)
      BY <1>2, <1>6 DEF Sized, Metadata
    <3> QED
      BY <3>1, EmptySeq
  <2>7. CASE opens
    <3> DEFINE moved == [meta EXCEPT !.kind = "vfs"]
    <3>1. q = WithMeta(filed, moved)
      <4>1. q = [filed EXCEPT !.store.metadata = [filed.store.metadata EXCEPT !.kind = "vfs"]]
        BY <1>4, <1>6, <2>1, <2>7 DEF Succeeded
      <4> QED
        BY <2>4, <4>1 DEF WithMeta
    <3>2. /\ MetaOK(moved) /\ moved \in Metadata /\ moved.kind = "vfs" /\ moved.name = TheName
          /\ moved.downloaded = 0 /\ moved.sum = <<>> /\ moved.complete = text.complete
      BY <2>5, <2>6 DEF MetaOK, IsTrue, Vouched, Metadata
    <3> HIDE DEF moved
    <3>3. /\ Sound(q) /\ q.device = filed.device /\ q.store.metadata = moved
          /\ q.store.file = TheName
      <4>1. Sound(filed) /\ MetaOK(moved)
        BY <2>1, <3>2
      <4>2. \A c : c = WithMeta(filed, moved) =>
                /\ Sound(c) /\ c.device = filed.device /\ c.store.metadata = moved
                /\ c.store.file = filed.store.file
        BY <4>1, MetaSound
      <4>3. /\ Sound(q) /\ q.device = filed.device /\ q.store.metadata = moved
            /\ q.store.file = filed.store.file
        BY <3>1, <4>2
      <4> QED
        BY <2>1, <2>7, <4>3
    <3>4. /\ filed.device.exists = b.device.exists /\ filed.device.card = b.device.card
          /\ filed.device \in Device
      <4> DEFINE files == filed.device.files
                 openFiles == filed.device.openFiles
      <4>1. filed.device = [b.device EXCEPT !.files = files, !.openFiles = openFiles]
            /\ filed.device \in Device
        BY <2>1, SoundTypes
      <4> HIDE DEF files, openFiles
      <4> QED
        BY <1>2, <4>1 DEF Device
    <3>5. Content(filed.device, TheName) = <<>>
      <4>1. Take(content, text.downloaded) = <<>>
        BY <1>3, <1>6, TakeNothing
      <4>2. filed.device.files[TheName] = <<>>
        BY <1>2, <2>1, <2>7, <4>1, FilesType
      <4> QED
        BY <4>2 DEF Content
    <3>6. filed.device.openFiles \subseteq {NoName, TheName}
      <4>1. b.store.file \in {None, NoName, TheName}
        BY <1>2, <1>3 DEF FilesKept, Metadata
      <4>2. None \notin b.device.openFiles
        BY <1>2, FilesType, Constants
      <4> QED
        BY <2>1, <2>7, <4>1, <4>2 DEF FilesKept
    <3>7. Backed(q.device, q.store.metadata)
      BY <3>2, <3>3, <3>4, EmptyBacked
    <3>8. Content(q.device, TheName) = <<>> /\ Len(<<>>) = 0
      BY <3>3, <3>5
    <3>9. Tight(q.device, q.store.metadata)
      BY <3>2, <3>3, <3>8 DEF Tight
    <3>10. FilesKept(q.device, q.store)
      BY <2>7, <3>2, <3>3, <3>4, <3>6 DEF FilesKept
    <3> QED
      BY <3>2, <3>3, <3>4, <3>7, <3>9, <3>10
  <2>8. CASE ~opens
    <3>1. q = Fail(filed, "Ok") /\ "Ok" \in Errors
      BY <1>4, <1>6, <2>1, <2>8 DEF Succeeded, Fail, Errors
    <3>2. q.device = b.device /\ q.store.metadata = meta /\ q.store.file = b.store.file
      <4>1. Sound(filed)
        BY <2>1
      <4>2. q.device = filed.device /\ q.store = filed.store
        BY <3>1, <4>1, FailSound
      <4> QED
        BY <2>1, <2>4, <2>8, <4>2
    <3>3. ~b.device.card \/ TheName \in b.device.openFiles
      BY <1>3, <1>6, <2>8
    <3>4. old.kind = "vfs" => old.name = TheName
      BY <1>3, <3>3 DEF FilesKept
    <3>5. Backed(q.device, q.store.metadata)
      BY <1>2, <2>5, <2>6, <3>2, EmptyBacked
    <3> QED
      BY <1>6, <2>5, <3>2, <3>4, <3>5 DEF FilesKept, Tight
  <2> QED
    BY <2>7, <2>8
<1> QED
  BY <1>5, <1>6

(* What a device shows once a response has been accepted.                   *)
Accepted(meta, r, d) ==
    \/ /\ r.code = 416 /\ meta.downloaded = Length[r.version]
       /\ Shown(d) = [present |-> TRUE, content |-> meta.sum, complete |-> TRUE]
    \/ /\ r.code = 200
       /\ Shown(d) = [present |-> TRUE, content |-> <<>>, complete |-> FALSE]
    \/ /\ Continues(meta, r)
       /\ Shown(d) = [present |-> TRUE, content |-> meta.sum, complete |-> FALSE]

LEMMA AcceptKeeps ==
    ASSUME Calm, NEW m, Sound(m), m.error = "Ok", Ready(m.device, m.store),
           Kept(m.device, m.store),
           NEW r \in Responses(m.store.metadata),
           NEW fails \in BOOLEAN, ~fails, NEW q, q = AcceptResponse(m, r, fails)
    PROVE  \/ q = Fail(m, q.error) /\ q.error \in Errors \ {"Ok"}
           \/ /\ Sound(q) /\ q.error = "Ok"
              /\ Kept(q.device, q.store) /\ q.store.metadata.name # NoName
              /\ Whole(q.device) /\ Accepted(m.store.metadata, r, q.device)
<1> DEFINE meta == m.store.metadata
           based == IF meta.downloaded # 0 /\ r.code = 200 THEN Restart(m) ELSE m
           text == Described(based.store.metadata, r)
           described == WithMeta(based, text)
           placed == Placed(described, fails)
           done == [meta EXCEPT !.total = Length[r.version], !.stated = TRUE,
                                !.complete = TRUE]
           counted == WithMeta(m, [meta EXCEPT !.total = Length[r.version],
                                               !.stated = TRUE])
           marked == WithMeta(m, done)
<1>1. /\ meta \in Metadata /\ MetaOK(meta) /\ meta.sum \in Seq(Units)
      /\ meta.downloaded \in Nat
      /\ meta.downloaded = Len(meta.sum) /\ Committed(m.device, m.store)
      /\ Sized(m.device, m.store) /\ m.device \in Device /\ m.store \in LooseStore
  BY SoundTypes DEF Ready, Sized
<1>2. r \in Response /\ r.version \in Versions /\ r.name \in Names
  BY DEF Responses, Response
<1>3. TheName \in FileNames \ {NoName}
  BY <1>2, NamedTheSame
<1>4. /\ m.device.exists /\ Backed(m.device, meta) /\ FilesKept(m.device, m.store)
      /\ Tight(m.device, meta)
      /\ meta.name \in {NoName, TheName} /\ meta.downloaded # 0 => meta.name = TheName
  BY DEF Kept, Backed
<1>5. q = IF r.code = 416 /\ meta.downloaded = Length[r.version]
          THEN MarkComplete(counted)
          ELSE IF r.code = 200 \/ Continues(meta, r)
               THEN SaveMetadata(placed)
               ELSE Fail(m, IF meta.downloaded # 0 THEN "CorruptDatabase"
                                                   ELSE "InvalidParam")
  <2>1. counted = [m EXCEPT !.store.metadata.total = Length[r.version],
                            !.store.metadata.stated = TRUE]
    BY <1>1 DEF WithMeta, Sound, OpValue, LooseStore
  <2>2. described = [based EXCEPT !.store.metadata = text]
    BY DEF WithMeta
  <2> DEFINE full == [m EXCEPT !.store.metadata.total = Length[r.version],
                               !.store.metadata.stated = TRUE]
             other == [based EXCEPT !.store.metadata = text]
  <2>3. q = IF r.code = 416 /\ meta.downloaded = Length[r.version]
            THEN MarkComplete(full)
            ELSE IF r.code = 200 \/ Continues(meta, r)
                 THEN SaveMetadata(Placed(other, fails))
                 ELSE Fail(m, IF meta.downloaded # 0 THEN "CorruptDatabase"
                                                     ELSE "InvalidParam")
    BY DEF AcceptResponse
  <2> HIDE DEF full, other, counted, described
  <2>4. counted = full /\ described = other
    BY <2>1, <2>2 DEF full, other
  <2> QED
    BY <2>3, <2>4, Zenon
<1>6. Truthful =>
          /\ r.code = 206 /\ Continues(meta, r) => IsBeginning(meta.sum, r.version)
          /\ r.code = 416 /\ meta.downloaded = Length[r.version] =>
                meta.validator = r.version /\ meta.sum = Version(r.version)
  <2> DEFINE body == Body(r, meta.downloaded)
  <2> HIDE DEF based, text, described, placed, done, counted, marked
  <2>1. Truthful =>
            /\ r.code = 206 /\ Continues(meta, r) =>
                  /\ IsBeginning(meta.sum, r.version)
                  /\ meta.sum \o body = Version(r.version)
            /\ r.code = 416 /\ meta.downloaded = Length[r.version] =>
                  /\ meta.validator = r.version
                  /\ meta.sum = Version(r.version)
                  /\ meta.sum \o body = Version(r.version)
    BY <1>1, BodyEndsVersion
  <2> HIDE DEF body
  <2> QED
    BY <2>1
<1>7. CASE r.code = 416 /\ meta.downloaded = Length[r.version]
  <2>1. Length[r.version] \in Nat \ {0}
    BY <1>2, VersionSeq
  <2>2. /\ done \in Metadata /\ done.complete = TRUE /\ done.stated = TRUE
        /\ done.generation = meta.generation /\ done.kind = meta.kind
        /\ done.downloaded = meta.downloaded /\ done.sum = meta.sum
        /\ done.validator = meta.validator /\ done.name = meta.name
    BY <1>1, <2>1 DEF Metadata
  <2>3. q = SaveMetadata(marked)
    <3> DEFINE sized == [meta EXCEPT !.total = Length[r.version], !.stated = TRUE]
               s == [m.store EXCEPT !.metadata = sized]
    <3>1. /\ sized.total = meta.downloaded /\ sized.downloaded = meta.downloaded
          /\ [sized EXCEPT !.complete = TRUE] = done
      BY <1>1, <1>7 DEF Metadata
    <3> HIDE DEF sized, done
    <3>2. counted = [m EXCEPT !.store.metadata = sized]
      BY DEF WithMeta, sized
    <3>3. counted.store.metadata = sized
      BY <1>1, <3>2 DEF Sound, OpValue, LooseStore
    <3>4. MarkComplete(counted) = SaveMetadata([counted EXCEPT !.store.metadata.complete = TRUE])
      BY <3>1, <3>3 DEF MarkComplete
    <3>5. [counted EXCEPT !.store.metadata.complete = TRUE] = marked
      <4>1. [counted EXCEPT !.store.metadata.complete = TRUE]
                = [counted EXCEPT !.store.metadata = [sized EXCEPT !.complete = TRUE]]
        BY <3>3
      <4> HIDE DEF sized
      <4> QED
        BY <1>1, <3>1, <3>2, <4>1 DEF WithMeta, Sound, OpValue, LooseStore
    <3> QED
      BY <1>5, <1>7, <3>4, <3>5
  <2>4. MetaOK(done)
    <3>1. Truthful => IsBeginning(meta.sum, meta.validator)
      <4> HAVE Truthful
      <4>1. meta.sum \o <<>> = Version(meta.validator) /\ <<>> \in Seq(Units)
            /\ meta.validator \in Versions
        BY <1>1, <1>2, <1>6, <1>7, ConcatEmptySeq
      <4> QED
        BY <1>1, <4>1, BeginningOf
    <3> HIDE DEF done, meta
    <3> QED
      BY <1>2, <1>6, <1>7, <2>2, <3>1 DEF MetaOK, IsTrue, Vouched
  <2>5. /\ Sound(marked) /\ marked.device = m.device /\ marked.error = "Ok"
        /\ marked.store.metadata = done /\ marked.store.file = m.store.file
    <3> HIDE DEF done
    <3> QED
      BY <2>4, MetaSound
  <2> HIDE DEF done, marked
  <2>6. Present(marked.device, marked.store)
    BY <1>1, <2>2, <2>5 DEF Committed, Present, Last
  <2>7. /\ Backed(marked.device, marked.store.metadata)
        /\ FilesKept(marked.device, marked.store)
        /\ Tight(marked.device, marked.store.metadata)
    BY <1>4, <2>2, <2>5 DEF Backed, DataOf, FilesKept, Tight
  <2>8. /\ Kept(q.device, q.store) /\ q.store.metadata.name = done.name
        /\ Tells(q.device, {FileOf(done)})
    BY <1>4, <2>3, <2>5, <2>6, <2>7, LastSave
  <2>9. Sound(q) /\ q.error = "Ok"
    BY <2>3, <2>5, SaveSound
  <2>10. FileOf(done) = [present |-> TRUE, content |-> meta.sum, complete |-> TRUE]
    BY <2>2 DEF FileOf, Vouched
  <2>11. done.name # NoName
    BY <1>3, <1>4, <1>7, <2>1, <2>2
  <2> QED
    BY <1>7, <2>8, <2>9, <2>10, <2>11 DEF Tells, Accepted
<1>8. CASE /\ ~(r.code = 416 /\ meta.downloaded = Length[r.version])
           /\ r.code = 200 \/ Continues(meta, r)
  <2>1. q = SaveMetadata(placed) /\ r.code \in {200, 206}
    BY <1>5, <1>8 DEF Continues
  <2> HIDE DEF done, counted, marked
  <2>2. /\ Sound(based) /\ based.error = "Ok" /\ based.device.exists
        /\ Sized(based.device, based.store)
        /\ Committed(based.device, based.store)
        /\ Backed(based.device, based.store.metadata)
        /\ FilesKept(based.device, based.store)
        /\ Tight(based.device, based.store.metadata)
        /\ r.code = 200 => based.store.metadata.sum = <<>> /\ based.store.metadata.downloaded = 0
        /\ r.code = 206 => based.store.metadata = meta /\ meta.downloaded # 0
    <3>1. CASE meta.downloaded # 0 /\ r.code = 200
      <4>1. m.device.openFiles \subseteq {NoName, m.store.file}
        BY <1>4 DEF FilesKept
      <4>2. based = Restart(m)
        BY <3>1
      <4> HIDE DEF based
      <4> QED
        BY <1>4, <3>1, <4>1, <4>2, RestartSound, RestartEmpties
    <3>2. CASE ~(meta.downloaded # 0 /\ r.code = 200)
      <4>1. r.code = 200 => Len(meta.sum) = 0
        BY <1>1, <3>2
      <4>2. r.code = 200 => meta.sum = <<>>
        BY <1>1, <4>1, EmptySeq
      <4>3. r.code = 206 => meta.downloaded # 0
        <5>1. r.code = 206 => meta.downloaded \in 1..(Length[r.version] - 1)
          BY DEF Responses
        <5>2. Length[r.version] \in Nat
          BY <1>2, VersionSeq
        <5> QED
          BY <1>1, <5>1, <5>2
      <4> QED
        BY <1>1, <1>4, <3>2, <4>2, <4>3
    <3> QED
      BY <3>1, <3>2
  <2> DEFINE old == based.store.metadata
  <2>3. /\ MetaOK(old) /\ old \in Metadata /\ old.name \in {NoName, TheName}
        /\ old.downloaded # 0 => old.name = TheName
    <3>1. Sound(based) /\ Backed(based.device, old)
      BY <2>2
    <3> HIDE DEF based
    <3>2. MetaOK(old) /\ old \in Metadata
      BY <3>1, SoundTypes
    <3> QED
      BY <3>1, <3>2 DEF Backed
  <2>4. Truthful => IsBeginning(old.sum, r.version)
    <3>1. CASE r.code = 200
      BY <1>2, <2>2, <3>1, EmptyBeginning
    <3>2. CASE r.code = 206
      BY <1>6, <1>8, <2>2, <3>2
    <3> QED
      BY <2>1, <3>1, <3>2
  <2> HIDE DEF based, old
  <2>5. /\ MetaOK(text)
        /\ text.generation = old.generation /\ text.downloaded = old.downloaded
        /\ text.kind = old.kind /\ text.sum = old.sum
        /\ text.name = TheName /\ text.complete = FALSE
    <3>1. text = Described(old, r)
      BY DEF old
    <3> HIDE DEF text
    <3> QED
      BY <1>2, <2>3, <2>4, <3>1, DescribedOK, DescribedNames
  <2> HIDE DEF text
  <2>6. /\ Sound(described)
        /\ described.device = based.device /\ described.error = "Ok"
        /\ described.store.metadata = text /\ described.store.file = based.store.file
    <3>1. Sound(based) /\ MetaOK(text) /\ based.error = "Ok"
      BY <2>2, <2>5
    <3> QED
      BY <3>1, MetaSound
  <2> HIDE DEF described
  <2>7. Sized(described.device, described.store)
    BY <2>2, <2>5, <2>6 DEF Sized, old
  <2> HIDE DEF placed
  <2>8. /\ Sound(placed) /\ placed.error = "Ok"
        /\ placed.device.slots = described.device.slots
        /\ placed.store.metadata.generation = text.generation
        /\ placed.store.metadata.downloaded = text.downloaded
        /\ placed.store.metadata.sum = text.sum
    <3>1. placed = Placed(described, fails)
      BY DEF placed
    <3> QED
      BY <2>6, <2>7, <3>1, PlacedSound
  <2>9. /\ placed.device.exists
        /\ placed.store.metadata.name = TheName
        /\ placed.store.metadata.complete = FALSE
        /\ Backed(placed.device, placed.store.metadata)
        /\ FilesKept(placed.device, placed.store)
        /\ Tight(placed.device, placed.store.metadata)
    <3>1. placed = Placed(WithMeta(based, text), fails)
      BY DEF placed, described
    <3>2. text.downloaded # 0 => old.name = TheName
      BY <2>3, <2>5
    <3>3. /\ text.name = TheName /\ text.kind = based.store.metadata.kind
          /\ text.downloaded = based.store.metadata.downloaded
          /\ text.sum = based.store.metadata.sum /\ MetaOK(text)
          /\ text.downloaded # 0 => based.store.metadata.name = TheName
      BY <2>5, <3>2 DEF old
    <3>4. /\ Sound(based) /\ based.error = "Ok" /\ based.device.exists
          /\ Sized(based.device, based.store)
          /\ Backed(based.device, based.store.metadata)
          /\ FilesKept(based.device, based.store)
          /\ Tight(based.device, based.store.metadata)
      BY <2>2
    <3>5. /\ placed.store.metadata.complete = text.complete
          /\ placed.device.exists
          /\ placed.store.metadata.name = TheName
          /\ Backed(placed.device, placed.store.metadata)
          /\ FilesKept(placed.device, placed.store)
          /\ Tight(placed.device, placed.store.metadata)
      <4> DEFINE b == based
                 t == text
                 f == placed
      <4>1. /\ TheName \in FileNames \ {NoName}
            /\ f = Placed(WithMeta(b, t), fails)
            /\ t.name = TheName /\ t.kind = b.store.metadata.kind
            /\ t.downloaded = b.store.metadata.downloaded
            /\ t.sum = b.store.metadata.sum /\ MetaOK(t)
            /\ t.downloaded # 0 => b.store.metadata.name = TheName
            /\ Sound(b) /\ b.error = "Ok" /\ b.device.exists
            /\ Sized(b.device, b.store)
            /\ Backed(b.device, b.store.metadata)
            /\ FilesKept(b.device, b.store)
            /\ Tight(b.device, b.store.metadata)
        BY <1>3, <3>1, <3>3, <3>4
      <4> HIDE DEF b, t, f
      <4>2. /\ f.store.metadata.complete = t.complete
            /\ f.device.exists
            /\ f.store.metadata.name = TheName
            /\ Backed(f.device, f.store.metadata)
            /\ FilesKept(f.device, f.store)
            /\ Tight(f.device, f.store.metadata)
        BY <4>1, PlacedKeeps
      <4> QED
        BY <4>2 DEF b, t, f
    <3> QED
      BY <2>5, <3>5
  <2>10. Present(placed.device, placed.store)
    BY SMTT(30), <2>2, <2>5, <2>6, <2>8 DEF Committed, Present, Last, old
  <2>11. /\ Kept(q.device, q.store) /\ q.store.metadata.name = TheName
         /\ Tells(q.device, {FileOf(placed.store.metadata)})
    <3>1. Sound(placed) /\ q = SaveMetadata(placed)
      BY <2>1, <2>8
    <3> QED
      BY <2>9, <2>10, <3>1, LastSave
  <2>12. Sound(q) /\ q.error = "Ok"
    <3>1. Sound(placed) /\ q = SaveMetadata(placed) /\ placed.error = "Ok"
      BY <2>1, <2>8
    <3> QED
      BY <3>1, SaveSound
  <2>13. FileOf(placed.store.metadata)
             = [present |-> TRUE, content |-> old.sum, complete |-> FALSE]
    BY <2>5, <2>8, <2>9 DEF FileOf, Vouched
  <2>14. Shown(q.device) = [present |-> TRUE, content |-> old.sum, complete |-> FALSE]
    BY <2>11, <2>13 DEF Tells
  <2>15. Accepted(meta, r, q.device)
    <3>1. CASE r.code = 200
      <4>1. old.sum = <<>>
        BY <2>2, <3>1 DEF old
      <4> QED
        BY <2>14, <3>1, <4>1 DEF Accepted
    <3>2. CASE r.code = 206
      <4>1. old.sum = meta.sum /\ Continues(meta, r)
        BY <1>8, <2>2, <3>2 DEF old
      <4> QED
        BY <2>14, <4>1 DEF Accepted
    <3> QED
      BY <2>1, <3>1, <3>2
  <2> QED
    BY <1>3, <2>11, <2>12, <2>15 DEF Tells
<1>9. CASE ~(r.code = 416 /\ meta.downloaded = Length[r.version])
           /\ ~(r.code = 200 \/ Continues(meta, r))
  <2>1. PICK e \in {"CorruptDatabase", "InvalidParam"} : q = Fail(m, e)
    BY <1>5, <1>9
  <2>2. e \in Errors /\ e # "Ok"
    BY DEF Errors
  <2>3. q.error = e
    BY <2>1, <2>2, FailSound
  <2> QED
    BY <2>1, <2>2, <2>3
<1> QED
  BY <1>7, <1>8, <1>9

(* A store with nothing uncommitted holds what the device shows.            *)
LEMMA CommittedShown ==
    ASSUME Consistent, Calmly, job.stage # "idle", store.uncommitted = 0
    PROVE  Shown(device) = FileOf(store.metadata)
<1> DEFINE meta == store.metadata
           c == Chosen(device)
<1>1. /\ Kept(device, store) /\ Committed(device, store) /\ Sized(device, store)
      /\ DeviceOK(device) /\ meta \in Metadata
  BY DEF Calmly, Consistent, Ready, MetaOK
<1>2. /\ meta.generation \in Nat /\ meta.downloaded \in Nat /\ meta.sum \in Seq(Units)
      /\ meta.complete \in BOOLEAN
  BY <1>1 DEF Metadata
<1>3. Readable(device) /\ c = Last(device, store)
  BY <1>1, <1>2, LastIsChosen DEF Committed, Kept
<1>4. c \in Metadata /\ c.downloaded \in Nat
  BY <1>1, <1>3, ChosenFacts DEF Metadata
<1>5. c.downloaded = meta.downloaded /\ meta.downloaded = Len(meta.sum)
  BY <1>1, <1>2, <1>3, <1>4 DEF Committed, Sized
<1>6. c.sum = Take(meta.sum, c.downloaded) /\ Vouched(c) = Vouched(meta)
  BY <1>1, <1>3 DEF Kept, Agrees, Vouched
<1>7. Take(meta.sum, Len(meta.sum)) = meta.sum
  BY <1>2, SubSeqFull DEF Take
<1>8. c.sum = meta.sum
  BY <1>5, <1>6, <1>7
<1>9. device.exists = TRUE
  BY <1>1 DEF DeviceOK, Device, Kept
<1>10. (Readable(device) /\ Vouched(c)) = Vouched(meta)
  BY <1>3, <1>6 DEF Vouched
<1> HIDE DEF meta, c
<1> QED
  BY <1>3, <1>8, <1>9, <1>10 DEF Shown, FileOf, meta, c

LEMMA RespondCalmly ==
    ASSUME Calm, Consistent, Calmly, Respond
    PROVE  /\ Calmly'
           /\ \/ Unchanged
              \/ \E r \in Responses(store.metadata) : Accepted(store.metadata, r, device')
<1>1. job.stage = "request" /\ store.uncommitted = 0
  BY DEF Respond, Calmly
<1>2. PICK r \in Responses(store.metadata), fails \in {f \in BOOLEAN : f => "FileBusy" \in Faults} :
          LET m == AcceptResponse(Now, r, fails)
              body == Body(r, store.metadata.downloaded)
          IN  IF Succeeded(m)
              THEN Runs("AcceptResponse", m,
                        [stage |-> IF r.framed THEN "body" ELSE "stream",
                         left  |-> body])
              ELSE Runs("AcceptResponse", JobFinish(m), Idle)
  BY DEF Respond
<1> DEFINE now == Now
           m == AcceptResponse(now, r, fails)
           body == Body(r, store.metadata.downloaded)
           next == [stage |-> IF r.framed THEN "body" ELSE "stream", left |-> body]
           S == {Shown(device)}
<1>3. /\ Running(now, S) /\ Kept(device, store) /\ now.error = "Ok"
      /\ now.device = device /\ now.store = store /\ Ready(device, store)
  <2>1. Shown(device) \in S /\ FileOf(store.metadata) \in S
    BY <1>1, CommittedShown
  <2>2. Ready(device, store) /\ job.stage # "idle"
    BY <1>1 DEF Consistent
  <2> HIDE DEF S
  <2> QED
    BY <1>1, <2>1, <2>2, NowRuns
<1>4. fails \in BOOLEAN /\ ~fails
  BY DEF Calm
<1>5. IF Succeeded(m) THEN Runs("AcceptResponse", m, next)
                      ELSE Runs("AcceptResponse", JobFinish(m), Idle)
  BY <1>2
<1>6. next.stage \in Stages \ {"idle"} /\ next.stage # "request"
  BY DEF Stages, Receiving
<1> HIDE DEF m, body, next, S, now
<1>7. \/ m = Fail(now, m.error) /\ m.error \in Errors \ {"Ok"}
      \/ /\ Sound(m) /\ m.error = "Ok"
         /\ Kept(m.device, m.store) /\ m.store.metadata.name # NoName
         /\ Whole(m.device) /\ Accepted(store.metadata, r, m.device)
  <2>1. /\ Sound(now) /\ Ready(now.device, now.store) /\ Kept(now.device, now.store)
        /\ r \in Responses(now.store.metadata) /\ m = AcceptResponse(now, r, fails)
    BY <1>3 DEF m, Running, Writable
  <2>2. \/ m = Fail(now, m.error) /\ m.error \in Errors \ {"Ok"}
        \/ /\ Sound(m) /\ m.error = "Ok"
           /\ Kept(m.device, m.store) /\ m.store.metadata.name # NoName
           /\ Whole(m.device) /\ Accepted(now.store.metadata, r, m.device)
    BY <1>3, <1>4, <2>1, AcceptKeeps
  <2> QED
    BY <1>3, <2>2
<1>8. CASE m = Fail(now, m.error) /\ m.error \in Errors \ {"Ok"}
  <2>1. /\ Sound(m) /\ m.device = now.device /\ m.store = now.store /\ m.trail = now.trail
    BY <1>3, <1>8, FailSound DEF Running, Writable
  <2>2. Running(m, S)
    BY <1>3, <2>1 DEF Running, Writable
  <2>3. Settled(JobFinish(m), S)
    BY <2>2, FinishSettles
  <2>4. Runs("AcceptResponse", JobFinish(m), Idle)
    BY <1>5, <1>8 DEF Succeeded
  <2>5. Calmly' /\ Shown(device') \in S
    BY <2>3, <2>4, EndsCalmly DEF Settled, Ended, Way
  <2> QED
    BY <2>5 DEF S, Unchanged
<1>9. CASE /\ Sound(m) /\ m.error = "Ok"
           /\ Kept(m.device, m.store) /\ m.store.metadata.name # NoName
           /\ Whole(m.device) /\ Accepted(store.metadata, r, m.device)
  <2>1. Runs("AcceptResponse", m, next)
    BY <1>5, <1>9 DEF Succeeded
  <2> DEFINE T == {Shown(m.device)}
  <2>2. Way("AcceptResponse", m, T)
    BY DEF Way, Calm
  <2>3. Tells(m.device, T)
    BY <1>9 DEF Tells
  <2> HIDE DEF T
  <2>4. Calmly' /\ Shown(device') \in T
    BY <1>6, <1>9, <2>1, <2>2, <2>3, GoesOnCalmly
  <2>5. Accepted(store.metadata, r, device')
    BY <1>9, <2>4 DEF Accepted, T
  <2> QED
    BY <2>4, <2>5
<1> QED
  BY <1>7, <1>8, <1>9

-----------------------------------------------------------------------------
(* Exporting.                                                               *)

(* The files do not matter while the data is in records.                    *)
LEMMA AsideTells ==
    ASSUME NEW d, NEW S, Tells(d, S), Readable(d) => Chosen(d).kind = "database",
           NEW e, Aside(e, d)
    PROVE  /\ Tells(e, S) /\ (Readable(e) <=> Readable(d)) /\ Chosen(e) = Chosen(d)
<1>1. Readable(d) => Backed(e, Chosen(d))
  BY DEF Tells, Whole, Backed, DataOf, Aside
<1> QED
  BY <1>1, OutsideTells DEF Aside

(* Closing a store in which only files have changed.                        *)
LEMMA AsideCloses ==
    ASSUME NEW m, NEW S, Running(m, S), m.store.uncommitted = 0,
           m.store.metadata.kind = "database",
           NEW x, Sound(x), x.store.open, x.store.uncommitted = 0,
           x.store.file = m.store.file,
           Aside(x.device, m.device), x.device.openFiles \subseteq m.device.openFiles,
           \A e \in x.trail : e \in m.trail \/ Aside(e, m.device),
           NEW q, q = Close(x)
    PROVE  Settled(q, S)
<1>1. /\ Sound(m) /\ FilesKept(m.device, m.store)
      /\ Present(m.device, m.store) /\ Newest(m.device, m.store)
      /\ Tells(m.device, S) /\ \A e \in m.trail : Tells(e, S)
  BY DEF Running, Writable
<1>2. DeviceOK(m.device) /\ m.store.metadata.generation \in Nat
  BY <1>1, SoundTypes
<1>3. Chosen(m.device).kind = "database"
  BY <1>1, <1>2, LastIsChosen DEF Running
<1>4. \A e : Aside(e, m.device) =>
          Tells(e, S) /\ Chosen(e) = Chosen(m.device)
  BY <1>1, <1>3, AsideTells
<1>5. Flush(x) = x
  BY DEF Flush
<1>6. Closing(x, S)
  BY <1>1, <1>3, <1>4 DEF Closing, FilesKept
<1> QED
  BY <1>5, <1>6, CloseSettles

LEMMA FailSettles ==
    ASSUME NEW m, NEW S, Settled(m, S), NEW e \in Errors, NEW q, q = Fail(m, e)
    PROVE  Settled(q, S)
<1>1. Ended(q)
  BY FailEnds DEF Settled
<1>2. q.device = m.device /\ q.trail = m.trail
  BY FailSound DEF Settled, Ended
<1> QED
  BY <1>1, <1>2 DEF Settled

(* The data has been copied: the commit that names the file, and then the   *)
(* records go.                                                              *)
LEMMA MovedSettles ==
    ASSUME NEW m, NEW S, Running(m, S), m.store.uncommitted = 0,
           m.store.metadata.kind = "database",
           NEW named, NEW copied, NEW written,
           written = m.store.metadata.downloaded,
           ExportedBy(m, written, named, copied),
           NEW q, q = Close(RemoveRecords(SaveMetadata(Turned(copied))))
    PROVE  Settled(q, S)
<1> DEFINE meta == m.store.metadata
           path == meta.name
           t == Turned(copied)
           saved == SaveMetadata(t)
           moved == RemoveRecords(saved)
<1>1. /\ Sound(m) /\ FilesKept(m.device, m.store)
      /\ Present(m.device, m.store) /\ Newest(m.device, m.store)
      /\ Backed(m.device, meta) /\ FileOf(meta) \in S
      /\ m.device.exists /\ m.store.open
      /\ Tells(m.device, S) /\ \A e \in m.trail : Tells(e, S)
  BY DEF Running, Writable
<1>2. /\ DeviceOK(m.device) /\ m.device \in Device /\ m.store \in LooseStore
      /\ meta \in Metadata /\ meta.generation \in Nat /\ meta.downloaded \in Nat
      /\ path \in FileNames /\ meta.sum \in Seq(Units)
  BY <1>1, SoundTypes
<1>3. Readable(m.device) /\ Chosen(m.device).kind = "database"
  BY <1>1, <1>2, LastIsChosen DEF Running
<1>4. \A e : Aside(e, m.device) => Tells(e, S)
  BY <1>1, <1>3, AsideTells
<1> DEFINE text == [meta EXCEPT !.path = path]
           kept == [text EXCEPT !.kind = "vfs"]
<1>5. /\ Sound(copied) /\ copied.store = WithMeta(m, text).store
      /\ Aside(copied.device, m.device)
      /\ copied.device.openFiles = m.device.openFiles \ {path}
      /\ Content(copied.device, path) = Take(Stored(m), written)
      /\ \A e \in copied.trail : e \in m.trail \/ Aside(e, m.device)
  BY Zenon DEF ExportedBy
<1>6. /\ copied.store.metadata = text /\ copied.store.uncommitted = 0
      /\ copied.store.open /\ copied.store.file = m.store.file
  <2>1. copied.store = [m.store EXCEPT !.metadata = text]
    BY <1>1, <1>5 DEF WithMeta, Sound, OpValue
  <2> HIDE DEF text
  <2> QED
    BY <1>1, <1>2, <2>1 DEF LooseStore
<1>7. /\ kept.kind = "vfs" /\ kept.name = path /\ kept.generation = meta.generation
      /\ kept.downloaded = meta.downloaded /\ kept.sum = meta.sum
      /\ kept.complete = meta.complete /\ kept.stated = meta.stated
  BY <1>2 DEF Metadata
<1>8. /\ Sound(t) /\ t.device = copied.device /\ t.trail = copied.trail
      /\ t.store.open /\ t.store.uncommitted = 0 /\ t.store.file = m.store.file
      /\ t.store.metadata = kept
  <2>1. t = Turned(copied) /\ Sound(copied)
    BY <1>5
  <2> HIDE DEF t
  <2>2. /\ Sound(t) /\ t.device = copied.device /\ t.trail = copied.trail
        /\ t.store.open = copied.store.open /\ t.store.uncommitted = copied.store.uncommitted
        /\ t.store.file = copied.store.file
        /\ t.store.metadata = [copied.store.metadata EXCEPT !.kind = "vfs"]
    BY <2>1, TurnedSound
  <2> QED
    BY <1>6, <2>2
<1> HIDE DEF text, kept, t
<1>9. Backed(t.device, t.store.metadata)
  <2>1. Stored(m) = Take(m.device.data, meta.downloaded)
    BY DEF Stored
  <2>2. Take(m.device.data, meta.downloaded) = meta.sum
        /\ meta.downloaded <= Len(m.device.data)
    BY <1>1 DEF Backed, DataOf
  <2>3. m.device.data \in Seq(Units) /\ Len(m.device.data) \in Nat
    BY <1>2, FilesType
  <2>4. Take(meta.sum, meta.downloaded) = meta.sum /\ Len(meta.sum) = meta.downloaded
    <3> DEFINE y == m.device.data
               n == meta.downloaded
    <3>1. y \in Seq(Units) /\ n \in 0..Len(y) /\ Take(y, n) = meta.sum
      BY <1>2, <2>2, <2>3
    <3> HIDE DEF y, n
    <3>2. Take(Take(y, n), n) = Take(y, n) /\ Len(Take(y, n)) = n
      BY <3>1, TakeAll, TakeSeq
    <3> QED
      BY <3>1, <3>2 DEF n
  <2>5. Content(t.device, path) = meta.sum
    BY <1>5, <1>8, <2>1, <2>2, <2>4
  <2> QED
    BY <1>1, <1>2, <1>7, <1>8, <2>4, <2>5 DEF Backed, DataOf
<1>10. /\ Present(t.device, t.store) /\ Newest(t.device, t.store)
       /\ t.device.exists /\ FileOf(t.store.metadata) \in S
       /\ Tells(t.device, S) /\ \A e \in t.trail : Tells(e, S)
  <2>1. FileOf(kept) = FileOf(meta)
    BY <1>7 DEF FileOf, Vouched
  <2> QED
    BY ZenonT(40), <1>1, <1>4, <1>5, <1>7, <1>8, <2>1 DEF Aside, Present, Newest, Last, Former
<1>11. Tells(saved.device, S) /\ \A e \in saved.trail : Tells(e, S)
  BY <1>8, <1>9, <1>10, SaveTells
<1>12. Readable(saved.device) /\ Chosen(saved.device) = saved.store.metadata
  BY <1>8, <1>9, <1>10, SaveEnds
<1>13. /\ Sound(saved) /\ saved.device.openFiles = t.device.openFiles
       /\ saved.store.file = m.store.file /\ saved.store.open
       /\ saved.store.uncommitted = 0
       /\ saved.store.metadata.kind = "vfs" /\ saved.store.metadata.name = path
  BY <1>7, <1>8, SaveFields DEF Alike
<1> HIDE DEF saved
<1>14. /\ Sound(moved) /\ moved.store = saved.store
       /\ moved.device = [saved.device EXCEPT !.data = <<>>]
       /\ \A e \in moved.trail :
             \/ e \in saved.trail
             \/ /\ e.slots = saved.device.slots /\ e.files = saved.device.files
                /\ e.exists = saved.device.exists
  BY <1>13, RemoveRecordsSound
<1>15. /\ moved.device.slots = saved.device.slots /\ moved.device.files = saved.device.files
       /\ moved.device.exists = saved.device.exists
       /\ moved.device.openFiles = saved.device.openFiles
  BY <1>13, <1>14, SoundTypes DEF Device
<1> HIDE DEF moved
<1>16. \A e : /\ e.slots = saved.device.slots /\ e.files = saved.device.files
              /\ e.exists = saved.device.exists
              => Tells(e, S) /\ Chosen(e) = Chosen(saved.device)
  <2> TAKE e
  <2> HAVE /\ e.slots = saved.device.slots /\ e.files = saved.device.files
           /\ e.exists = saved.device.exists
  <2>1. Backed(e, Chosen(saved.device))
    BY <1>11, <1>12, <1>13 DEF Tells, Whole, Backed, DataOf, Content
  <2> QED
    BY <1>11, <2>1, OutsideTells
<1>17. Closing(moved, S)
  <2>1. Tells(moved.device, S) /\ \A e \in moved.trail : Tells(e, S)
    BY <1>11, <1>14, <1>15, <1>16
  <2>2. Chosen(moved.device).name = path
    BY <1>12, <1>13, <1>15, <1>16
  <2>3. moved.device.openFiles = m.device.openFiles \ {path}
    BY <1>5, <1>8, <1>13, <1>15
  <2>4. moved.store.file = m.store.file
    BY <1>13, <1>14
  <2> QED
    BY <1>1, <1>14, <2>1, <2>2, <2>3, <2>4 DEF Closing, FilesKept
<1>18. Flush(moved) = moved /\ moved.store.open
  BY <1>13, <1>14 DEF Flush
<1>19. q = Close(moved)
  BY DEF moved, saved, t
<1> QED
  BY <1>14, <1>17, <1>18, <1>19, CloseSettles

(* An export leaves the rest of the store as it was.                        *)
LEMMA ExportedStore ==
    ASSUME NEW m, Sound(m), NEW written, NEW named, NEW copied,
           ExportedBy(m, written, named, copied),
           NEW x, x.store = named.store
    PROVE  /\ x.store.open = m.store.open /\ x.store.uncommitted = m.store.uncommitted
           /\ x.store.file = m.store.file
<1> DEFINE text == [m.store.metadata EXCEPT !.path = m.store.metadata.name]
<1>1. named.store = WithMeta(m, text).store
  BY Zenon DEF ExportedBy
<1>2. m.store \in LooseStore
  BY SoundTypes
<1> HIDE DEF text
<1>3. WithMeta(m, text).store = [m.store EXCEPT !.metadata = text]
  BY DEF WithMeta, Sound, OpValue
<1> QED
  BY <1>1, <1>2, <1>3 DEF LooseStore

LEMMA ExportTells ==
    ASSUME NEW d, DeviceOK(d), Whole(d), Rest(d), Readable(d),
           NEW S, Shown(d) \in S,
           NEW written \in 0..Chosen(d).downloaded,
           NEW q, q = ExportToVfs(d, written)
    PROVE  Sound(q) /\ Tells(q.device, S) /\ Rest(q.device) /\ \A e \in q.trail : Tells(e, S)
<1> DEFINE m == Open(d)
           path == m.store.metadata.name
<1>1. /\ Sound(m)
      /\ \A e \in m.trail : Tells(e, S)
      /\ m.error = "Ok" => Running(m, S) /\ m.store.uncommitted = 0
      /\ m.error # "Ok" => Tells(m.device, S) /\ Rest(m.device)
  BY OpenTells
<1>2. Loads(d)
  BY WholeLoads
<1>3. \/ ~Succeeded(m) /\ q = [m EXCEPT !.store = ClosedStore]
      \/ Succeeded(m) /\ m.store.metadata.kind = "vfs" /\ q = Close(m)
      \/ /\ Succeeded(m) /\ m.store.metadata.kind = "database"
         /\ m.store.metadata.downloaded = Chosen(d).downloaded
         /\ \E named, copied :
               /\ ExportedBy(m, written, named, copied)
               /\ \/ q = Fail(Close(m), "NoVolume")
                  \/ q = Fail(Close(named), "FileBusy")
                  \/ q = Fail(Close(DeleteFile(copied, path)), "FileEOF")
                  \/ /\ ~(written < m.store.metadata.downloaded)
                     /\ q = Close(RemoveRecords(SaveMetadata(Turned(copied))))
  BY <1>2, ExportSteps
<1> HIDE DEF m
<1>4. CASE ~Succeeded(m) /\ q = [m EXCEPT !.store = ClosedStore]
  <2>1. Ended(q)
    BY <1>1, <1>4, DroppedEnds
  <2>2. q.device = m.device /\ q.trail = m.trail
    BY <1>1, <1>4 DEF Sound, OpValue
  <2> QED
    BY <1>1, <1>4, <2>1, <2>2 DEF Ended, Succeeded
<1>5. CASE Succeeded(m) /\ m.store.metadata.kind = "vfs" /\ q = Close(m)
  <2>1. Running(m, S) /\ Flush(m) = m /\ m.store.open
    BY <1>1, <1>5 DEF Flush, Running, Writable, Succeeded
  <2>2. Settled(q, S)
    BY <1>1, <1>5, <2>1, RunningCloses, CloseSettles
  <2> QED
    BY <2>2 DEF Settled, Ended
<1>6. CASE /\ Succeeded(m) /\ m.store.metadata.kind = "database"
           /\ m.store.metadata.downloaded = Chosen(d).downloaded
           /\ \E named, copied :
                 /\ ExportedBy(m, written, named, copied)
                 /\ \/ q = Fail(Close(m), "NoVolume")
                    \/ q = Fail(Close(named), "FileBusy")
                    \/ q = Fail(Close(DeleteFile(copied, path)), "FileEOF")
                    \/ /\ ~(written < m.store.metadata.downloaded)
                       /\ q = Close(RemoveRecords(SaveMetadata(Turned(copied))))
  <2>1. PICK named, copied :
            /\ ExportedBy(m, written, named, copied)
            /\ \/ q = Fail(Close(m), "NoVolume")
               \/ q = Fail(Close(named), "FileBusy")
               \/ q = Fail(Close(DeleteFile(copied, path)), "FileEOF")
               \/ /\ ~(written < m.store.metadata.downloaded)
                  /\ q = Close(RemoveRecords(SaveMetadata(Turned(copied))))
    BY <1>6
  <2>2. /\ Running(m, S) /\ m.store.uncommitted = 0 /\ m.store.metadata.kind = "database"
        /\ m.store.open /\ Flush(m) = m /\ path \in FileNames
    BY <1>1, <1>6, SoundTypes DEF Flush, Running, Writable, Succeeded
  <2>3. /\ Sound(named) /\ Sound(copied) /\ copied.store = named.store
        /\ Aside(named.device, m.device) /\ named.device.openFiles = m.device.openFiles
        /\ \A e \in named.trail : e \in m.trail \/ Aside(e, m.device)
        /\ Aside(copied.device, m.device)
        /\ copied.device.openFiles \subseteq m.device.openFiles
        /\ \A e \in copied.trail : e \in m.trail \/ Aside(e, m.device)
    BY <2>1 DEF ExportedBy
  <2>4. /\ named.store.open /\ named.store.uncommitted = 0
        /\ named.store.file = m.store.file
    BY <1>1, <2>1, <2>2, ExportedStore
  <2>5. {"NoVolume", "FileBusy", "FileEOF"} \subseteq Errors
    BY DEF Errors
  <2>6. CASE q = Fail(Close(m), "NoVolume")
    <3>1. Settled(Close(m), S)
      BY <1>1, <2>2, RunningCloses, CloseSettles
    <3>2. Settled(q, S)
      BY <2>5, <2>6, <3>1, FailSettles
    <3> QED
      BY <3>2 DEF Settled, Ended
  <2>7. CASE q = Fail(Close(named), "FileBusy")
    <3>1. Settled(Close(named), S)
      BY <2>2, <2>3, <2>4, AsideCloses
    <3>2. Settled(q, S)
      BY <2>5, <2>7, <3>1, FailSettles
    <3> QED
      BY <3>2 DEF Settled, Ended
  <2>8. CASE q = Fail(Close(DeleteFile(copied, path)), "FileEOF")
    <3> DEFINE x == DeleteFile(copied, path)
    <3>1. /\ Sound(x) /\ x.store = copied.store
          /\ Aside(x.device, copied.device) /\ x.device.openFiles = copied.device.openFiles
          /\ x.trail \subseteq copied.trail \cup {x.device}
      BY <2>2, <2>3, DeleteFileAside
    <3>2. q = Fail(Close(x), "FileEOF")
      BY <2>8
    <3> HIDE DEF x
    <3>3. Aside(x.device, m.device)
      BY <2>3, <3>1 DEF Aside
    <3>4. /\ x.store.open /\ x.store.uncommitted = 0 /\ x.store.file = m.store.file
          /\ x.device.openFiles \subseteq m.device.openFiles
          /\ \A e \in x.trail : e \in m.trail \/ Aside(e, m.device)
      BY <2>3, <2>4, <3>1, <3>3
    <3>5. Settled(Close(x), S)
      BY <2>2, <3>1, <3>3, <3>4, AsideCloses
    <3>6. Settled(q, S)
      BY <2>5, <3>2, <3>5, FailSettles
    <3> QED
      BY <3>6 DEF Settled, Ended
  <2>9. CASE /\ ~(written < m.store.metadata.downloaded)
             /\ q = Close(RemoveRecords(SaveMetadata(Turned(copied))))
    <3>1. written = m.store.metadata.downloaded
      <4>1. Chosen(d).downloaded \in Nat
        BY ChosenFacts DEF Metadata
      <4> QED
        BY <1>6, <2>9, <4>1
    <3>2. Settled(q, S)
      BY <2>1, <2>2, <2>9, <3>1, MovedSettles
    <3> QED
      BY <3>2 DEF Settled, Ended
  <2> QED
    BY <2>1, <2>6, <2>7, <2>8, <2>9
<1> QED
  BY <1>3, <1>4, <1>5, <1>6

LEMMA ExportCalmly ==
    ASSUME Consistent, Calmly, Export
    PROVE  Calmly' /\ Unchanged
<1> DEFINE S == {Shown(device)}
<1>1. DeviceOK(device) /\ Whole(device) /\ Rest(device) /\ Shown(device) \in S
  BY DEF Consistent, Calmly, Export, Idle
<1>2. Readable(device)
  BY <1>1, ListedLoads DEF Export, Loads
<1>3. Chosen(device).downloaded \in Nat
  BY <1>1, <1>2, ChosenFacts DEF Metadata
<1>4. PICK written \in 0..Chosen(device).downloaded :
          Runs("ExportToVfs", ExportToVfs(device, written), Idle)
  BY <1>3 DEF Export
<1> DEFINE q == ExportToVfs(device, written)
<1> HIDE DEF S
<1>5. Sound(q) /\ Tells(q.device, S) /\ Rest(q.device) /\ \A e \in q.trail : Tells(e, S)
  BY <1>1, <1>2, ExportTells
<1>6. Runs("ExportToVfs", q, Idle)
  BY <1>4
<1> HIDE DEF q
<1>7. Way("ExportToVfs", q, S)
  BY <1>5 DEF Way
<1>8. Calmly' /\ Shown(device') \in S
  BY <1>5, <1>6, <1>7, EndsCalmly
<1> QED
  BY <1>8 DEF S, Unchanged

-----------------------------------------------------------------------------
(* The store always opens, and a delete leaves nothing.                     *)

LEMMA StutterCalmly == Calmly /\ UNCHANGED vars => Calmly'
<1> SUFFICES ASSUME Calmly, UNCHANGED vars
             PROVE  Calmly'
  OBVIOUS
<1>1. device' = device /\ store' = store /\ job' = job
  BY DEF vars
<1>2. /\ Whole(device') /\ (Rest(device) => Rest(device'))
      /\ Kept(device, store) => Kept(device', store')
  <2>1. Whole(device)
    BY DEF Calmly
  <2> QED
    BY <1>1, <2>1, Zenon
<1> QED
  BY <1>1, <1>2 DEF Calmly

LEMMA NextCalmly ==
    ASSUME Calm, Consistent, Calmly, Next
    PROVE  Calmly'
<1>1. "NoRecord" \notin Faults
  BY DEF Calm
<1> QED
  BY <1>1, StartCalmly, RespondCalmly, ReceiveCalmly, FinalizeCalmly, AbandonCalmly,
     DeleteCalmly, ExportCalmly, MoveCardCalmly, ResetCalmly DEF Next

(* The record that an opening would choose is always backed by the data it  *)
(* counts (DownloadStoreOpen, LoadMetadata and VerifyStoredData).           *)
THEOREM AlwaysCalm ==
    ASSUME Calm
    PROVE  Spec => []Calmly
<1>1. Calmly /\ Consistent /\ [Next]_vars => Calmly'
  BY NextCalmly, StutterCalmly
<1>2. Init => Calmly
  BY InitCalmly
<1> QED
  BY <1>1, <1>2, AlwaysConsistent, PTL DEF Spec

(* DownloadStoreOpen: whatever has happened, the store can be opened again. *)
THEOREM StoreAlwaysOpens ==
    ASSUME Calm
    PROVE  Spec => []AlwaysOpens
<1>1. Consistent /\ Calmly => AlwaysOpens
  BY WholeUsable DEF Consistent, Calmly, AlwaysOpens
<1> QED
  BY <1>1, AlwaysConsistent, AlwaysCalm, PTL

(* Only a delete replies as one.                                            *)
LEMMA DeletesReply ==
    ASSUME Next, reply'.op \in Deletes
    PROVE  Delete
<1>1. ASSUME NEW op, NEW m, NEW next, Runs(op, m, next), op \notin Deletes
      PROVE  FALSE
  BY <1>1 DEF Runs, Deletes
<1>2. ~DownloadStart
  <2> DEFINE m == Open(device)
             dropped == [m EXCEPT !.store = ClosedStore]
             next == [stage |-> "request", left |-> <<>>]
  <2>1. DownloadStart => \/ Runs("Open", dropped, Idle)
                         \/ Runs("Open", Close(m), Idle)
                         \/ Runs("Open", m, next)
    BY DEF DownloadStart
  <2> HIDE DEF m, dropped, next
  <2> QED
    BY <1>1, <2>1 DEF Deletes
<1>3. ~Respond
  <2> SUFFICES ASSUME NEW m, NEW next,
                      \/ Runs("AcceptResponse", m, next)
                      \/ Runs("AcceptResponse", JobFinish(m), Idle)
               PROVE  FALSE
    BY DEF Respond
  <2> QED
    BY <1>1 DEF Deletes
<1>4. ~Receive
  <2> SUFFICES ASSUME NEW m, NEW next,
                      \/ Runs("Append", m, next)
                      \/ Runs("Append", JobFinish(m), Idle)
               PROVE  FALSE
    BY DEF Receive
  <2> QED
    BY <1>1 DEF Deletes
<1>5. ~Finalize /\ ~Abandon
  BY <1>1 DEF Finalize, Abandon, Deletes
<1>6. ~Export
  BY <1>1 DEF Export, Deletes
<1>7. ~MoveCard /\ ~Reset
  BY DEF MoveCard, Reset, Deletes
<1> QED
  BY <1>2, <1>3, <1>4, <1>5, <1>6, <1>7 DEF Next

(* DownloadStoreDeleteUrl and main.c's delete, once they report success     *)
(* with the card in the slot, leave neither the database nor the file that  *)
(* held the data.                                                           *)
THEOREM DeleteLeavesNothingBehind ==
    ASSUME Calm
    PROVE  Spec => DeleteLeavesNothing
<1> DEFINE Left == (reply'.op \in Deletes /\ reply'.error = "Ok" /\ device.card) =>
                       /\ ~device'.exists
                       /\ (Listed /\ Chosen(device).kind = "vfs") =>
                              device'.files[Chosen(device).name] = None
<1>1. Consistent /\ Calmly /\ Next => Left
  BY DeletesReply, DeleteCalmly
<1>2. Consistent /\ Calmly /\ [Next]_vars => [Left]_vars
  BY <1>1
<1>3. Spec => [][Left]_vars
  BY <1>2, AlwaysConsistent, AlwaysCalm, PTL DEF Spec
<1> QED
  BY <1>3 DEF DeleteLeavesNothing

-----------------------------------------------------------------------------
(* The store implements DownloadFile.                                       *)

(* What a step may make of the file.                                        *)
Grows(f, g) ==
    /\ f.present = TRUE /\ g.present = TRUE /\ f.complete = FALSE
    /\ \E v \in Versions :
          /\ f.content = File!Beginning(v, Len(f.content))
          /\ \E n \in Len(f.content)..Length[v] :
                /\ g.content = File!Beginning(v, n)
                /\ g.complete \in {FALSE, n = Length[v]}

Changes(f, g) ==
    \/ g = f
    \/ /\ f.present = FALSE /\ g.present = TRUE
       /\ g.content = f.content /\ g.complete = f.complete
    \/ Grows(f, g)
    \/ /\ f.present = TRUE /\ f.complete = FALSE
       /\ g.present = TRUE /\ g.content = <<>> /\ g.complete = FALSE
    \/ g = Nothing

LEMMA ChangesFile ==
    ASSUME Changes(file, file')
    PROVE  [File!Next]_(File!vars)
<1>1. CASE file' = file
  BY <1>1 DEF File!vars
<1>2. CASE /\ file.present = FALSE /\ file'.present = TRUE
           /\ file'.content = file.content /\ file'.complete = file.complete
  BY <1>2 DEF File!Next, File!Create
<1>3. CASE Grows(file, file')
  BY <1>3 DEF File!Next, File!Grow, Grows
<1>4. CASE /\ file.present = TRUE /\ file.complete = FALSE
           /\ file'.present = TRUE /\ file'.content = <<>> /\ file'.complete = FALSE
  BY <1>4 DEF File!Next, File!StartAgain
<1>5. CASE file' = Nothing
  BY <1>5 DEF File!Next, File!Delete, Nothing
<1> QED
  BY <1>1, <1>2, <1>3, <1>4, <1>5 DEF Changes

LEMMA BeginningIs ==
    ASSUME NEW v \in Versions, NEW s \in Seq(Units), IsBeginning(s, v)
    PROVE  s = File!Beginning(v, Len(s)) /\ Len(s) \in 0..Length[v]
<1>1. /\ Version(v) \in Seq(Units) /\ Len(Version(v)) = Length[v] /\ Length[v] \in Nat
      /\ Len(s) \in Nat /\ Len(s) \in 0..Length[v]
  BY VersionSeq, LenProperties DEF IsBeginning
<1>2. \A i \in 1..Len(s) : s[i] = <<v, i>>
  <2>1. \A i \in 1..Len(s) : Take(Version(v), Len(s))[i] = Version(v)[i]
    <3> DEFINE w == Version(v)
               n == Len(s)
    <3>1. w \in Seq(Units) /\ n \in 0..Len(w)
      BY <1>1
    <3> HIDE DEF w, n
    <3>2. \A i \in 1..n : Take(w, n)[i] = w[i]
      BY <3>1, TakeSeq
    <3> QED
      BY <3>2 DEF w, n
  <2>2. s = Take(Version(v), Len(s))
    BY DEF IsBeginning
  <2>3. \A i \in 1..Len(s) : Version(v)[i] = <<v, i>>
    BY <1>1 DEF Version
  <2> QED
    BY <2>1, <2>2, <2>3
<1>3. s = [i \in 1..Len(s) |-> s[i]]
  BY LenProperties
<1> QED
  BY <1>1, <1>2, <1>3 DEF File!Beginning

LEMMA GrowsTo ==
    ASSUME NEW v \in Versions,
           NEW s \in Seq(Units), IsBeginning(s, v),
           NEW t \in Seq(Units), IsBeginning(t, v), Len(s) <= Len(t),
           NEW f, f.present = TRUE, f.content = s, f.complete = FALSE,
           NEW g, g.present = TRUE, g.content = t, g.complete \in BOOLEAN,
           g.complete => t = Version(v)
    PROVE  Grows(f, g)
<1>1. /\ s = File!Beginning(v, Len(s)) /\ t = File!Beginning(v, Len(t))
      /\ Len(s) \in 0..Length[v] /\ Len(t) \in 0..Length[v]
  BY BeginningIs
<1>2. g.complete => Len(t) = Length[v]
  BY VersionSeq
<1>3. Len(t) \in Len(s)..Length[v] /\ g.complete \in {FALSE, Len(t) = Length[v]}
  <2>1. Len(t) \in Len(s)..Length[v]
    BY <1>1, VersionSeq
  <2>2. CASE g.complete
    BY <1>2, <2>1, <2>2
  <2>3. CASE ~g.complete
    BY <2>1, <2>3
  <2> QED
    BY <2>2, <2>3
<1> QED
  BY <1>1, <1>3 DEF Grows

(* While a download runs, the device shows the beginning of what the store  *)
(* holds, up to the last commit.                                            *)
LEMMA ShownBehind ==
    ASSUME Truthful, Consistent, Calmly, job.stage # "idle"
    PROVE  /\ Shown(device) = [present |-> TRUE, content |-> Chosen(device).sum,
                               complete |-> Vouched(store.metadata)]
           /\ store.metadata.sum \in Seq(Units) /\ Chosen(device).sum \in Seq(Units)
           /\ Len(Chosen(device).sum) <= Len(store.metadata.sum)
           /\ Chosen(device).sum = Take(store.metadata.sum, Len(Chosen(device).sum))
           /\ Vouched(store.metadata) => Chosen(device).sum = store.metadata.sum
<1> DEFINE meta == store.metadata
           c == Chosen(device)
<1>1. /\ Kept(device, store) /\ Committed(device, store) /\ Sized(device, store)
      /\ DeviceOK(device) /\ meta \in Metadata /\ IsTrue(meta)
      /\ store.uncommitted \in Nat
  BY DEF Calmly, Consistent, Ready, MetaOK, TypeOK, Store
<1>2. /\ meta.generation \in Nat /\ meta.downloaded \in Nat /\ meta.sum \in Seq(Units)
      /\ meta.complete \in BOOLEAN
  BY <1>1 DEF Metadata
<1>3. Readable(device) /\ c = Last(device, store)
  BY <1>1, <1>2, LastIsChosen DEF Committed, Kept
<1>4. c \in Metadata /\ c.downloaded \in Nat /\ MetaOK(c)
  BY <1>1, <1>3, ChosenFacts DEF Metadata
<1>5. /\ c.sum \in Seq(Units) /\ IsTrue(c)
  BY <1>4 DEF MetaOK, Metadata
<1>6. /\ c.downloaded = Len(c.sum) /\ c.downloaded <= meta.downloaded
      /\ meta.downloaded = Len(meta.sum)
  BY <1>1, <1>2, <1>3, <1>4 DEF Committed, Sized
<1>7. /\ c.sum = Take(meta.sum, c.downloaded) /\ Vouched(c) = Vouched(meta)
      /\ c.validator = meta.validator
  BY <1>1, <1>3 DEF Kept, Agrees, Vouched
<1>8. Vouched(meta) => c.sum = meta.sum
  BY <1>1, <1>5, <1>7 DEF IsTrue
<1>9. device.exists = TRUE
  BY <1>1 DEF DeviceOK, Device, Kept
<1>10. (Readable(device) /\ Vouched(c)) = Vouched(meta)
  BY <1>3, <1>7 DEF Vouched
<1> HIDE DEF meta, c
<1>11. Shown(device) = [present |-> TRUE, content |-> c.sum, complete |-> Vouched(meta)]
  BY <1>3, <1>9, <1>10 DEF Shown, c
<1> QED
  BY <1>2, <1>5, <1>6, <1>7, <1>8, <1>11 DEF meta, c

(* So what it shows after going on with the same version is grown.          *)
LEMMA OnwardGrows ==
    ASSUME Truthful, Consistent, Calmly, job.stage # "idle", ~Vouched(store.metadata),
           NEW v \in Versions, IsBeginning(store.metadata.sum, v),
           NEW t \in Seq(Units), IsBeginning(t, v), Len(store.metadata.sum) <= Len(t),
           NEW g, g.present = TRUE, g.content = t, g.complete \in BOOLEAN,
           g.complete => t = Version(v)
    PROVE  Grows(Shown(device), g)
<1> DEFINE s == Chosen(device).sum
           sum == store.metadata.sum
           f == Shown(device)
<1>1. /\ f.present = TRUE /\ f.content = s /\ f.complete = FALSE
      /\ sum \in Seq(Units) /\ s \in Seq(Units) /\ Len(s) <= Len(sum)
      /\ s = Take(sum, Len(s))
  <2>1. Vouched(store.metadata) = FALSE
    BY DEF Vouched
  <2> QED
    BY <2>1, ShownBehind
<1> HIDE DEF s, f, sum
<1>2. IsBeginning(sum, v) /\ Len(sum) <= Len(t)
  BY DEF sum
<1>3. Len(s) \in Nat /\ Len(sum) \in Nat /\ Len(t) \in Nat /\ Length[v] \in Nat
  BY <1>1, VersionSeq, LenProperties
<1>4. IsBeginning(s, v)
  <2>1. sum = Take(Version(v), Len(sum)) /\ Len(sum) <= Length[v]
    BY <1>2 DEF IsBeginning
  <2>2. Version(v) \in Seq(Units) /\ Len(Version(v)) = Length[v]
    BY VersionSeq
  <2>3. Take(sum, Len(sum)) = sum
    BY <1>1, SubSeqFull DEF Take
  <2>4. Len(sum) <= Len(Version(v)) /\ Len(s) \in 0..Len(sum)
    BY <1>1, <1>3, <2>1, <2>2
  <2>5. Take(sum, Len(s)) = Take(Version(v), Len(s))
    <3> DEFINE w == Version(v)
               n == Len(sum)
    <3>1. w \in Seq(Units) /\ n <= Len(w) /\ Take(sum, n) = Take(w, n) /\ Len(s) \in 0..n
      BY <2>1, <2>2, <2>3, <2>4
    <3> HIDE DEF w
    <3>2. Take(sum, Len(s)) = Take(w, Len(s))
      BY <1>1, <1>3, <3>1, TakeOfTake
    <3> QED
      BY <3>2 DEF w
  <2>6. Len(s) <= Length[v]
    BY <1>1, <1>3, <2>1
  <2> QED
    BY <1>1, <2>5, <2>6 DEF IsBeginning
<1>5. Len(s) <= Len(t)
  BY <1>1, <1>2, <1>3
<1>6. Grows(f, g)
  BY <1>1, <1>4, <1>5, GrowsTo
<1> QED
  BY <1>6 DEF f

(* What the store holds is the beginning of a version.                      *)
LEMMA HeldBegins ==
    ASSUME Truthful, Consistent
    PROVE  \E v \in Versions : IsBeginning(store.metadata.sum, v)
<1>1. IsTrue(store.metadata)
  BY DEF Consistent, MetaOK
<1>2. CASE store.metadata.sum = <<>>
  BY <1>2, EmptyBeginning, StoreAssumption DEF StoreAssumption
<1>3. CASE store.metadata.sum # <<>>
  BY <1>1, <1>3 DEF IsTrue
<1> QED
  BY <1>2, <1>3

LEMMA CommitChanges ==
    ASSUME Truthful, Consistent, Calmly, job.stage # "idle",
           Shown(device') = FileOf(store.metadata)
    PROVE  Changes(Shown(device), Shown(device'))
<1> DEFINE g == Shown(device')
           sum == store.metadata.sum
<1>1. g.present = TRUE /\ g.content = sum /\ g.complete = Vouched(store.metadata)
  BY DEF FileOf
<1>2. sum \in Seq(Units) /\ Vouched(store.metadata) \in BOOLEAN
  BY ShownBehind DEF Vouched
<1>3. CASE Vouched(store.metadata)
  BY <1>3, ShownBehind DEF FileOf, Changes
<1>4. CASE ~Vouched(store.metadata)
  <2>1. PICK v \in Versions : IsBeginning(sum, v)
    BY HeldBegins
  <2>2. Len(sum) <= Len(sum)
    BY <1>2, LenProperties
  <2> HIDE DEF g
  <2>3. Grows(Shown(device), g)
    BY <1>1, <1>2, <1>4, <2>1, <2>2, OnwardGrows
  <2> QED
    BY <2>3 DEF Changes, g
<1> QED
  BY <1>3, <1>4

(* What a device says is complete is a whole version.                       *)
LEMMA ShownWhole ==
    ASSUME Truthful, NEW d, DeviceOK(d), Shown(d).complete
    PROVE  \E v \in Versions : Shown(d).content = Version(v)
<1>1. Readable(d) /\ Vouched(Chosen(d)) /\ Shown(d).content = Chosen(d).sum
  BY DEF Shown
<1>2. IsTrue(Chosen(d))
  BY <1>1, ChosenFacts DEF MetaOK
<1> QED
  BY <1>1, <1>2 DEF IsTrue

(* What the store holds is committed, and said to be complete or not.       *)
LEMMA WholeChanges ==
    ASSUME Truthful, Consistent, Calmly, job.stage # "idle", DeviceOK(device'),
           NEW b \in BOOLEAN, Vouched(store.metadata) => b,
           Shown(device') = [present |-> TRUE, content |-> store.metadata.sum,
                             complete |-> b]
    PROVE  Changes(Shown(device), Shown(device'))
<1> DEFINE g == Shown(device')
           sum == store.metadata.sum
<1>1. sum \in Seq(Units) /\ Vouched(store.metadata) \in BOOLEAN
  BY ShownBehind DEF Vouched
<1>2. g.present = TRUE /\ g.content = sum /\ g.complete = b
  OBVIOUS
<1>3. CASE Vouched(store.metadata)
  <2>1. Vouched(store.metadata) = TRUE /\ b = TRUE
    BY <1>1, <1>3
  <2>2. Shown(device) = [present |-> TRUE, content |-> sum, complete |-> TRUE]
    BY <1>3, <2>1, ShownBehind
  <2> QED
    BY <2>1, <2>2 DEF Changes
<1>4. CASE ~Vouched(store.metadata)
  <2>1. PICK v \in Versions : IsBeginning(sum, v) /\ (b => sum = Version(v))
    <3>1. CASE b
      <4>1. PICK v \in Versions : g.content = Version(v)
        BY <1>2, <3>1, ShownWhole
      <4> QED
        BY <1>2, <4>1, WholeIsBeginning
    <3>2. CASE ~b
      BY <3>2, HeldBegins
    <3> QED
      BY <3>1, <3>2
  <2>2. Len(sum) <= Len(sum)
    BY <1>1, LenProperties
  <2> HIDE DEF g
  <2>3. Grows(Shown(device), g)
    BY <1>1, <1>2, <1>4, <2>1, <2>2, OnwardGrows
  <2> QED
    BY <2>3 DEF Changes, g
<1> QED
  BY <1>3, <1>4

LEMMA StartChanges ==
    ASSUME Consistent, Calmly, DownloadStart
    PROVE  Changes(Shown(device), Shown(device'))
<1>1. Unchanged \/ (~Readable(device) /\ Shown(device') = FileOf(ZeroMetadata))
  BY StartCalmly
<1>2. CASE Unchanged
  BY <1>2 DEF Unchanged, Changes
<1>3. CASE ~Readable(device) /\ Shown(device') = FileOf(ZeroMetadata)
  <2>1. Shown(device') = [present |-> TRUE, content |-> <<>>, complete |-> FALSE]
    BY <1>3 DEF FileOf, ZeroMetadata, Vouched
  <2>2. Shown(device) = [present |-> device.exists, content |-> <<>>, complete |-> FALSE]
    <3>1. (Readable(device) /\ Vouched(Chosen(device))) = FALSE
      BY <1>3
    <3> QED
      BY <1>3, <3>1 DEF Shown
  <2>3. device.exists \in BOOLEAN
    BY DEF Consistent, TypeOK, Device
  <2>4. CASE device.exists = TRUE
    BY <2>1, <2>2, <2>4 DEF Changes
  <2>5. CASE device.exists = FALSE
    BY <2>1, <2>2, <2>5 DEF Changes
  <2> QED
    BY <2>3, <2>4, <2>5
<1> QED
  BY <1>1, <1>2, <1>3

LEMMA RespondChanges ==
    ASSUME Truthful, Calm, Consistent, Calmly, Respond, DeviceOK(device')
    PROVE  Changes(Shown(device), Shown(device'))
<1> DEFINE meta == store.metadata
<1>1. \/ Unchanged
      \/ \E r \in Responses(meta) : Accepted(meta, r, device')
  BY RespondCalmly
<1>2. /\ job.stage = "request" /\ ~meta.complete /\ store.uncommitted = 0
      /\ MetaOK(meta) /\ meta.downloaded = Len(meta.sum)
  BY DEF Respond, Consistent, Calmly, Ready, Sized
<1>3. /\ Shown(device) = FileOf(meta) /\ Vouched(meta) = FALSE
  <2>1. Shown(device) = FileOf(meta)
    BY <1>2, CommittedShown
  <2> QED
    BY <1>2, <2>1 DEF Vouched
<1>4. CASE Unchanged
  BY <1>4 DEF Unchanged, Changes
<1>5. CASE \E r \in Responses(meta) : Accepted(meta, r, device')
  <2>1. PICK r \in Responses(meta) : Accepted(meta, r, device')
    BY <1>5
  <2>2. CASE Shown(device') = [present |-> TRUE, content |-> meta.sum, complete |-> TRUE]
    BY <1>2, <2>2, WholeChanges
  <2>3. CASE Shown(device') = [present |-> TRUE, content |-> <<>>, complete |-> FALSE]
    BY <1>3, <2>3 DEF Changes, FileOf
  <2>4. CASE Shown(device') = [present |-> TRUE, content |-> meta.sum, complete |-> FALSE]
    BY <1>3, <2>4 DEF Changes, FileOf
  <2> QED
    BY <2>1, <2>2, <2>3, <2>4 DEF Accepted
<1> QED
  BY <1>1, <1>4, <1>5

LEMMA ReceiveChanges ==
    ASSUME Truthful, Calm, Consistent, Calmly, Receive
    PROVE  Changes(Shown(device), Shown(device'))
<1> DEFINE meta == store.metadata
           v == meta.validator
           sum == meta.sum
<1>1. \/ Unchanged
      \/ Shown(device') = FileOf(meta)
      \/ \E n \in 1..Len(job.left) : Shown(device') = FileOf(Grown(meta, Take(job.left, n)))
  BY ReceiveCalmly DEF Calm
<1>2. /\ job.stage # "idle" /\ meta \in Metadata /\ IsTrue(meta)
      /\ job.left \in Seq(Units) /\ v \in Versions /\ sum \o job.left = Version(v)
  BY DEF Receive, Receiving, Consistent, TypeOK, MetaOK
<1>3. CASE Unchanged
  BY <1>3 DEF Unchanged, Changes
<1>4. CASE Shown(device') = FileOf(meta)
  BY <1>2, <1>4, CommitChanges
<1>5. CASE \E n \in 1..Len(job.left) : Shown(device') = FileOf(Grown(meta, Take(job.left, n)))
  <2>1. PICK n \in 1..Len(job.left) : Shown(device') = FileOf(Grown(meta, Take(job.left, n)))
    BY <1>5
  <2> DEFINE units == Take(job.left, n)
             rest == Drop(job.left, n)
             t == sum \o units
             g == Shown(device')
  <2>2. sum \in Seq(Units) /\ Len(sum) \in Nat /\ Len(job.left) \in Nat
    BY <1>2, LenProperties DEF Metadata
  <2>3. /\ units \in Seq(Units) /\ rest \in Seq(Units) /\ units \o rest = job.left
    <3> DEFINE left == job.left
    <3>1. left \in Seq(Units) /\ n \in 0..Len(left) /\ n \in Nat
      BY <1>2, <2>2
    <3> HIDE DEF left
    <3>2. /\ Take(left, n) \in Seq(Units) /\ Drop(left, n) \in Seq(Units)
          /\ Take(left, n) \o Drop(left, n) = left
      BY <3>1, TakeSeq, DropSeq, TakeDrop
    <3> QED
      BY <3>2 DEF left
  <2>4. g = [present |-> TRUE, content |-> t, complete |-> Vouched(meta)]
    <3> HIDE DEF units
    <3> QED
      BY <1>2, <2>1 DEF FileOf, Grown, Metadata, Vouched, units
  <2> HIDE DEF units, rest, g
  <2>5. IsBeginning(sum, v)
    BY <1>2, <2>2, BeginningOf
  <2>6. /\ t \in Seq(Units) /\ IsBeginning(t, v) /\ Len(sum) <= Len(t)
    <3>1. t \in Seq(Units) /\ Len(t) = Len(sum) + Len(units) /\ Len(units) \in Nat
      BY <2>2, <2>3, ConcatProperties, LenProperties
    <3>2. t \o rest = Version(v)
      <4>1. (sum \o units) \o rest = sum \o (units \o rest)
        <5>1. sum \in Seq(Units) /\ units \in Seq(Units) /\ rest \in Seq(Units)
          BY <2>2, <2>3
        <5> HIDE DEF sum
        <5> QED
          BY <5>1, ConcatAssociative
      <4> QED
        BY <1>2, <2>3, <4>1
    <3>3. v \in Versions /\ rest \in Seq(Units)
      BY <1>2, <2>3
    <3> HIDE DEF t, v
    <3>4. IsBeginning(t, v)
      BY <3>1, <3>2, <3>3, BeginningOf
    <3> QED
      BY <2>2, <3>1, <3>4
  <2>7. ~Vouched(meta)
    <3> SUFFICES ASSUME Vouched(meta) PROVE FALSE
      OBVIOUS
    <3>1. sum = Version(v)
      BY <1>2 DEF IsTrue
    <3>2. Len(sum \o job.left) = Len(sum) + Len(job.left)
      BY ZenonT(40), <1>2, <2>2, ConcatProperties
    <3>3. Len(sum) = Len(sum) + Len(job.left)
      BY <1>2, <3>1, <3>2
    <3>4. Len(job.left) # 0
      BY <2>1, <2>2
    <3> HIDE DEF sum
    <3> QED
      BY <2>2, <3>3, <3>4
  <2>8. g.present = TRUE /\ g.content = t /\ g.complete = FALSE
    BY <2>4, <2>7 DEF Vouched
  <2> HIDE DEF t
  <2>9. Grows(Shown(device), g)
    BY <1>2, <2>5, <2>6, <2>7, <2>8, OnwardGrows
  <2> QED
    BY <2>9 DEF Changes, g
<1> QED
  BY <1>1, <1>3, <1>4, <1>5

LEMMA FinalizeChanges ==
    ASSUME Truthful, Consistent, Calmly, Finalize, DeviceOK(device')
    PROVE  Changes(Shown(device), Shown(device'))
<1> DEFINE meta == store.metadata
<1>1. \/ Unchanged
      \/ Shown(device') = FileOf(meta)
      \/ Shown(device') = FileOf(Completed(meta))
  BY FinalizeCalmly
<1>2. job.stage # "idle" /\ meta \in Metadata
  BY DEF Finalize, Receiving, Consistent, MetaOK
<1>3. CASE Unchanged
  BY <1>3 DEF Unchanged, Changes
<1>4. CASE Shown(device') = FileOf(meta)
  BY <1>2, <1>4, CommitChanges
<1>5. CASE Shown(device') = FileOf(Completed(meta))
  <2>1. /\ Completed(meta).sum = meta.sum /\ Completed(meta).complete = TRUE
        /\ Completed(meta).stated = meta.stated
    BY <1>2 DEF Completed, Metadata
  <2>2. Shown(device') = [present |-> TRUE, content |-> meta.sum,
                          complete |-> Vouched(Completed(meta))]
    BY <1>5, <2>1 DEF FileOf
  <2>3. /\ Vouched(Completed(meta)) \in BOOLEAN
        /\ Vouched(meta) => Vouched(Completed(meta))
    BY <2>1 DEF Vouched
  <2> QED
    BY <1>2, <2>2, <2>3, WholeChanges
<1> QED
  BY <1>1, <1>3, <1>4, <1>5

LEMMA NextChanges ==
    ASSUME Truthful, Calm, Consistent, Calmly, Next
    PROVE  Changes(Shown(device), Shown(device'))
<1>0. DeviceOK(device')
  BY NextConsistent DEF Consistent
<1>1. CASE DownloadStart
  BY <1>1, StartChanges
<1>2. CASE Respond
  BY <1>0, <1>2, RespondChanges
<1>3. CASE Receive
  BY <1>3, ReceiveChanges
<1>4. CASE Finalize
  BY <1>0, <1>4, FinalizeChanges
<1>5. CASE Abandon
  <2>1. job.stage # "idle"
    BY <1>5 DEF Abandon
  <2>2. Unchanged \/ Shown(device') = FileOf(store.metadata)
    BY <1>5, AbandonCalmly
  <2> QED
    BY <2>1, <2>2, CommitChanges DEF Unchanged, Changes
<1>6. CASE Delete
  BY <1>6, DeleteCalmly DEF Unchanged, Changes
<1>7. CASE Export \/ MoveCard \/ Reset
  BY <1>7, ExportCalmly, MoveCardCalmly, ResetCalmly DEF Unchanged, Changes
<1> QED
  BY <1>1, <1>2, <1>3, <1>4, <1>5, <1>6, <1>7 DEF Next

(* The store keeps the promises of DownloadFile: what the next download     *)
(* would find is the beginning of one version, that grows or is started     *)
(* again, is complete - on the word of a response that gave its length or   *)
(* was chunked - only when whole and then stays until it is deleted, and    *)
(* never needs repair.                                                      *)
THEOREM StoreImplementsFile ==
    ASSUME Calm, ErrorPages \subseteq {<<>>}
    PROVE  FollowedSpec => FileSpec
<1> DEFINE Shows == Consistent /\ Calmly /\ file = Shown(device)
<1>1. Truthful
  BY DEF Truthful
<1>2. Consistent /\ Calmly => FileOn(device) = Shown(device)
  BY WholeUsable DEF Consistent, Calmly
<1>3. Init /\ file = FileOn(device) => Shows /\ File!Init
  <2> SUFFICES ASSUME Init, file = FileOn(device)
               PROVE  Shows /\ File!Init
    OBVIOUS
  <2>1. Consistent /\ Calmly /\ Shown(device) = Nothing
    BY InitConsistent, InitCalmly DEF Nothing
  <2> QED
    BY <1>2, <2>1 DEF File!Init, Nothing
<1>4. Shows /\ [Next /\ file' = FileOn(device')]_<<vars, file>> =>
          Shows' /\ [File!Next]_(File!vars)
  <2> SUFFICES ASSUME Shows, [Next /\ file' = FileOn(device')]_<<vars, file>>
               PROVE  Shows' /\ [File!Next]_(File!vars)
    OBVIOUS
  <2>1. CASE Next /\ file' = FileOn(device')
    <3>1. Consistent' /\ Calmly'
      BY <2>1, NextConsistent, NextCalmly
    <3>2. FileOn(device') = Shown(device')
      <4>1. DeviceOK(device') /\ Whole(device')
        BY <3>1 DEF Consistent, Calmly
      <4> QED
        BY <4>1, WholeUsable
    <3>3. Changes(Shown(device), Shown(device'))
      BY <1>1, <2>1, NextChanges
    <3>4. file = Shown(device) /\ file' = Shown(device')
      BY <2>1, <3>2
    <3>5. [File!Next]_(File!vars)
      BY <3>3, <3>4, ChangesFile
    <3> QED
      BY <3>1, <3>4, <3>5
  <2>2. CASE UNCHANGED <<vars, file>>
    <3>1. UNCHANGED vars /\ file' = file
      BY <2>2
    <3>2. Consistent' /\ Calmly'
      BY <3>1, StutterConsistent, StutterCalmly
    <3>3. device' = device
      BY <3>1 DEF vars
    <3>4. Shown(device') = Shown(device)
      BY <3>3, Zenon
    <3> QED
      BY <3>1, <3>2, <3>4 DEF File!vars
  <2> QED
    BY <2>1, <2>2
<1>5. FollowedSpec => File!Init /\ [][File!Next]_(File!vars)
  <2> HIDE DEF Shows
  <2> QED
    BY <1>3, <1>4, PTL DEF FollowedSpec
<1> QED
  BY <1>5 DEF FileSpec, File!Spec
===============================================================================
