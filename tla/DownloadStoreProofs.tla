-------------------------- MODULE DownloadStoreProofs --------------------------
(***************************************************************************)
(* The theorems about DownloadStore in any environment, whatever fails and  *)
(* wherever a reset comes: type correctness, that what a store recovers is  *)
(* true (if error pages are empty), and that a reset costs less than a      *)
(* commit interval.                                                         *)
(*                                                                          *)
(* Consistent is the inductive invariant.  The proof has one lemma for each *)
(* operation of the store, about the value it returns and every device      *)
(* state on its trail, then one for each action.                            *)
(***************************************************************************)
EXTENDS DownloadStore, SequenceTheorems, TLAPS

(* The pages of errors are empty.                                           *)
Truthful == ErrorPages \subseteq {<<>>}

IsBeginning(s, v) == Len(s) <= Length[v] /\ s = Take(Version(v), Len(s))

(* The checksum is that of the beginning of the version it names.           *)
IsTrue(meta) ==
    \/ meta.sum = <<>> /\ ~Vouched(meta)
    \/ /\ meta.validator \in Versions
       /\ IsBeginning(meta.sum, meta.validator)
       /\ Vouched(meta) => meta.sum = Version(meta.validator)

(* If a response said where its body ends, then by the length of the file.  *)
Measured(meta) == meta.stated => meta.total = Length[meta.validator]

MetaOK(meta) == meta \in Metadata /\ (Truthful => IsTrue(meta))

(* A record stands in the slot of its generation.                           *)
DeviceOK(d) ==
    /\ d \in Device
    /\ Len(d.slots) <= 2
    /\ \A i \in 1..Len(d.slots) :
          d.slots[i] # None =>
              /\ MetaOK(d.slots[i])
              /\ SlotOf(d.slots[i].generation) = i
              /\ Len(d.slots) = 2

FileHeld(d, s) ==
    s.file # None => s.file \in d.openFiles /\ d.files[s.file] # None

(* What the metadata in memory counts is there.                             *)
Sized(d, s) ==
    /\ s.metadata.downloaded = Len(s.metadata.sum)
    /\ s.metadata.kind = "vfs" => s.file # None
    /\ s.metadata.kind = "database" => s.metadata.downloaded <= Len(d.data)

(* The records of the store's present generation and of the one before.     *)
Other(i) == 3 - i
Last(d, s) == d.slots[SlotOf(s.metadata.generation)]
Former(d, s) == d.slots[Other(SlotOf(s.metadata.generation))]

Present(d, s) ==
    /\ Len(d.slots) = 2
    /\ Last(d, s) # None
    /\ Last(d, s).generation = s.metadata.generation

Newest(d, s) ==
    Former(d, s) # None => Former(d, s).generation < s.metadata.generation

(* The slot of the present generation holds the last commit, and the other  *)
(* an older one; but a store that has just been started again has not       *)
(* overwritten the other yet.                                               *)
Committed(d, s) ==
    /\ Present(d, s)
    /\ Last(d, s).kind = s.metadata.kind
    /\ Last(d, s).downloaded = Len(Last(d, s).sum)
    /\ Last(d, s).downloaded + s.uncommitted = s.metadata.downloaded
    /\ s.metadata.downloaded # 0 => Newest(d, s)

(* A store a download goes on with.                                         *)
Ready(d, s) == s.open /\ d.open /\ Sized(d, s) /\ Committed(d, s)

Consistent ==
    /\ TypeOK
    /\ DeviceOK(device)
    /\ MetaOK(store.metadata)
    /\ FileHeld(device, store)
    /\ job.stage = "idle" => job = Idle /\ store = ClosedStore
    /\ job.stage # "idle" => Ready(device, store)
    /\ job.stage \in Receiving =>
          /\ Newest(device, store)
          /\ Truthful =>
                /\ store.metadata.validator \in Versions
                /\ store.metadata.sum \o job.left = Version(store.metadata.validator)
    /\ job.stage = "stream" => Measured(store.metadata)

-----------------------------------------------------------------------------
(* Sequences.                                                               *)

LEMMA TakeSeq ==
    ASSUME NEW S, NEW s \in Seq(S), NEW n \in 0..Len(s)
    PROVE  /\ Take(s, n) \in Seq(S)
           /\ Len(Take(s, n)) = n
           /\ \A i \in 1..n : Take(s, n)[i] = s[i]
<1>1. \A i \in 1..n : s[i] \in S
  BY ElementOfSeq
<1> QED
  BY <1>1, SubSeqProperties, n \in Int, 1 \in Int, LenProperties DEF Take

(* The length of a prefix does not depend on what it is taken from.         *)
LEMMA TakeLength ==
    ASSUME NEW s, NEW n \in Nat
    PROVE  Len(Take(s, n)) = n
<1> DEFINE S == {s[i] : i \in 1..n}
<1>1. \A i \in 1..n : s[i] \in S
  OBVIOUS
<1>2. 1 \in Int /\ n \in Int
  OBVIOUS
<1>3. Len(SubSeq(s, 1, n)) = IF 1 <= n THEN n - 1 + 1 ELSE 0
  <2> HIDE DEF S
  <2> QED
    BY <1>1, <1>2, SubSeqProperties
<1> QED
  BY <1>3 DEF Take

LEMMA DropSeq ==
    ASSUME NEW S, NEW s \in Seq(S), NEW n \in Nat
    PROVE  /\ Drop(s, n) \in Seq(S)
           /\ n <= Len(s) => Len(Drop(s, n)) = Len(s) - n
           /\ n <= Len(s) => \A i \in 1..(Len(s) - n) : Drop(s, n)[i] = s[n + i]
<1>1. \A i \in (n + 1)..Len(s) : s[i] \in S
  BY ElementOfSeq, LenProperties
<1>2. n + 1 \in Int /\ Len(s) \in Int
  BY LenProperties
<1> QED
  BY <1>1, <1>2, SubSeqProperties DEF Drop

LEMMA TakeDrop ==
    ASSUME NEW S, NEW s \in Seq(S), NEW n \in 0..Len(s)
    PROVE  Take(s, n) \o Drop(s, n) = s
<1>1. 1 \in 1..(Len(s) + 1) /\ n \in (1 - 1)..Len(s) /\ Len(s) \in n..Len(s)
  BY LenProperties
<1>2. SubSeq(s, 1, n) \o SubSeq(s, n + 1, Len(s)) = SubSeq(s, 1, Len(s))
  BY <1>1, ConcatAdjacentSubSeq
<1> QED
  BY <1>2, SubSeqFull DEF Take, Drop

LEMMA TakeOfConcat ==
    ASSUME NEW S, NEW s \in Seq(S), NEW t \in Seq(S)
    PROVE  Take(s \o t, Len(s)) = s
<1>1. Len(s) \in 0..Len(s \o t)
  BY ConcatProperties, LenProperties
<1>2. s \o t \in Seq(S)
  BY ConcatProperties
<1>4. /\ Take(s \o t, Len(s)) \in Seq(S)
      /\ Len(Take(s \o t, Len(s))) = Len(s)
      /\ \A i \in 1..Len(s) : Take(s \o t, Len(s))[i] = (s \o t)[i]
  BY <1>1, <1>2, TakeSeq
<1>3. ASSUME NEW i \in 1..Len(s)
      PROVE  Take(s \o t, Len(s))[i] = s[i]
  <2>1. i \in 1..(Len(s) + Len(t)) /\ i <= Len(s)
    BY LenProperties
  <2>2. (s \o t)[i] = s[i]
    BY <2>1, ConcatProperties
  <2> QED
    BY <1>4, <2>2
<1> QED
  BY <1>3, <1>4, SeqEqual

LEMMA Constants ==
    /\ RecordSize \in Nat \ {0}
    /\ CommitInterval \in Nat \ {0}
    /\ Length \in [Versions -> Nat \ {0}]
    /\ None \notin FileNames /\ None \notin Versions
    /\ None \notin Seq(Units) /\ None \notin Metadata
    /\ NoName \in FileNames /\ DefaultName \in FileNames
    /\ Names \subseteq FileNames \cup {None}
BY StoreAssumption DEF FileNames

LEMMA VersionSeq ==
    ASSUME NEW v \in Versions
    PROVE  Version(v) \in Seq(Units) /\ Len(Version(v)) = Length[v] /\ Length[v] \in Nat \ {0}
<1>1. Length[v] \in Nat \ {0}
  BY Constants
<1>2. \A i \in 1..Length[v] : <<v, i>> \in Units
  BY <1>1 DEF Units
<1> QED
  BY <1>1, <1>2 DEF Version

(* What goes on with a version to its end is the beginning of it.           *)
LEMMA BeginningOf ==
    ASSUME NEW v \in Versions, NEW s \in Seq(Units), NEW t \in Seq(Units),
           s \o t = Version(v)
    PROVE  IsBeginning(s, v)
<1>1. Len(s \o t) = Len(s) + Len(t) /\ Len(s) \in Nat /\ Len(t) \in Nat
  BY ConcatProperties, LenProperties
<1>2. Len(s) <= Length[v]
  BY <1>1, VersionSeq
<1> QED
  BY <1>2, TakeOfConcat DEF IsBeginning

LEMMA RestOf ==
    ASSUME NEW v \in Versions, NEW s \in Seq(Units), IsBeginning(s, v)
    PROVE  s \o Drop(Version(v), Len(s)) = Version(v)
<1>1. Len(s) \in 0..Len(Version(v))
  BY VersionSeq, LenProperties DEF IsBeginning
<1>2. Take(Version(v), Len(s)) \o Drop(Version(v), Len(s)) = Version(v)
  BY <1>1, TakeDrop, VersionSeq
<1> QED
  BY <1>2 DEF IsBeginning

-----------------------------------------------------------------------------
(* Operation values.                                                        *)

LooseStore == [open: BOOLEAN, metadata: Metadata, uncommitted: Nat,
               file: FileNames \cup {None}]

OpValue == [device: Device, store: LooseStore, error: Errors, trail: SUBSET Device]

(* Wherever the operation is cut off, the records are in order.             *)
Sound(m) ==
    /\ m \in OpValue
    /\ DeviceOK(m.device)
    /\ MetaOK(m.store.metadata)
    /\ \A d \in m.trail : DeviceOK(d)
    /\ FileHeld(m.device, m.store)

LEMMA StoreIsLoose == Store \subseteq LooseStore
BY Constants DEF Store, LooseStore

LEMMA ZeroMetadataOK == MetaOK(ZeroMetadata)
<1>1. <<>> \in Seq(Units)
  OBVIOUS
<1>2. ZeroMetadata \in Metadata
  BY <1>1, Constants DEF ZeroMetadata, Metadata
<1> QED
  BY <1>2 DEF MetaOK, IsTrue, Vouched, ZeroMetadata

LEMMA ClosedStoreType == ClosedStore \in Store
BY ZeroMetadataOK, Constants DEF ClosedStore, Store, MetaOK

(* The records are all that DeviceOK looks at.                              *)
LEMMA SameSlots ==
    ASSUME NEW d, DeviceOK(d), NEW e \in Device, e.slots = d.slots
    PROVE  DeviceOK(e)
BY DEF DeviceOK

LEMMA RebootedOK ==
    ASSUME NEW d, DeviceOK(d)
    PROVE  DeviceOK(Rebooted(d))
<1>1. Rebooted(d) \in Device /\ Rebooted(d).slots = d.slots
  BY DEF Rebooted, DeviceOK, Device
<1> QED
  BY <1>1, SameSlots

LEMMA BeginSound ==
    ASSUME NEW d, DeviceOK(d), NEW s \in LooseStore, MetaOK(s.metadata), FileHeld(d, s),
           NEW q, q = Begin(d, s)
    PROVE  /\ Sound(q)
           /\ q.device = d /\ q.store = s /\ q.error = "Ok" /\ q.trail = {d}
<1>1. q = [device |-> d, store |-> s, error |-> "Ok", trail |-> {d}]
  BY DEF Begin
<1>2. d \in Device
  BY DEF DeviceOK
<1>3. q \in OpValue
  BY <1>1, <1>2 DEF OpValue, Errors
<1> QED
  BY <1>1, <1>3 DEF Sound

LEMMA WriteSound ==
    ASSUME NEW m, Sound(m), NEW d, DeviceOK(d), FileHeld(d, m.store),
           NEW q, q = Write(m, d)
    PROVE  /\ Sound(q)
           /\ q.device = d /\ q.store = m.store /\ q.error = m.error
           /\ q.trail = m.trail \cup {d}
<1>1. q = [device |-> d, store |-> m.store, error |-> m.error, trail |-> m.trail \cup {d}]
  BY DEF Write, Sound, OpValue
<1>2. d \in Device
  BY DEF DeviceOK
<1>3. q \in OpValue
  BY <1>1, <1>2 DEF OpValue, Sound
<1> QED
  BY <1>1, <1>3 DEF Sound

LEMMA FailSound ==
    ASSUME NEW m, Sound(m), NEW e \in Errors, NEW q, q = Fail(m, e)
    PROVE  /\ Sound(q)
           /\ q.device = m.device /\ q.store = m.store /\ q.error = e
           /\ q.trail = m.trail
<1>1. q = [device |-> m.device, store |-> m.store, error |-> e, trail |-> m.trail]
  BY DEF Fail, Sound, OpValue
<1>3. q \in OpValue
  BY <1>1 DEF OpValue, Sound
<1> QED
  BY <1>1, <1>3 DEF Sound

(* An operation on the store alone.                                         *)
LEMMA StoreSound ==
    ASSUME NEW m, Sound(m), NEW s \in LooseStore, MetaOK(s.metadata),
           FileHeld(m.device, s), NEW q, q = [m EXCEPT !.store = s]
    PROVE  /\ Sound(q)
           /\ q.device = m.device /\ q.store = s /\ q.error = m.error
           /\ q.trail = m.trail
<1>1. q = [device |-> m.device, store |-> s, error |-> m.error, trail |-> m.trail]
  BY DEF Sound, OpValue
<1>3. q \in OpValue
  BY <1>1 DEF OpValue, Sound
<1> QED
  BY <1>1, <1>3 DEF Sound

-----------------------------------------------------------------------------
(* The metadata records.                                                    *)

LEMMA SlotRange ==
    ASSUME NEW g \in Nat
    PROVE  SlotOf(g) \in 1..2 /\ SlotOf(g + 1) = Other(SlotOf(g))
BY DEF SlotOf, Other

LEMMA OtherRange ==
    ASSUME NEW i \in 1..2
    PROVE  Other(i) \in 1..2 /\ Other(i) # i /\ \A j \in 1..2 : j = i \/ j = Other(i)
BY DEF Other

LEMMA UpToTwo == \A k \in Nat : k <= 2 =>
                    k \in 0..2 /\ 2 \in k..2 /\ (k = 0 \/ k = 1 \/ k = 2)
OBVIOUS

LEMMA FilledSeq ==
    ASSUME NEW S, NEW x \in S, NEW k \in Nat, NEW t, t = [i \in 1..k |-> x]
    PROVE  t \in Seq(S) /\ Len(t) = k /\ \A i \in 1..k : t[i] = x
OBVIOUS

(* The records that EnsureMetadataSlots adds are blank.                     *)
Padded(d, n) == [d EXCEPT !.slots = d.slots \o [i \in 1..(n - Len(d.slots)) |-> None]]

LEMMA PaddedOK ==
    ASSUME NEW d, DeviceOK(d), NEW n \in Len(d.slots)..2, NEW e, e = Padded(d, n)
    PROVE  /\ DeviceOK(e)
           /\ Len(e.slots) = n
           /\ \A i \in 1..n : e.slots[i] = IF i <= Len(d.slots) THEN d.slots[i] ELSE None
<1> DEFINE S == Metadata \cup {None}
           pad == [i \in 1..(n - Len(d.slots)) |-> None]
<1>1. d \in Device /\ d.slots \in Seq(S) /\ Len(d.slots) \in Nat /\ n \in Nat
  BY LenProperties DEF DeviceOK, Device
<1>2. n - Len(d.slots) \in Nat
  BY <1>1
<1>3. pad \in Seq(S) /\ Len(pad) = n - Len(d.slots)
      /\ \A i \in 1..(n - Len(d.slots)) : pad[i] = None
  <2>1. None \in S
    OBVIOUS
  <2> HIDE DEF S
  <2> QED
    BY <1>2, <2>1, FilledSeq
<1> HIDE DEF pad
<1> DEFINE t == d.slots \o pad
<1>5. /\ t \in Seq(S)
      /\ Len(t) = n
      /\ \A i \in 1..n : t[i] = IF i <= Len(d.slots) THEN d.slots[i]
                                  ELSE pad[i - Len(d.slots)]
  <2> HIDE DEF S
  <2> QED
    BY <1>1, <1>3, ConcatProperties
<1>6. \A i \in 1..n : i > Len(d.slots) => pad[i - Len(d.slots)] = None
  BY <1>1, <1>3
<1>7. e = [d EXCEPT !.slots = t]
  BY DEF pad, Padded
<1> HIDE DEF t
<1>8. e \in Device /\ e.slots = t
  BY <1>1, <1>5, <1>7 DEF Device
<1>9. \A i \in 1..n : t[i] = IF i <= Len(d.slots) THEN d.slots[i] ELSE None
  BY <1>5, <1>6
<1>10. ASSUME NEW i \in 1..n, t[i] # None
       PROVE  i \in 1..Len(d.slots) /\ t[i] = d.slots[i]
  BY <1>1, <1>9, <1>10
<1>11. \A i \in 1..n : t[i] # None => MetaOK(t[i]) /\ SlotOf(t[i].generation) = i /\ n = 2
  BY <1>1, <1>10 DEF DeviceOK
<1>12. n <= 2
  BY <1>1
<1>13. DeviceOK(e)
  BY <1>5, <1>8, <1>11, <1>12 DEF DeviceOK
<1> QED
  BY <1>5, <1>8, <1>9, <1>13

LEMMA RecordOK ==
    ASSUME NEW d, DeviceOK(d), Len(d.slots) = 2, NEW i \in 1..2, NEW x,
           x = None \/ (MetaOK(x) /\ SlotOf(x.generation) = i),
           NEW e, e = [d EXCEPT !.slots[i] = x]
    PROVE  /\ DeviceOK(e)
           /\ Len(e.slots) = 2
           /\ e = [d EXCEPT !.slots = e.slots]
           /\ e.slots[i] = x /\ e.slots[Other(i)] = d.slots[Other(i)]
<1> DEFINE S == Metadata \cup {None}
           t == [d.slots EXCEPT ![i] = x]
<1>1. d \in Device /\ d.slots \in Seq(S) /\ x \in S
  BY DEF DeviceOK, Device, MetaOK
<1>2. t \in Seq(S) /\ Len(t) = 2 /\ \A j \in 1..2 : t[j] = IF j = i THEN x ELSE d.slots[j]
  BY <1>1, ExceptSeq
<1>3. e = [d EXCEPT !.slots = t]
  BY <1>1 DEF Device
<1> HIDE DEF t
<1>4. e \in Device /\ e.slots = t
  BY <1>1, <1>2, <1>3 DEF Device
<1>5. \A j \in 1..2 : t[j] # None => MetaOK(t[j]) /\ SlotOf(t[j].generation) = j
  BY <1>2 DEF DeviceOK
<1> QED
  BY <1>2, <1>3, <1>4, <1>5, OtherRange DEF DeviceOK

(* A commit.                                                                *)
LEMMA SaveSound ==
    ASSUME NEW m, Sound(m), NEW q, q = SaveMetadata(m)
    PROVE  LET g == m.store.metadata.generation + 1
               i == SlotOf(g)
               j == Other(i)
           IN  /\ Sound(q)
               /\ q.error = m.error
               /\ q.store = [m.store EXCEPT
                                !.metadata = [m.store.metadata EXCEPT !.generation = g],
                                !.uncommitted = 0]
               /\ q.device = [m.device EXCEPT !.slots = q.device.slots]
               /\ Len(q.device.slots) = 2
               /\ q.device.slots[i] = q.store.metadata
               /\ q.device.slots[j] = IF j <= Len(m.device.slots)
                                      THEN m.device.slots[j] ELSE None
<1>1. /\ m.store.metadata \in Metadata /\ m.store \in LooseStore /\ m.device \in Device
  BY DEF Sound, OpValue, DeviceOK, LooseStore
<1>1a. m.store.metadata.generation \in Nat
  BY <1>1 DEF Metadata
<1>1b. Len(m.device.slots) \in 0..2 /\ 2 \in Len(m.device.slots)..2
  <2>1. m.device.slots \in Seq(Metadata \cup {None})
    BY <1>1 DEF Device
  <2>2. Len(m.device.slots) <= 2
    BY DEF Sound, DeviceOK
  <2>3. Len(m.device.slots) \in Nat
    BY <2>1, LenProperties
  <2> QED
    BY <2>2, <2>3, UpToTwo, Zenon
<1>7. 2 \in Len(m.device.slots)..2
  BY <1>1b
<1> DEFINE meta == [m.store.metadata EXCEPT !.generation = @ + 1]
           i == SlotOf(meta.generation)
           with(n) == Padded(m.device, n)
           ready == EnsureMetadataSlots(m)
<1>2. MetaOK(meta) /\ meta.generation = m.store.metadata.generation + 1 /\ meta.generation \in Nat
  BY <1>1, <1>1a DEF Sound, MetaOK, IsTrue, Vouched, Metadata
<1>3. i \in 1..2
  BY <1>2, SlotRange
<1>4. \A n \in Len(m.device.slots)..2 :
          /\ DeviceOK(with(n))
          /\ Len(with(n).slots) = n
          /\ \A k \in 1..n : with(n).slots[k] = IF k <= Len(m.device.slots)
                                              THEN m.device.slots[k] ELSE None
  BY PaddedOK, Zenon DEF Sound
<1>5. with(2) = [m.device EXCEPT !.slots = with(2).slots]
  BY <1>1 DEF Device, Padded
<1>6. ready = [device |-> with(2), store |-> m.store, error |-> m.error,
             trail |-> m.trail \cup {with(n) : n \in Len(m.device.slots)..2}]
  <2> DEFINE all == {with(n) : n \in Len(m.device.slots)..2}
  <2>1. ready = [m EXCEPT !.device = with(2), !.trail = @ \cup all]
    BY DEF EnsureMetadataSlots, Padded
  <2> HIDE DEF all, with, ready
  <2>2. ready = [device |-> with(2), store |-> m.store, error |-> m.error,
                 trail |-> m.trail \cup all]
    BY <2>1 DEF Sound, OpValue
  <2> QED
    BY <2>2 DEF all
<1> HIDE DEF with, meta, ready
<1> DEFINE tornDevice == [ready.device EXCEPT !.slots[i] = None]
           torn == Write(ready, tornDevice)
           savedDevice == [torn.device EXCEPT !.slots[i] = meta]
           saved == Write(torn, savedDevice)
<1>8. FileHeld(with(2), m.store)
  <2>1. with(2).openFiles = m.device.openFiles /\ with(2).files = m.device.files
    BY <1>1, <1>5 DEF Device
  <2> QED
    BY <2>1 DEF Sound, FileHeld
<1>9. Sound(ready)
  <2>1. \A d \in ready.trail : DeviceOK(d)
    BY <1>4, <1>6 DEF Sound
  <2>2. ready \in OpValue
    BY <1>4, <1>6, <1>7, <2>1 DEF Sound, OpValue, DeviceOK
  <2> QED
    BY <1>4, <1>6, <1>7, <1>8, <2>1, <2>2 DEF Sound
<1>10. /\ DeviceOK(tornDevice)
       /\ Len(tornDevice.slots) = 2
       /\ tornDevice = [ready.device EXCEPT !.slots = tornDevice.slots]
       /\ tornDevice.slots[Other(i)] = ready.device.slots[Other(i)]
  <2>1. ready.device = with(2) /\ DeviceOK(ready.device) /\ Len(ready.device.slots) = 2
    BY <1>4, <1>6, <1>7
  <2> QED
    BY <1>3, <2>1, RecordOK
<1>11. FileHeld(tornDevice, ready.store)
  BY <1>9, <1>10 DEF Sound, OpValue, Device, FileHeld
<1> HIDE DEF tornDevice
<1>12. /\ Sound(torn) /\ torn.device = tornDevice /\ torn.store = m.store
       /\ torn.error = m.error
  BY <1>6, <1>9, <1>10, <1>11, WriteSound
<1> HIDE DEF torn
<1>13. /\ DeviceOK(savedDevice)
       /\ Len(savedDevice.slots) = 2
       /\ savedDevice = [torn.device EXCEPT !.slots = savedDevice.slots]
       /\ savedDevice.slots[i] = meta
       /\ savedDevice.slots[Other(i)] = torn.device.slots[Other(i)]
  BY <1>2, <1>3, <1>10, <1>12, RecordOK
<1>14. FileHeld(savedDevice, torn.store)
  BY <1>12, <1>13 DEF Sound, OpValue, Device, FileHeld
<1> HIDE DEF savedDevice
<1>15. /\ Sound(saved) /\ saved.device = savedDevice /\ saved.store = m.store
       /\ saved.error = m.error
  BY <1>12, <1>13, <1>14, WriteSound
<1>16. q = [saved EXCEPT !.store.metadata = meta, !.store.uncommitted = 0]
  BY DEF SaveMetadata, saved, savedDevice, torn, tornDevice, ready, meta
<1> HIDE DEF saved
<1> DEFINE s == [m.store EXCEPT !.metadata = meta, !.uncommitted = 0]
<1>17. q = [saved EXCEPT !.store = s]
  BY <1>1, <1>15, <1>16 DEF Sound, OpValue, LooseStore
<1>18. s \in LooseStore /\ s.metadata = meta /\ s.file = m.store.file
  BY <1>1, <1>2 DEF LooseStore, MetaOK
<1>19. FileHeld(saved.device, s)
  BY <1>15, <1>18 DEF Sound, FileHeld
<1> HIDE DEF s
<1>20. Sound(q) /\ q.device = savedDevice /\ q.store = s /\ q.error = m.error
  BY <1>2, <1>15, <1>17, <1>18, <1>19, StoreSound
<1>21. s = [m.store EXCEPT !.metadata = [m.store.metadata EXCEPT
                                            !.generation = m.store.metadata.generation + 1],
                           !.uncommitted = 0]
  BY DEF s, meta
<1>22. savedDevice = [m.device EXCEPT !.slots = savedDevice.slots]
  BY <1>1, <1>5, <1>6, <1>10, <1>12, <1>13 DEF Device
<1>23. savedDevice.slots[Other(i)] = IF Other(i) <= Len(m.device.slots)
                                     THEN m.device.slots[Other(i)] ELSE None
  BY <1>3, <1>4, <1>6, <1>7, <1>10, <1>12, <1>13, OtherRange
<1> QED
  BY <1>2, <1>13, <1>18, <1>20, <1>21, <1>22, <1>23

-----------------------------------------------------------------------------
(* Files and data.                                                          *)

LEMMA FilesType ==
    ASSUME NEW d \in Device
    PROVE  /\ d.files \in [FileNames -> Seq(Units) \cup {None}]
           /\ d.openFiles \subseteq FileNames
           /\ d.data \in Seq(Units)
           /\ Len(d.data) \in Nat
           /\ \A f \in FileNames : d.files[f] # None =>
                 d.files[f] \in Seq(Units) /\ Len(d.files[f]) \in Nat
<1>1. /\ d.files \in [FileNames -> Seq(Units) \cup {None}]
      /\ d.openFiles \subseteq FileNames
      /\ d.data \in Seq(Units)
  BY DEF Device
<1>2. \A f \in FileNames : d.files[f] # None => d.files[f] \in Seq(Units)
  BY <1>1
<1> QED
  BY <1>1, <1>2, LenProperties

LEMMA SoundTypes ==
    ASSUME NEW m, Sound(m)
    PROVE  /\ m.device \in Device /\ m.store \in LooseStore /\ m.error \in Errors
           /\ DeviceOK(m.device)
           /\ m.store.metadata \in Metadata /\ MetaOK(m.store.metadata)
           /\ m.store.file \in FileNames \cup {None}
           /\ m.store.metadata.downloaded \in Nat
           /\ m.store.metadata.generation \in Nat
           /\ m.store.metadata.sum \in Seq(Units)
           /\ m.store.metadata.name \in FileNames
           /\ m.store.metadata.path \in FileNames \cup {None}
           /\ m.store.metadata.kind \in {"database", "vfs"}
<1>1. m.device \in Device /\ m.store \in LooseStore /\ m.error \in Errors
  BY DEF Sound, OpValue
<1>2. m.store.metadata \in Metadata
  BY DEF Sound, MetaOK
<1>3. /\ m.store.metadata.downloaded \in Nat
      /\ m.store.metadata.generation \in Nat
      /\ m.store.metadata.sum \in Seq(Units)
      /\ m.store.metadata.name \in FileNames
      /\ m.store.metadata.path \in FileNames \cup {None}
      /\ m.store.metadata.kind \in {"database", "vfs"}
  BY <1>2 DEF Metadata
<1> QED
  BY <1>1, <1>2, <1>3 DEF Sound, LooseStore

LEMMA CloseFileSound ==
    ASSUME NEW m, Sound(m), NEW q, q = CloseFile(m)
    PROVE  /\ Sound(q)
           /\ q.store = [m.store EXCEPT !.file = None]
           /\ q.device = [m.device EXCEPT !.openFiles = @ \ {m.store.file}]
           /\ q.error = m.error /\ q.trail = m.trail
<1> DEFINE d == [m.device EXCEPT !.openFiles = @ \ {m.store.file}]
           s == [m.store EXCEPT !.file = None]
<1>1. m.device \in Device /\ m.store \in LooseStore
  BY SoundTypes
<1>2. q = [device |-> d, store |-> s, error |-> m.error, trail |-> m.trail]
  BY DEF CloseFile, Sound, OpValue
<1>3. d \in Device /\ d.slots = m.device.slots
  BY <1>1 DEF Device
<1>4. s \in LooseStore /\ s.metadata = m.store.metadata /\ s.file = None
  BY <1>1 DEF LooseStore
<1>5. DeviceOK(d)
  BY <1>3, SameSlots DEF Sound
<1> HIDE DEF d, s
<1>6. q \in OpValue
  BY <1>2, <1>3, <1>4 DEF OpValue, Sound
<1>7. Sound(q)
  BY <1>2, <1>4, <1>5, <1>6 DEF Sound, FileHeld
<1> QED
  BY <1>2, <1>7 DEF d, s

LEMMA DeleteFileSound ==
    ASSUME NEW m, Sound(m), NEW path \in FileNames, NEW q, q = DeleteFile(m, path)
    PROVE  /\ Sound(q)
           /\ q.store = m.store /\ q.error = m.error
           /\ q.device = [m.device EXCEPT !.files = q.device.files]
           /\ q.device.files = IF m.device.card /\ path \notin m.device.openFiles
                               THEN [m.device.files EXCEPT ![path] = None]
                               ELSE m.device.files
           /\ q.trail \subseteq m.trail \cup {q.device}
<1>1. m.device \in Device
  BY SoundTypes
<1>2. CASE m.device.card /\ path \notin m.device.openFiles
  <2> DEFINE d == [m.device EXCEPT !.files[path] = None]
  <2>1. /\ d = [m.device EXCEPT !.files = d.files]
        /\ d.files = [m.device.files EXCEPT ![path] = None]
        /\ d \in Device /\ d.slots = m.device.slots
    BY <1>1 DEF Device
  <2>2. DeviceOK(d)
    BY <2>1, SameSlots DEF Sound
  <2>3. FileHeld(d, m.store)
    BY <1>1, <1>2, <2>1 DEF Sound, FileHeld, Device
  <2>4. q = Write(m, d)
    BY <1>2 DEF DeleteFile
  <2> HIDE DEF d
  <2> QED
    BY <1>2, <2>1, <2>2, <2>3, <2>4, WriteSound
<1>3. CASE ~(m.device.card /\ path \notin m.device.openFiles)
  <2>1. q = m
    BY <1>3 DEF DeleteFile
  <2> QED
    BY <1>1, <1>3, <2>1 DEF Device
<1> QED
  BY <1>2, <1>3

LEMMA RemoveRecordsSound ==
    ASSUME NEW m, Sound(m), NEW q, q = RemoveRecords(m)
    PROVE  /\ Sound(q)
           /\ q.store = m.store /\ q.error = m.error
           /\ q.device = [m.device EXCEPT !.data = <<>>]
           /\ \A e \in q.trail :
                 \/ e \in m.trail
                 \/ /\ e.slots = m.device.slots /\ e.files = m.device.files
                    /\ e.exists = m.device.exists
<1> DEFINE d == [m.device EXCEPT !.data = <<>>]
           with(n) == [m.device EXCEPT !.data = Drop(@, n * RecordSize)]
           last == Len(m.device.data) \div RecordSize
           all == {with(n) : n \in 0..last}
<1>1. m.device \in Device
  BY SoundTypes
<1>2. q = [device |-> d, store |-> m.store, error |-> m.error, trail |-> m.trail \cup all]
  BY DEF RemoveRecords, Sound, OpValue
<1>3. <<>> \in Seq(Units)
  OBVIOUS
<1>4. d \in Device /\ d.slots = m.device.slots /\ d.openFiles = m.device.openFiles
      /\ d.files = m.device.files
  BY <1>1, <1>3 DEF Device
<1>5. DeviceOK(d)
  BY <1>4, SameSlots DEF Sound
<1>6. ASSUME NEW n \in 0..last
      PROVE  /\ DeviceOK(with(n))
             /\ with(n).slots = m.device.slots /\ with(n).files = m.device.files
             /\ with(n).exists = m.device.exists
  <2>1. n \in Nat /\ n * RecordSize \in Nat
    BY Constants
  <2>2. Drop(m.device.data, n * RecordSize) \in Seq(Units)
    BY <1>1, <2>1, DropSeq, FilesType
  <2>3. /\ with(n) \in Device /\ with(n).slots = m.device.slots
        /\ with(n).files = m.device.files /\ with(n).exists = m.device.exists
    BY <1>1, <2>2 DEF Device
  <2> QED
    BY <2>3, SameSlots DEF Sound
<1>7. \A t \in all : /\ DeviceOK(t)
                      /\ t.slots = m.device.slots /\ t.files = m.device.files
                      /\ t.exists = m.device.exists
  BY <1>6
<1> HIDE DEF d, all
<1>8. q \in OpValue
  BY <1>2, <1>4, <1>7 DEF OpValue, Sound, DeviceOK
<1>9. Sound(q)
  BY <1>2, <1>4, <1>5, <1>7, <1>8 DEF Sound, FileHeld
<1> QED
  BY <1>2, <1>7, <1>9 DEF d

LEMMA RemoveDataSound ==
    ASSUME NEW m, Sound(m), NEW q, q = RemoveData(m)
    PROVE  /\ Sound(q)
           /\ q.store = [m.store EXCEPT !.file = None]
           /\ q.error = m.error
           /\ q.device = [m.device EXCEPT !.data = <<>>,
                                          !.openFiles = @ \ {m.store.file},
                                          !.files = q.device.files]
           /\ LET path == m.store.metadata.path
              IN  q.device.files =
                      IF /\ m.store.metadata.kind = "vfs" /\ path # None
                         /\ m.device.card /\ path \notin m.device.openFiles \ {m.store.file}
                      THEN [m.device.files EXCEPT ![path] = None]
                      ELSE m.device.files
<1> DEFINE closed == CloseFile(m)
           path == m.store.metadata.path
           cleared == IF m.store.metadata.kind = "vfs" /\ path # None
                      THEN DeleteFile(closed, path) ELSE closed
<1>1. m.device \in Device /\ m.store \in LooseStore /\ path \in FileNames \cup {None}
  BY SoundTypes
<1>2. /\ Sound(closed)
      /\ closed.store = [m.store EXCEPT !.file = None]
      /\ closed.device = [m.device EXCEPT !.openFiles = @ \ {m.store.file}]
      /\ closed.error = m.error
  BY CloseFileSound
<1>3. /\ closed.device.files = m.device.files /\ closed.device.card = m.device.card
      /\ closed.device.openFiles = m.device.openFiles \ {m.store.file}
  BY <1>1, <1>2 DEF Device
<1>4. q = RemoveRecords(cleared)
  BY DEF RemoveData
<1> HIDE DEF closed
<1>5. CASE m.store.metadata.kind = "vfs" /\ path # None
  <2>1. /\ Sound(cleared)
        /\ cleared.store = closed.store /\ cleared.error = closed.error
        /\ cleared.device = [closed.device EXCEPT !.files = cleared.device.files]
        /\ cleared.device.files = IF m.device.card /\ path \notin m.device.openFiles \ {m.store.file}
                                  THEN [m.device.files EXCEPT ![path] = None]
                                  ELSE m.device.files
    <3>1. path \in FileNames /\ cleared = DeleteFile(closed, path)
      BY <1>1, <1>5
    <3> HIDE DEF cleared, path
    <3>2. ASSUME NEW p \in FileNames, NEW c, c = DeleteFile(closed, p)
          PROVE  /\ Sound(c)
                 /\ c.store = closed.store /\ c.error = closed.error
                 /\ c.device = [closed.device EXCEPT !.files = c.device.files]
                 /\ c.device.files = IF closed.device.card /\ p \notin closed.device.openFiles
                                     THEN [closed.device.files EXCEPT ![p] = None]
                                     ELSE closed.device.files
      <4>1. Sound(closed)
        BY <1>2
      <4> QED
        BY <4>1, <3>2, DeleteFileSound
    <3> QED
      BY <1>3, <3>1, <3>2
  <2> HIDE DEF cleared
  <2>2. /\ Sound(q) /\ q.store = cleared.store /\ q.error = cleared.error
        /\ q.device = [cleared.device EXCEPT !.data = <<>>]
    BY <1>4, <2>1, RemoveRecordsSound
  <2>3. q.device.files = cleared.device.files
    BY <2>1, <2>2, SoundTypes DEF Device
  <2>4. q.device = [m.device EXCEPT !.data = <<>>, !.openFiles = @ \ {m.store.file},
                                    !.files = q.device.files]
    <3> DEFINE o == m.device.openFiles \ {m.store.file}
    <3>1. closed.device = [m.device EXCEPT !.openFiles = o]
      BY <1>2
    <3> HIDE DEF o
    <3>2. cleared.device = [m.device EXCEPT !.openFiles = o, !.files = cleared.device.files]
      BY <1>1, <2>1, <3>1 DEF Device
    <3>3. q.device = [m.device EXCEPT !.data = <<>>, !.openFiles = o,
                                      !.files = cleared.device.files]
      BY <1>1, <2>2, <3>2 DEF Device
    <3> QED
      BY <2>3, <3>3 DEF o
  <2>5. q.store = [m.store EXCEPT !.file = None] /\ q.error = m.error
    BY <1>2, <2>1, <2>2
  <2> QED
    BY <1>5, <2>1, <2>2, <2>3, <2>4, <2>5
<1>6. CASE ~(m.store.metadata.kind = "vfs" /\ path # None)
  <2>1. cleared = closed
    BY <1>6
  <2> HIDE DEF cleared
  <2>2. /\ Sound(q) /\ q.store = closed.store /\ q.error = closed.error
        /\ q.device = [closed.device EXCEPT !.data = <<>>]
    BY <1>2, <1>4, <2>1, RemoveRecordsSound
  <2>3. q.device.files = m.device.files
    BY <1>1, <1>2, <2>2 DEF Device
  <2>4. q.device = [m.device EXCEPT !.data = <<>>, !.openFiles = @ \ {m.store.file},
                                    !.files = q.device.files]
    BY ZenonT(40), <1>1, <1>2, <2>2, <2>3 DEF Device
  <2>5. q.store = [m.store EXCEPT !.file = None] /\ q.error = m.error
    BY <1>2, <2>2
  <2> QED
    BY <1>6, <2>2, <2>3, <2>4, <2>5
<1> QED
  BY <1>5, <1>6

LEMMA FittedSound ==
    ASSUME NEW m, Sound(m), m.store.file # None, NEW q, q = Fitted(m)
    PROVE  LET file == m.store.file
               size == m.store.metadata.downloaded
           IN  /\ Sound(q)
               /\ Len(m.device.files[file]) < size =>
                     /\ q.error = "FileEOF"
                     /\ q.store = [m.store EXCEPT !.file = None]
                     /\ q.device = [m.device EXCEPT !.openFiles = @ \ {file}]
               /\ Len(m.device.files[file]) >= size =>
                     /\ q.error = m.error /\ q.store = m.store
                     /\ q.device = [m.device EXCEPT !.files = [m.device.files EXCEPT
                                        ![file] = Take(m.device.files[file], size)]]
                     /\ q.trail = m.trail \cup {q.device}
<1> DEFINE file == m.store.file
           size == m.store.metadata.downloaded
<1>1. /\ m.device \in Device /\ m.store \in LooseStore /\ file \in FileNames /\ size \in Nat
      /\ m.device.files[file] \in Seq(Units) /\ Len(m.device.files[file]) \in Nat
      /\ file \in m.device.openFiles
  BY SoundTypes, FilesType DEF Sound, FileHeld
<1>2. CASE Len(m.device.files[file]) < size
  <2> DEFINE closed == CloseFile(m)
  <2>1. q = Fail(closed, "FileEOF")
    BY <1>2 DEF Fitted
  <2>2. /\ Sound(closed)
        /\ closed.store = [m.store EXCEPT !.file = None]
        /\ closed.device = [m.device EXCEPT !.openFiles = @ \ {file}]
    BY CloseFileSound
  <2>3. "FileEOF" \in Errors
    BY DEF Errors
  <2> HIDE DEF closed
  <2>4. Sound(q) /\ q.device = closed.device /\ q.store = closed.store /\ q.error = "FileEOF"
    BY <2>1, <2>2, <2>3, FailSound
  <2> QED
    BY <1>1, <1>2, <2>2, <2>4
<1>3. CASE Len(m.device.files[file]) >= size
  <2> DEFINE cut == Take(m.device.files[file], size)
             d == [m.device EXCEPT !.files[file] = Take(@, size)]
  <2>1. cut \in Seq(Units)
    BY <1>1, <1>3, TakeSeq
  <2>2. ~(Len(m.device.files[file]) < size)
    BY <1>1, <1>3
  <2>3. q = Write(m, d)
    BY <2>2 DEF Fitted
  <2>4. d = [m.device EXCEPT !.files = [m.device.files EXCEPT ![file] = cut]]
    BY <1>1 DEF Device
  <2> HIDE DEF cut, d
  <2>5. /\ d \in Device /\ d.slots = m.device.slots /\ d.openFiles = m.device.openFiles
        /\ d.files[file] = cut
    BY <1>1, <2>1, <2>4 DEF Device
  <2>6. DeviceOK(d)
    BY <2>5, SameSlots, SoundTypes
  <2>7. cut # None
    BY <2>1, Constants
  <2>8. FileHeld(d, m.store)
    BY <1>1, <2>5, <2>7 DEF FileHeld
  <2>9. Sound(q) /\ q.device = d /\ q.store = m.store /\ q.error = m.error
        /\ q.trail = m.trail \cup {d}
    BY <2>3, <2>6, <2>8, WriteSound
  <2>10. q.device = [m.device EXCEPT !.files = [m.device.files EXCEPT
                                         ![file] = Take(m.device.files[file], size)]]
    BY <2>4, <2>9 DEF cut
  <2> QED
    BY <1>3, <2>2, <2>9, <2>10
<1> QED
  BY <1>1, <1>2, <1>3

-----------------------------------------------------------------------------
(* Opening.                                                                 *)

(* What a file holds when it is opened.                                     *)
Content(d, f) == IF d.files[f] = None THEN <<>> ELSE d.files[f]

LEMMA ContentType ==
    ASSUME NEW d \in Device, NEW f \in FileNames
    PROVE  Content(d, f) \in Seq(Units) /\ Len(Content(d, f)) \in Nat
<1>1. <<>> \in Seq(Units)
  OBVIOUS
<1>2. Content(d, f) \in Seq(Units)
  BY <1>1, FilesType DEF Content
<1> QED
  BY <1>2, LenProperties

(* The fields of the metadata that do not matter to its truth.              *)
LEMMA MetaPath ==
    ASSUME NEW meta, MetaOK(meta), NEW p \in FileNames \cup {None}
    PROVE  MetaOK([meta EXCEPT !.path = p])
BY DEF MetaOK, IsTrue, Vouched, Metadata

(* TryOpenVfs changes these two fields of a store.                          *)
Repathed(s, p, f) ==
    [s EXCEPT !.metadata = [s.metadata EXCEPT !.path = p], !.file = f]

LEMMA RepathedType ==
    ASSUME NEW s \in LooseStore, MetaOK(s.metadata),
           NEW p \in FileNames \cup {None}, NEW f \in FileNames \cup {None},
           NEW t, t = Repathed(s, p, f)
    PROVE  /\ t \in LooseStore /\ MetaOK(t.metadata)
           /\ t.open = s.open /\ t.uncommitted = s.uncommitted /\ t.file = f
           /\ t.metadata.path = p
           /\ t.metadata.name = s.metadata.name
           /\ t.metadata.downloaded = s.metadata.downloaded
<1> DEFINE meta == [s.metadata EXCEPT !.path = p]
<1>1. s.metadata \in Metadata
  BY DEF MetaOK
<1>2. MetaOK(meta) /\ meta \in Metadata /\ meta.path = p /\ meta.name = s.metadata.name
      /\ meta.downloaded = s.metadata.downloaded
  BY <1>1, MetaPath DEF MetaOK, Metadata
<1>3. t = [s EXCEPT !.metadata = meta, !.file = f]
  BY DEF Repathed
<1> HIDE DEF meta
<1>5. t \in LooseStore /\ t.metadata = meta /\ t.open = s.open
      /\ t.uncommitted = s.uncommitted /\ t.file = f
  BY <1>2, <1>3 DEF LooseStore
<1> QED
  BY <1>2, <1>5 DEF meta

LEMMA RepathedMeta ==
    ASSUME NEW s \in LooseStore, NEW p, NEW f, NEW t, t = Repathed(s, p, f)
    PROVE  t.metadata = [s.metadata EXCEPT !.path = p]
<1> DEFINE meta == [s.metadata EXCEPT !.path = p]
<1>1. t = [s EXCEPT !.metadata = meta, !.file = f]
  BY DEF Repathed
<1> HIDE DEF meta
<1>2. t.metadata = meta
  BY <1>1 DEF LooseStore
<1> QED
  BY <1>2 DEF meta

LEMMA RepathedTwice ==
    ASSUME NEW s \in LooseStore, NEW p, NEW f, NEW g,
           NEW t, t = [Repathed(s, p, f) EXCEPT !.file = g]
    PROVE  t = Repathed(s, p, g)
BY DEF Repathed, LooseStore

LEMMA RepathedSame ==
    ASSUME NEW s \in LooseStore, s.metadata \in Metadata
    PROVE  s = Repathed(s, s.metadata.path, s.file)
<1>1. [s.metadata EXCEPT !.path = s.metadata.path] = s.metadata
  BY DEF Metadata
<1>2. [s EXCEPT !.metadata = s.metadata, !.file = s.file] = s
  BY DEF LooseStore
<1> QED
  BY <1>1, <1>2 DEF Repathed

(* The devices on the way when the file of a store is opened and cut.       *)
FileTrail(m, q) ==
    LET name == m.store.metadata.name
        content == Content(m.device, name)
    IN  \A e \in q.trail :
            \/ e \in m.trail
            \/ /\ e.slots = m.device.slots /\ e.exists = m.device.exists
               /\ e.data = m.device.data
               /\ Content(e, name) \in {content, Take(content, m.store.metadata.downloaded)}

(* What trying to open the file of a store gives.                           *)
Tried(m, fails, q) ==
    LET name == m.store.metadata.name
        size == m.store.metadata.downloaded
        cut == Take(Content(m.device, name), size)
        opens == /\ m.device.card /\ ~fails
                 /\ name \notin m.device.openFiles
                 /\ size <= Len(Content(m.device, name))
    IN  /\ Sound(q)
        /\ q.error = "Ok" <=> opens
        /\ q.store = Repathed(m.store, q.store.metadata.path, q.store.file)
        /\ q.device = [m.device EXCEPT !.files = q.device.files,
                                       !.openFiles = q.device.openFiles]
        /\ opens =>
              /\ q.store.file = name /\ q.store.metadata.path = name
              /\ q.device.openFiles = m.device.openFiles \cup {name}
              /\ q.device.files = [m.device.files EXCEPT ![name] = cut]
        /\ \/ ~opens /\ size = 0
           \/ ~m.device.card \/ fails \/ name \in m.device.openFiles
           => q.device = m.device /\ q.store.file = m.store.file
        /\ ~m.device.card \/ fails \/ name \in m.device.openFiles => q.trail = m.trail
        /\ opens => FileTrail(m, q)

LEMMA TryOpenSound ==
    ASSUME NEW m, Sound(m), m.error = "Ok", NEW fails \in BOOLEAN,
           NEW q, q = TryOpenVfs(m, fails)
    PROVE  Tried(m, fails, q)
<1> DEFINE name == m.store.metadata.name
           size == m.store.metadata.downloaded
           content == Content(m.device, name)
           named == [m EXCEPT !.store.metadata.path = name]
           opened == [named EXCEPT
                         !.device.openFiles = @ \cup {name},
                         !.device.files[name] = IF @ = None THEN <<>> ELSE @,
                         !.store.file = name]
           s1 == Repathed(m.store, name, m.store.file)
           s2 == Repathed(m.store, name, name)
           d2 == [m.device EXCEPT !.openFiles = @ \cup {name},
                                  !.files = [m.device.files EXCEPT ![name] = content]]
           written == Write(opened, opened.device)
<1>1. /\ m.device \in Device /\ m.store \in LooseStore /\ m.store.metadata \in Metadata
      /\ MetaOK(m.store.metadata)
      /\ name \in FileNames /\ size \in Nat /\ m.store.file \in FileNames \cup {None}
      /\ content \in Seq(Units) /\ Len(content) \in Nat
  BY SoundTypes, ContentType
<1>2. q = IF ~m.device.card THEN Fail(m, "NoVolume")
          ELSE IF fails \/ name \in m.device.openFiles THEN Fail(named, "FileBusy")
          ELSE Fitted(written)
  BY DEF TryOpenVfs
<1>3. named = [m EXCEPT !.store = s1]
  BY <1>1 DEF Repathed, Sound, OpValue, LooseStore
<1>4. opened = [m EXCEPT !.device = d2, !.store = s2]
  BY <1>1 DEF Repathed, Sound, OpValue, LooseStore, Device, Content
<1> HIDE DEF named, opened
<1>5. /\ d2 \in Device /\ d2.slots = m.device.slots
      /\ d2.openFiles = m.device.openFiles \cup {name}
      /\ d2.files = [m.device.files EXCEPT ![name] = content]
      /\ d2.files[name] = content
      /\ d2 = [m.device EXCEPT !.openFiles = d2.openFiles, !.files = d2.files]
  BY <1>1 DEF Device
<1>6. DeviceOK(d2)
  BY <1>1, <1>5, SameSlots, SoundTypes
<1>7. content # None
  BY <1>1, Constants
<1> HIDE DEF d2, name, size, content
<1>8. /\ s1 \in LooseStore /\ MetaOK(s1.metadata) /\ s1.metadata.path = name
      /\ s1.file = m.store.file
      /\ s2 \in LooseStore /\ MetaOK(s2.metadata) /\ s2.metadata.path = name
      /\ s2.file = name
      /\ s2.metadata.downloaded = size
  <2>3. s1 = Repathed(m.store, name, m.store.file) /\ s2 = Repathed(m.store, name, name)
        /\ name \in FileNames \cup {None}
    BY <1>1
  <2> HIDE DEF s1, s2
  <2>1. s1 \in LooseStore /\ MetaOK(s1.metadata) /\ s1.metadata.path = name
        /\ s1.file = m.store.file
    BY <1>1, <2>3, RepathedType
  <2>2. s2 \in LooseStore /\ MetaOK(s2.metadata) /\ s2.metadata.path = name
        /\ s2.file = name /\ s2.metadata.downloaded = m.store.metadata.downloaded
    BY <1>1, <2>3, RepathedType
  <2> QED
    BY <2>1, <2>2 DEF size
<1>15. [s2 EXCEPT !.file = None] = Repathed(m.store, name, None)
  <2>1. s2 = Repathed(m.store, name, name) /\ name \in FileNames \cup {None}
    BY <1>1
  <2> HIDE DEF s2
  <2> QED
    BY <1>1, <2>1, RepathedTwice
<1>9. /\ m.store = Repathed(m.store, m.store.metadata.path, m.store.file)
      /\ s1 = Repathed(m.store, s1.metadata.path, s1.file)
      /\ s2 = Repathed(m.store, s2.metadata.path, s2.file)
  BY <1>1, <1>8, RepathedSame
<1> HIDE DEF s1, s2
<1>10. m.device = [m.device EXCEPT !.files = m.device.files, !.openFiles = m.device.openFiles]
  BY <1>1 DEF Device
<1>11. {"NoVolume", "FileBusy"} \subseteq Errors
  BY DEF Errors
<1>12. CASE ~m.device.card
  <2>1. /\ Sound(q) /\ q.device = m.device /\ q.store = m.store /\ q.error = "NoVolume"
        /\ q.trail = m.trail
    BY <1>2, <1>11, <1>12, FailSound
  <2> QED
    BY <1>9, <1>10, <1>12, <2>1 DEF name, size, Tried
<1>13. CASE m.device.card /\ (fails \/ name \in m.device.openFiles)
  <2>1. FileHeld(m.device, s1)
    BY <1>8 DEF Sound, FileHeld
  <2>2. /\ Sound(named) /\ named.device = m.device /\ named.store = s1
        /\ named.trail = m.trail
    BY <1>3, <1>8, <2>1, StoreSound
  <2>3. /\ Sound(q) /\ q.device = m.device /\ q.store = s1 /\ q.error = "FileBusy"
        /\ q.trail = m.trail
    BY <1>2, <1>11, <1>13, <2>2, FailSound
  <2> QED
    BY <1>8, <1>9, <1>10, <1>13, <2>3 DEF name, size, Tried
<1>14. CASE m.device.card /\ ~(fails \/ name \in m.device.openFiles)
  <2>1. FileHeld(d2, s2)
    BY <1>5, <1>7, <1>8 DEF FileHeld
  <2>2. written = [m EXCEPT !.device = d2, !.store = s2, !.trail = @ \cup {d2}]
    BY <1>4 DEF Write, Sound, OpValue
  <2> HIDE DEF written
  <2>3. /\ written.device = d2 /\ written.store = s2 /\ written.error = "Ok"
        /\ written.trail = m.trail \cup {d2}
        /\ written \in OpValue
    BY <1>5, <1>8, <2>2 DEF Sound, OpValue
  <2>4. Sound(written)
    BY <1>6, <1>8, <2>1, <2>3 DEF Sound
  <2>5. q = Fitted(written)
    BY <1>2, <1>14
  <2>6. /\ written.store.file = name /\ name # None
        /\ written.store.metadata.downloaded = size
        /\ written.device.files[name] = content
        /\ written.error = "Ok"
    BY <1>1, <1>5, <1>8, <2>3, Constants
  <2>7. CASE Len(content) < size
    <3>1. /\ Sound(q) /\ q.error = "FileEOF"
          /\ q.store = [written.store EXCEPT !.file = None]
          /\ q.device = [written.device EXCEPT !.openFiles = @ \ {written.store.file}]
      BY <2>4, <2>5, <2>6, <2>7, FittedSound
    <3>2. q.store = Repathed(m.store, name, None)
      BY <1>15, <2>3, <3>1, Zenon
    <3>3. q.store.metadata.path = name /\ q.store.file = None
      BY <1>1, <3>2, RepathedType
    <3>4. q.device = [m.device EXCEPT !.files = q.device.files,
                                      !.openFiles = q.device.openFiles]
      <4> DEFINE open == d2.openFiles \ {written.store.file}
      <4>1. q.device = [d2 EXCEPT !.openFiles = open] /\ d2 \in Device
            /\ m.device \in Device
            /\ d2 = [m.device EXCEPT !.openFiles = d2.openFiles, !.files = d2.files]
        BY <1>1, <1>5, <2>3, <3>1
      <4> HIDE DEF open
      <4> QED
        BY <4>1 DEF Device
    <3>5. size # 0 /\ ~(size <= Len(content))
      BY <1>1, <2>7
    <3> QED
      BY <1>14, <3>1, <3>2, <3>3, <3>4, <3>5 DEF name, size, content, Tried
  <2>8. CASE Len(content) >= size
    <3> DEFINE cut == Take(content, size)
    <3>1. /\ Sound(q) /\ q.error = "Ok" /\ q.store = written.store
          /\ q.trail = written.trail \cup {q.device}
          /\ q.device = [written.device EXCEPT !.files = [written.device.files EXCEPT
                                                     ![name] = cut]]
      BY <2>4, <2>5, <2>6, <2>8, FittedSound
    <3> HIDE DEF cut
    <3>2. [d2.files EXCEPT ![name] = cut] = [m.device.files EXCEPT ![name] = cut]
      BY <1>1, <1>5, FilesType
    <3>3. q.device = [d2 EXCEPT !.files = [m.device.files EXCEPT ![name] = cut]]
      BY <2>3, <3>1, <3>2
    <3>4. /\ q.device.files = [m.device.files EXCEPT ![name] = cut]
          /\ q.device.openFiles = m.device.openFiles \cup {name}
      BY <1>5, <3>3 DEF Device
    <3>5. q.device = [m.device EXCEPT !.files = q.device.files,
                                      !.openFiles = q.device.openFiles]
      BY <1>1, <1>5, <3>3 DEF Device
    <3>6. size <= Len(content)
      BY <1>1, <2>8
    <3>7. q.store = Repathed(m.store, q.store.metadata.path, q.store.file)
          /\ q.store.file = name /\ q.store.metadata.path = name
      BY <1>8, <1>9, <2>3, <3>1
    <3>8. FileTrail(m, q)
      <4>1. Content(d2, name) = content
        BY <1>5, <1>7 DEF Content
      <4>2. Content(q.device, name) = cut
        <5>1. q.device.files[name] = cut /\ cut # None
          <6>1. cut \in Seq(Units)
            BY <1>1, <2>8, TakeSeq DEF cut
          <6> QED
            BY <1>1, <3>4, <6>1, Constants DEF Device
        <5> QED
          BY <5>1 DEF Content
      <4>3. /\ d2.slots = m.device.slots /\ d2.exists = m.device.exists
            /\ d2.data = m.device.data
            /\ q.device.slots = m.device.slots /\ q.device.exists = m.device.exists
            /\ q.device.data = m.device.data
        BY <1>1, <1>5, <3>5 DEF Device
      <4>4. q.trail = m.trail \cup {d2, q.device}
        BY <2>3, <3>1
      <4> QED
        BY <4>1, <4>2, <4>3, <4>4 DEF FileTrail, name, size, content, cut
    <3> QED
      BY <1>14, <3>1, <3>4, <3>5, <3>6, <3>7, <3>8 DEF name, size, content, cut, Tried
  <2> QED
    BY <1>1, <2>7, <2>8
<1> QED
  BY <1>12, <1>13, <1>14

(* The records hold metadata, and as much data as it says.                  *)
Readable(d) == \E i \in 1..2 : ReadMetadataSlot(d, i)
Loads(d) ==
    /\ Readable(d)
    /\ Chosen(d).kind = "database" => Chosen(d).downloaded <= Len(d.data)

(* The chosen record is the newest.                                         *)
LEMMA ChosenFacts ==
    ASSUME NEW d, DeviceOK(d), Readable(d)
    PROVE  LET c == Chosen(d)
               i == SlotOf(c.generation)
           IN  /\ MetaOK(c) /\ c \in Metadata /\ c # None
               /\ Len(d.slots) = 2
               /\ i \in 1..2 /\ d.slots[i] = c
               /\ d.slots[Other(i)] # None => d.slots[Other(i)].generation < c.generation
<1>1. Len(d.slots) = 2
  <2>1. d.slots \in Seq(Metadata \cup {None})
    BY DEF DeviceOK, Device
  <2>2. Len(d.slots) \in Nat
    BY <2>1, LenProperties
  <2>3. PICK i \in 1..2 : i <= Len(d.slots) /\ d.slots[i] # None
    BY DEF Readable, ReadMetadataSlot
  <2>4. i \in 1..Len(d.slots)
    BY <2>2, <2>3
  <2> QED
    BY <2>3, <2>4 DEF DeviceOK
<1>2. \A i \in 1..2 : d.slots[i] # None =>
          /\ MetaOK(d.slots[i]) /\ SlotOf(d.slots[i].generation) = i
          /\ d.slots[i].generation \in Nat
  BY <1>1 DEF DeviceOK, MetaOK, Metadata
<1>3. d.slots[1] # None \/ d.slots[2] # None
  BY DEF Readable, ReadMetadataSlot
<1>4. Chosen(d) = IF d.slots[1] # None
                     /\ (d.slots[2] # None => d.slots[1].generation > d.slots[2].generation)
                  THEN d.slots[1] ELSE d.slots[2]
  BY <1>1 DEF Chosen, ReadMetadataSlot
<1>5. d.slots[1] # None /\ d.slots[2] # None =>
          d.slots[1].generation # d.slots[2].generation
  BY <1>2
<1> QED
  BY <1>1, <1>2, <1>3, <1>4, <1>5 DEF MetaOK, Other

LEMMA LoadSound ==
    ASSUME NEW m, Sound(m), m.error = "Ok", NEW q, q = LoadMetadata(m)
    PROVE  /\ Sound(q) /\ q.device = m.device /\ q.trail = m.trail
           /\ q.error = IF Loads(m.device) THEN "Ok" ELSE "CorruptDatabase"
           /\ q.store = [m.store EXCEPT !.metadata = IF Readable(m.device)
                                                     THEN Chosen(m.device)
                                                     ELSE m.store.metadata]
<1> DEFINE d == m.device
           s == [m.store EXCEPT !.metadata = Chosen(d)]
           loaded == [m EXCEPT !.store = s]
<1>1. /\ d \in Device /\ m.store \in LooseStore /\ DeviceOK(d)
      /\ Len(d.data) \in Nat
  BY SoundTypes, FilesType
<1>2. "CorruptDatabase" \in Errors
  BY DEF Errors
<1>3. CASE ~Readable(d)
  <2>1. q = Fail(m, "CorruptDatabase")
    BY <1>3 DEF LoadMetadata, Readable
  <2>2. Sound(q) /\ q.device = m.device /\ q.store = m.store /\ q.error = "CorruptDatabase"
        /\ q.trail = m.trail
    BY <1>2, <2>1, FailSound
  <2>3. m.store = [m.store EXCEPT !.metadata = m.store.metadata]
    BY <1>1 DEF LooseStore
  <2>4. ~Loads(m.device)
    BY <1>3 DEF Loads
  <2> QED
    BY <1>3, <2>2, <2>3, <2>4
<1>4. CASE Readable(d)
  <2>1. Chosen(d) \in Metadata /\ MetaOK(Chosen(d)) /\ Chosen(d).downloaded \in Nat
    BY <1>1, <1>4, ChosenFacts DEF Metadata
  <2>2. s \in LooseStore /\ s.metadata = Chosen(d) /\ s.file = m.store.file
    BY <1>1, <2>1 DEF LooseStore
  <2>3. loaded = [m EXCEPT !.store.metadata = Chosen(d)]
    BY DEF Sound, OpValue
  <2>4. q = IF Loads(d) THEN loaded ELSE Fail(loaded, "CorruptDatabase")
    BY <1>1, <1>4, <2>1, <2>3 DEF LoadMetadata, Readable, Loads
  <2> HIDE DEF s
  <2>5. FileHeld(m.device, s)
    BY <2>2 DEF Sound, FileHeld
  <2>6. Sound(loaded) /\ loaded.device = m.device /\ loaded.store = s /\ loaded.error = m.error
        /\ loaded.trail = m.trail
    BY <2>1, <2>2, <2>5, StoreSound
  <2> HIDE DEF loaded
  <2>7. ~Loads(d) => /\ Sound(q) /\ q.device = m.device /\ q.store = s
                     /\ q.error = "CorruptDatabase" /\ q.trail = m.trail
    BY <1>2, <2>4, <2>6, FailSound
  <2> QED
    BY <1>4, <2>4, <2>6, <2>7 DEF s
<1> QED
  BY <1>3, <1>4

LEMMA VerifySound ==
    ASSUME NEW m, Sound(m), m.error = "Ok", NEW q, q = VerifyStoredData(m)
    PROVE  /\ Sound(q) /\ q.device = m.device /\ q.store = m.store /\ q.trail = m.trail
           /\ q.error = IF Stored(m) = m.store.metadata.sum THEN "Ok" ELSE "CorruptDatabase"
<1>1. "CorruptDatabase" \in Errors
  BY DEF Errors
<1>2. q = IF Stored(m) = m.store.metadata.sum THEN m ELSE Fail(m, "CorruptDatabase")
  BY DEF VerifyStoredData
<1> QED
  BY <1>1, <1>2, FailSound

(* Opening a store: refused, started again, or loaded.                      *)
Created(d) == [d EXCEPT !.exists = TRUE, !.open = TRUE]
Fresh == [ClosedStore EXCEPT !.open = TRUE]
LoadedStore(d) == [Fresh EXCEPT !.metadata = Chosen(d)]

LEMMA CreatedOK ==
    ASSUME NEW d, DeviceOK(d)
    PROVE  /\ DeviceOK(Created(d))
           /\ Created(d).slots = d.slots /\ Created(d).data = d.data
           /\ Created(d).files = d.files /\ Created(d).openFiles = d.openFiles
           /\ Created(d).card = d.card /\ Created(d).open /\ Created(d).exists
           /\ Readable(Created(d)) <=> Readable(d)
           /\ Chosen(Created(d)) = Chosen(d)
           /\ Loads(Created(d)) <=> Loads(d)
<1>1. d \in Device
  BY DEF DeviceOK
<1>2. /\ Created(d) \in Device
      /\ Created(d).slots = d.slots /\ Created(d).data = d.data
      /\ Created(d).files = d.files /\ Created(d).openFiles = d.openFiles
      /\ Created(d).card = d.card /\ Created(d).open /\ Created(d).exists
  BY <1>1 DEF Created, Device
<1>3. DeviceOK(Created(d))
  BY <1>2, SameSlots
<1>4. /\ Readable(Created(d)) <=> Readable(d)
      /\ Chosen(Created(d)) = Chosen(d)
  BY <1>2 DEF Readable, Chosen, ReadMetadataSlot
<1>5. Loads(Created(d)) <=> Loads(d)
  BY <1>2, <1>4 DEF Loads
<1> QED
  BY <1>2, <1>3, <1>4, <1>5

(* What OpenSound calls the opened store: open, nothing loaded yet.         *)
LEMMA OpenedSound ==
    ASSUME NEW d, DeviceOK(d), NEW opened,
           opened = [CreateDatabase(Begin(d, ClosedStore)) EXCEPT
                        !.device.open = TRUE, !.store.open = TRUE]
    PROVE  /\ Sound(opened) /\ opened.device = Created(d) /\ opened.store = Fresh
           /\ opened.error = "Ok"
           /\ opened.trail = {d, [d EXCEPT !.exists = TRUE]}
<1> DEFINE m == Begin(d, ClosedStore)
           e == [d EXCEPT !.exists = TRUE]
           created == CreateDatabase(m)
<1>1. d \in Device /\ ClosedStore \in LooseStore /\ ClosedStore.metadata = ZeroMetadata
      /\ ClosedStore.file = None
  BY ClosedStoreType, StoreIsLoose DEF DeviceOK, ClosedStore
<1>2. FileHeld(d, ClosedStore) /\ FileHeld(e, ClosedStore) /\ FileHeld(Created(d), Fresh)
  BY <1>1 DEF FileHeld, Fresh, ClosedStore
<1>3. Sound(m) /\ m.device = d /\ m.store = ClosedStore /\ m.error = "Ok" /\ m.trail = {d}
  BY <1>1, <1>2, ZeroMetadataOK, BeginSound
<1>4. e \in Device /\ e.slots = d.slots /\ Created(d) = [e EXCEPT !.open = TRUE]
  BY <1>1 DEF Device, Created
<1>5. DeviceOK(e)
  BY <1>4, SameSlots
<1> HIDE DEF e, m
<1>6. created = Write(m, e)
  BY <1>3 DEF CreateDatabase, e
<1> HIDE DEF created
<1>7. Sound(created) /\ created.device = e /\ created.store = ClosedStore
      /\ created.error = "Ok" /\ created.trail = {d, e}
  BY <1>2, <1>3, <1>5, <1>6, WriteSound
<1> DEFINE r == [device |-> Created(d), store |-> Fresh, error |-> "Ok",
                 trail |-> created.trail]
<1>8. opened = r
  BY <1>4, <1>7 DEF Sound, OpValue, Fresh, created, m
<1>9. Fresh \in LooseStore /\ Fresh.metadata = ZeroMetadata
  BY <1>1 DEF Fresh, LooseStore, ClosedStore
<1>10. DeviceOK(Created(d)) /\ Created(d) \in Device
  BY CreatedOK DEF DeviceOK
<1>11. r \in OpValue
  BY <1>7, <1>9, <1>10 DEF OpValue, Sound, Errors
<1>12. \A t \in created.trail : DeviceOK(t)
  BY <1>7 DEF Sound
<1>13. /\ r.device = Created(d) /\ r.store = Fresh /\ r.error = "Ok"
       /\ r.trail = created.trail
  OBVIOUS
<1> HIDE DEF r
<1>14. Sound(r)
  BY <1>2, <1>9, <1>10, <1>11, <1>12, <1>13, ZeroMetadataOK DEF Sound
<1> QED
  BY <1>7, <1>8, <1>13, <1>14, Zenon DEF e

(* A store whose records cannot be used starts again.                       *)
Started == [Fresh EXCEPT !.metadata = [ZeroMetadata EXCEPT !.generation = 1]]

LEMMA FreshType ==
    /\ Fresh \in LooseStore /\ Fresh.metadata = ZeroMetadata /\ Fresh.open
    /\ Fresh.file = None /\ Fresh.uncommitted = 0
    /\ ZeroMetadata \in Metadata
    /\ ZeroMetadata.generation = 0 /\ ZeroMetadata.downloaded = 0
    /\ ZeroMetadata.kind = "database" /\ ZeroMetadata.path = None
    /\ ZeroMetadata.sum = <<>> /\ ~ZeroMetadata.complete
BY ClosedStoreType, StoreIsLoose, ZeroMetadataOK
   DEF Fresh, LooseStore, ClosedStore, ZeroMetadata, MetaOK

LEMMA StartedType ==
    /\ Started \in LooseStore /\ Started.open /\ Started.file = None
    /\ Started.uncommitted = 0
    /\ Started.metadata \in Metadata
    /\ Started.metadata.generation = 1 /\ Started.metadata.downloaded = 0
    /\ Started.metadata.kind = "database" /\ Started.metadata.name = NoName
    /\ Started.metadata.sum = <<>> /\ ~Started.metadata.complete
<1> DEFINE meta == [ZeroMetadata EXCEPT !.generation = 1]
<1>1. /\ meta \in Metadata /\ meta.generation = 1 /\ meta.downloaded = 0
      /\ meta.kind = "database" /\ meta.name = NoName /\ meta.sum = <<>> /\ ~meta.complete
  BY FreshType DEF ZeroMetadata, Metadata
<1>2. Started = [Fresh EXCEPT !.metadata = meta]
  BY DEF Started
<1> HIDE DEF meta
<1>3. /\ Started \in LooseStore /\ Started.open /\ Started.file = None
      /\ Started.uncommitted = 0 /\ Started.metadata = meta
  BY <1>1, <1>2, FreshType DEF LooseStore
<1> QED
  BY <1>1, <1>3

LEMMA OpenRefused ==
    ASSUME NEW d, DeviceOK(d), d.open, NEW q, q = Open(d)
    PROVE  /\ Sound(q) /\ q.device = d /\ q.store = ClosedStore /\ q.error = "AlreadyOpen"
           /\ q.trail = {d}
<1> DEFINE m == Begin(d, ClosedStore)
<1>3. ClosedStore \in LooseStore /\ ClosedStore.metadata = ZeroMetadata
      /\ ClosedStore.file = None
  BY ClosedStoreType, StoreIsLoose DEF ClosedStore
<1>4. FileHeld(d, ClosedStore)
  BY <1>3 DEF FileHeld
<1>1. Sound(m) /\ m.device = d /\ m.store = ClosedStore /\ m.trail = {d}
  BY <1>3, <1>4, ZeroMetadataOK, BeginSound
<1>2. q = Fail(m, "AlreadyOpen")
  BY DEF Open
<1> HIDE DEF m
<1> QED
  BY <1>1, <1>2, FailSound DEF Errors

(* Its data is removed before its first commit.                             *)
Emptied(d, r) ==
    /\ Sound(r) /\ r.store = Fresh /\ r.error = "Ok"
    /\ r.device = [Created(d) EXCEPT !.data = <<>>]
    /\ r.device.slots = d.slots
    /\ \A e \in r.trail : e = d \/ (e.slots = d.slots /\ e.exists = TRUE)

LEMMA OpenEmpties ==
    ASSUME NEW d, DeviceOK(d), ~d.open, ~Loads(d), NEW q, q = Open(d)
    PROVE  \E r : Emptied(d, r) /\ q = SaveMetadata(r)
<1> DEFINE opened == [CreateDatabase(Begin(d, ClosedStore)) EXCEPT
                         !.device.open = TRUE, !.store.open = TRUE]
           loaded == LoadMetadata(opened)
           zeroed == [loaded EXCEPT !.store.metadata = ZeroMetadata, !.error = "Ok"]
           removed == RemoveData(zeroed)
<1>1. Sound(opened) /\ opened.device = Created(d) /\ opened.store = Fresh
      /\ opened.error = "Ok" /\ opened.trail = {d, [d EXCEPT !.exists = TRUE]}
  BY OpenedSound
<1> HIDE DEF opened
<1>2. ~Loads(Created(d)) /\ DeviceOK(Created(d)) /\ Created(d).files = d.files
      /\ Created(d).openFiles = d.openFiles /\ Created(d).slots = d.slots
  BY CreatedOK
<1>3. /\ Sound(loaded) /\ loaded.device = Created(d) /\ loaded.error = "CorruptDatabase"
      /\ loaded.trail = opened.trail
      /\ loaded.store = [Fresh EXCEPT !.metadata = IF Readable(Created(d))
                                                   THEN Chosen(Created(d))
                                                   ELSE Fresh.metadata]
  BY <1>1, <1>2, LoadSound
<1>4. q = SaveMetadata(removed)
  BY <1>3 DEF Open, opened, Succeeded
<1> HIDE DEF loaded
<1>5. [loaded.store EXCEPT !.metadata = ZeroMetadata] = Fresh
  <2> DEFINE x == IF Readable(Created(d)) THEN Chosen(Created(d)) ELSE Fresh.metadata
  <2>1. loaded.store = [Fresh EXCEPT !.metadata = x]
    BY <1>3
  <2> HIDE DEF x
  <2> QED
    BY <2>1, FreshType DEF LooseStore
<1>6. zeroed = [device |-> Created(d), store |-> Fresh, error |-> "Ok", trail |-> loaded.trail]
  <2> DEFINE s == [loaded.store EXCEPT !.metadata = ZeroMetadata]
  <2>1. zeroed = [device |-> loaded.device, store |-> s, error |-> "Ok", trail |-> loaded.trail]
    <3>1. loaded \in OpValue
      BY <1>3 DEF Sound
    <3>2. zeroed = [loaded EXCEPT !.store = s, !.error = "Ok"]
      BY <3>1 DEF OpValue
    <3> HIDE DEF s, zeroed
    <3> QED
      BY <3>1, <3>2 DEF OpValue
  <2>2. s = Fresh
    BY <1>5
  <2> QED
    BY <1>3, <2>1, <2>2, Zenon
<1>7. Sound(zeroed) /\ zeroed.device = Created(d) /\ zeroed.store = Fresh
      /\ zeroed.error = "Ok" /\ zeroed.trail = loaded.trail
  <2>1. \A t \in loaded.trail : DeviceOK(t)
    BY <1>3 DEF Sound
  <2>2. zeroed \in OpValue
    BY <1>2, <1>3, <1>6, FreshType DEF Sound, OpValue, Errors
  <2>3. FileHeld(Created(d), Fresh)
    BY FreshType DEF FileHeld
  <2> QED
    BY <1>2, <1>6, <2>1, <2>2, <2>3, FreshType, ZeroMetadataOK DEF Sound
<1> HIDE DEF zeroed
<1>8. /\ Sound(removed)
      /\ removed.store = [Fresh EXCEPT !.file = None]
      /\ removed.error = "Ok"
      /\ removed.device = [Created(d) EXCEPT !.data = <<>>,
                                             !.openFiles = @ \ {None},
                                             !.files = removed.device.files]
      /\ removed.device.files = Created(d).files
  <2>1. /\ Sound(removed)
        /\ removed.store = [zeroed.store EXCEPT !.file = None]
        /\ removed.error = zeroed.error
        /\ removed.device = [zeroed.device EXCEPT !.data = <<>>,
                                                  !.openFiles = @ \ {zeroed.store.file},
                                                  !.files = removed.device.files]
    BY <1>7, RemoveDataSound
  <2>2. zeroed.store.metadata.kind # "vfs" /\ zeroed.store.file = None
    BY <1>7, FreshType
  <2>3. removed.device.files = zeroed.device.files
    BY <1>7, <2>2, RemoveDataSound
  <2> QED
    BY <1>7, <2>1, <2>2, <2>3, Zenon
<1>9. removed.store = Fresh
  BY <1>8, FreshType DEF LooseStore
<1>10. Created(d).openFiles \ {None} = Created(d).openFiles
  BY <1>2, Constants DEF DeviceOK, Device
<1>11. /\ removed.device = [Created(d) EXCEPT !.data = <<>>]
       /\ removed.device.slots = d.slots
  <2> DEFINE c == Created(d)
  <2>1. c \in Device /\ c.slots = d.slots
    BY <1>2 DEF DeviceOK
  <2>2. removed.device = [c EXCEPT !.data = <<>>, !.openFiles = c.openFiles \ {None},
                                   !.files = removed.device.files]
        /\ removed.device.files = c.files /\ c.openFiles \ {None} = c.openFiles
    BY <1>8, <1>10
  <2> HIDE DEF c, removed
  <2>3. removed.device = [c EXCEPT !.data = <<>>]
    BY <2>1, <2>2 DEF Device
  <2>4. removed.device.slots = c.slots
    BY <2>1, <2>3 DEF Device
  <2> QED
    BY <2>1, <2>3, <2>4 DEF c
<1>12. \A e \in removed.trail : e = d \/ (e.slots = d.slots /\ e.exists = TRUE)
  <2> DEFINE closed == CloseFile(zeroed)
  <2>1. /\ Sound(closed) /\ closed.trail = zeroed.trail
        /\ closed.device = [zeroed.device EXCEPT !.openFiles = @ \ {zeroed.store.file}]
    BY <1>7, CloseFileSound
  <2>2. removed = RemoveRecords(closed)
    BY <1>7, FreshType DEF RemoveData
  <2>3. closed.device.slots = d.slots /\ closed.device.exists = TRUE
    <3>1. Created(d) \in Device /\ Created(d).exists = TRUE
      BY <1>2, CreatedOK DEF DeviceOK, Device
    <3> QED
      BY <1>2, <1>7, <2>1, <3>1 DEF Device
  <2>4. \A e \in closed.trail : e = d \/ (e.slots = d.slots /\ e.exists = TRUE)
    <3>1. d \in Device
      BY DEF DeviceOK
    <3>2. closed.trail = {d, [d EXCEPT !.exists = TRUE]}
      BY <1>1, <1>3, <1>7, <2>1
    <3>3. [d EXCEPT !.exists = TRUE].slots = d.slots /\ [d EXCEPT !.exists = TRUE].exists = TRUE
      BY <3>1 DEF Device
    <3> QED
      BY <3>2, <3>3
  <2> HIDE DEF removed, closed
  <2>5. \A e \in removed.trail : e \in closed.trail
                               \/ (e.slots = closed.device.slots /\ e.exists = closed.device.exists)
    <3>1. Sound(closed)
      BY <2>1
    <3> QED
      BY ZenonT(40), <2>2, <3>1, RemoveRecordsSound
  <2> QED
    BY <2>3, <2>4, <2>5
<1> HIDE DEF removed
<1> QED
  BY <1>4, <1>8, <1>9, <1>11, <1>12 DEF Emptied

LEMMA OpenStarted ==
    ASSUME NEW d, DeviceOK(d), ~d.open, ~Loads(d), NEW q, q = Open(d)
    PROVE  /\ Sound(q) /\ q.error = "Ok"
           /\ q.store = Started
           /\ q.device = [Created(d) EXCEPT !.data = <<>>, !.slots = q.device.slots]
           /\ Len(q.device.slots) = 2
           /\ q.device.slots[2] = Started.metadata
           /\ q.device.slots[1] = IF Len(d.slots) = 2 THEN d.slots[1] ELSE None
<1>1. PICK removed : Emptied(d, removed) /\ q = SaveMetadata(removed)
  BY OpenEmpties
<1>2. Created(d) \in Device
  BY CreatedOK DEF DeviceOK
<1>4. q = SaveMetadata(removed)
  BY <1>1
<1>8. Sound(removed) /\ removed.error = "Ok"
  BY <1>1 DEF Emptied
<1>9. removed.store = Fresh
  BY <1>1 DEF Emptied
<1>11. removed.device = [Created(d) EXCEPT !.data = <<>>] /\ removed.device.slots = d.slots
  BY <1>1 DEF Emptied
<1>12. SlotOf(1) = 2 /\ Other(2) = 1
  BY DEF SlotOf, Other
<1>13. /\ Sound(q) /\ q.error = "Ok"
       /\ q.store = [Fresh EXCEPT !.metadata = [ZeroMetadata EXCEPT !.generation = 1],
                                  !.uncommitted = 0]
       /\ q.device = [removed.device EXCEPT !.slots = q.device.slots]
       /\ Len(q.device.slots) = 2
       /\ q.device.slots[2] = q.store.metadata
       /\ q.device.slots[1] = IF 1 <= Len(d.slots) THEN d.slots[1] ELSE None
  <2>1. removed.store.metadata = ZeroMetadata /\ ZeroMetadata.generation + 1 = 1
    BY <1>9, FreshType
  <2>2. SlotOf(removed.store.metadata.generation + 1) = 2
    BY <1>12, <2>1
  <2>3. /\ Sound(q) /\ q.error = removed.error
        /\ q.store = [removed.store EXCEPT
                         !.metadata = [removed.store.metadata EXCEPT
                             !.generation = removed.store.metadata.generation + 1],
                         !.uncommitted = 0]
        /\ q.device = [removed.device EXCEPT !.slots = q.device.slots]
        /\ Len(q.device.slots) = 2
    <3>1. Sound(removed)
      BY <1>8
    <3> QED
      BY <1>4, <3>1, SaveSound
  <2>4. /\ q.device.slots[2] = q.store.metadata
        /\ q.device.slots[1] = IF 1 <= Len(removed.device.slots)
                               THEN removed.device.slots[1] ELSE None
    <3> DEFINE i == SlotOf(removed.store.metadata.generation + 1)
    <3>1. /\ q.device.slots[i] = q.store.metadata
          /\ q.device.slots[Other(i)] = IF Other(i) <= Len(removed.device.slots)
                                        THEN removed.device.slots[Other(i)] ELSE None
      <4>1. Sound(removed)
        BY <1>8
      <4> QED
        BY <1>4, <4>1, SaveSound
    <3> QED
      BY <1>12, <2>2, <3>1
  <2> QED
    BY <1>8, <1>9, <1>11, <2>1, <2>3, <2>4, Zenon
<1>14. q.store = Started
  <2> DEFINE meta == [ZeroMetadata EXCEPT !.generation = 1]
  <2>1. q.store = [Fresh EXCEPT !.metadata = meta, !.uncommitted = 0]
        /\ Started = [Fresh EXCEPT !.metadata = meta]
    BY <1>13 DEF Started
  <2> HIDE DEF meta
  <2> QED
    BY <2>1, FreshType DEF LooseStore
<1>15. q.device = [Created(d) EXCEPT !.data = <<>>, !.slots = q.device.slots]
  BY <1>2, <1>11, <1>13 DEF DeviceOK, Device
<1>16. q.device.slots[1] = IF Len(d.slots) = 2 THEN d.slots[1] ELSE None
  <2>1. d.slots \in Seq(Metadata \cup {None})
    BY DEF DeviceOK, Device
  <2>2. Len(d.slots) \in Nat /\ Len(d.slots) <= 2
    BY <2>1, LenProperties DEF DeviceOK
  <2>3. Len(d.slots) = 1 => d.slots[1] = None
    BY DEF DeviceOK
  <2>4. Len(d.slots) = 0 \/ Len(d.slots) = 1 \/ Len(d.slots) = 2
    BY <2>2, UpToTwo, Zenon
  <2> QED
    BY <1>13, <2>3, <2>4
<1> QED
  BY <1>13, <1>14, <1>15, <1>16

LEMMA LoadedStoreType ==
    ASSUME NEW d, DeviceOK(d), Readable(d)
    PROVE  /\ LoadedStore(d) \in LooseStore /\ LoadedStore(d).metadata = Chosen(d)
           /\ LoadedStore(d).file = None /\ LoadedStore(d).open
           /\ LoadedStore(d).uncommitted = 0
BY ChosenFacts, FreshType DEF LoadedStore, LooseStore

LEMMA TakeAll ==
    ASSUME NEW S, NEW s \in Seq(S), NEW n \in 0..Len(s)
    PROVE  Take(Take(s, n), n) = Take(s, n)
<1>1. Take(s, n) \in Seq(S) /\ Len(Take(s, n)) = n
  BY TakeSeq
<1> QED
  BY <1>1, SubSeqFull DEF Take

(* The devices on the way to a store that is loaded.                        *)
OpenTrail(d, q) ==
    LET c == Chosen(d)
        content == Content(d, c.name)
    IN  \A e \in q.trail :
            /\ e.slots = d.slots /\ e.exists \in {d.exists, TRUE} /\ e.data = d.data
            /\ \/ e.files = d.files
               \/ /\ c.kind = "vfs"
                  /\ Content(e, c.name) \in {content, Take(content, c.downloaded)}

(* What opening a store whose records can be used gives.                    *)
OpenedAs(d, q) ==
    LET c == Chosen(d)
        content == Content(d, c.name)
        opens == /\ d.card /\ c.name \notin d.openFiles
                 /\ c.downloaded <= Len(content)
    IN  /\ Sound(q)
        /\ q.store = Repathed(LoadedStore(d), q.store.metadata.path, q.store.file)
        /\ q.device = [Created(d) EXCEPT !.files = q.device.files,
                                         !.openFiles = q.device.openFiles]
        /\ c.kind = "database" =>
              /\ q.device = Created(d) /\ q.store = LoadedStore(d)
              /\ q.error = "Ok" <=> Take(d.data, c.downloaded) = c.sum
        /\ c.kind = "vfs" =>
              /\ q.error = "Ok" <=> opens /\ Take(content, c.downloaded) = c.sum
              /\ opens =>
                    /\ q.store.file = c.name /\ q.store.metadata.path = c.name
                    /\ q.device.openFiles = d.openFiles \cup {c.name}
                    /\ q.device.files = [d.files EXCEPT
                                            ![c.name] = Take(content, c.downloaded)]
        /\ q.error = "Ok" => Stored(q) = c.sum
        /\ c.kind = "vfs" /\ (~d.card \/ c.name \in d.openFiles) =>
              q.device = Created(d) /\ q.store.file = None
        /\ c.kind = "database" \/ ~d.card \/ c.name \in d.openFiles \/ opens =>
              OpenTrail(d, q)

LEMMA OpenLoaded ==
    ASSUME NEW d, DeviceOK(d), ~d.open, Loads(d), NEW q, q = Open(d)
    PROVE  OpenedAs(d, q)
<1> DEFINE c == Chosen(d)
           opened == [CreateDatabase(Begin(d, ClosedStore)) EXCEPT
                         !.device.open = TRUE, !.store.open = TRUE]
           loaded == LoadMetadata(opened)
           content == Content(d, c.name)
           opens == /\ d.card /\ c.name \notin d.openFiles
                    /\ c.downloaded <= Len(content)
           cut == Take(content, c.downloaded)
<1>1. Sound(opened) /\ opened.device = Created(d) /\ opened.store = Fresh
      /\ opened.error = "Ok" /\ opened.trail = {d, [d EXCEPT !.exists = TRUE]}
  BY OpenedSound
<1>2. /\ DeviceOK(Created(d)) /\ Created(d).files = d.files /\ Created(d).data = d.data
      /\ Created(d).openFiles = d.openFiles /\ Created(d).slots = d.slots
      /\ Created(d).card = d.card
      /\ Chosen(Created(d)) = Chosen(d) /\ Readable(Created(d)) /\ Loads(Created(d))
      /\ Readable(d)
  BY CreatedOK DEF Loads
<1>3. q = IF d.open THEN Fail(Begin(d, ClosedStore), "AlreadyOpen")
          ELSE IF ~Succeeded(loaded)
               THEN SaveMetadata(RemoveData([loaded EXCEPT !.store.metadata = ZeroMetadata,
                                                           !.error = "Ok"]))
          ELSE IF Succeeded(IF loaded.store.metadata.kind = "vfs"
                            THEN TryOpenVfs(loaded, FALSE) ELSE loaded)
               THEN VerifyStoredData(IF loaded.store.metadata.kind = "vfs"
                                     THEN TryOpenVfs(loaded, FALSE) ELSE loaded)
               ELSE IF loaded.store.metadata.kind = "vfs"
                    THEN TryOpenVfs(loaded, FALSE) ELSE loaded
  BY DEF Open
<1> HIDE DEF opened
<1>4. /\ Sound(loaded) /\ loaded.device = Created(d) /\ loaded.error = "Ok"
      /\ loaded.store = LoadedStore(d) /\ loaded.trail = opened.trail
  <2>1. /\ Sound(loaded) /\ loaded.device = opened.device
        /\ loaded.error = "Ok" /\ loaded.trail = opened.trail
        /\ loaded.store = [opened.store EXCEPT !.metadata = Chosen(opened.device)]
    BY <1>1, <1>2, LoadSound
  <2> QED
    BY <1>1, <1>2, <2>1, Zenon DEF LoadedStore
<1>4a. \A e \in loaded.trail : /\ e.slots = d.slots /\ e.exists \in {d.exists, TRUE}
                               /\ e.data = d.data /\ e.files = d.files
  <2>1. d \in Device
    BY DEF DeviceOK
  <2> DEFINE x == [d EXCEPT !.exists = TRUE]
  <2>2. x.slots = d.slots /\ x.exists = TRUE /\ x.data = d.data /\ x.files = d.files
    BY <2>1 DEF Device
  <2>3. loaded.trail = {d, x}
    BY <1>1, <1>4
  <2> HIDE DEF x
  <2> QED
    BY <2>2, <2>3
<1> HIDE DEF loaded
<1>5. /\ LoadedStore(d) \in LooseStore /\ LoadedStore(d).metadata = c
      /\ LoadedStore(d).file = None
      /\ LoadedStore(d) = Repathed(LoadedStore(d), LoadedStore(d).metadata.path, None)
      /\ Created(d) = [Created(d) EXCEPT !.files = Created(d).files,
                                         !.openFiles = Created(d).openFiles]
  <2>1. /\ LoadedStore(d) \in LooseStore /\ LoadedStore(d).metadata = c
        /\ LoadedStore(d).file = None /\ c \in Metadata
    BY <1>2, LoadedStoreType, ChosenFacts
  <2>2. LoadedStore(d) = Repathed(LoadedStore(d), LoadedStore(d).metadata.path, None)
    BY <2>1, RepathedSame
  <2>3. Created(d) = [Created(d) EXCEPT !.files = Created(d).files,
                                        !.openFiles = Created(d).openFiles]
    BY <1>2 DEF DeviceOK, Device
  <2> QED
    BY <2>1, <2>2, <2>3
<1>6. c \in Metadata /\ c.kind \in {"database", "vfs"} /\ c.name \in FileNames
      /\ c.downloaded \in Nat /\ c.sum \in Seq(Units)
  BY <1>2, ChosenFacts DEF Metadata
<1>7. content \in Seq(Units) /\ Len(content) \in Nat
  BY <1>6, ContentType DEF DeviceOK
<1> HIDE DEF c
<1>8. CASE c.kind = "database"
  <2>1. q = VerifyStoredData(loaded)
    BY <1>3, <1>4, <1>5, <1>8 DEF Succeeded
  <2>2. Stored(loaded) = Take(d.data, c.downloaded)
    BY <1>2, <1>4, <1>5, <1>8 DEF Stored
  <2>3. /\ Sound(q) /\ q.device = loaded.device /\ q.store = loaded.store
        /\ q.trail = loaded.trail
        /\ q.error = IF Stored(loaded) = loaded.store.metadata.sum
                     THEN "Ok" ELSE "CorruptDatabase"
    BY <1>4, <2>1, VerifySound
  <2>4. Stored(q) = Stored(loaded)
    BY <2>3 DEF Stored
  <2>5. q.error = "Ok" <=> Take(d.data, c.downloaded) = c.sum
    BY <1>4, <1>5, <2>2, <2>3
  <2>6. q.store = LoadedStore(d) /\ q.device = Created(d)
    BY <1>4, <2>3
  <2>7. q.error = "Ok" => Stored(q) = c.sum
    BY <2>2, <2>4, <2>5
  <2>8. /\ q.store = Repathed(LoadedStore(d), q.store.metadata.path, q.store.file)
        /\ q.device = [Created(d) EXCEPT !.files = q.device.files,
                                         !.openFiles = q.device.openFiles]
    BY <1>5, <2>6, Zenon
  <2>9. OpenTrail(d, q)
    BY <1>4a, <2>3 DEF OpenTrail
  <2> QED
    BY <1>8, <2>3, <2>5, <2>6, <2>7, <2>8, <2>9 DEF c, OpenedAs
<1>9. CASE c.kind = "vfs"
  <2> DEFINE filed == TryOpenVfs(loaded, FALSE)
  <2>1. q = IF Succeeded(filed) THEN VerifyStoredData(filed) ELSE filed
    BY <1>3, <1>4, <1>5, <1>9 DEF Succeeded
  <2> HIDE DEF filed
  <2>2. /\ loaded.store.metadata.name = c.name
        /\ loaded.store.metadata.downloaded = c.downloaded
        /\ Content(loaded.device, c.name) = content
        /\ loaded.device.card = d.card /\ loaded.device.openFiles = d.openFiles
        /\ loaded.device.files = d.files
    BY <1>2, <1>4, <1>5 DEF Content
  <2>3. /\ Sound(filed)
        /\ filed.error = "Ok" <=> opens
        /\ filed.store = Repathed(loaded.store, filed.store.metadata.path, filed.store.file)
        /\ filed.device = [loaded.device EXCEPT !.files = filed.device.files,
                                                !.openFiles = filed.device.openFiles]
        /\ opens =>
              /\ filed.store.file = c.name /\ filed.store.metadata.path = c.name
              /\ filed.device.openFiles = d.openFiles \cup {c.name}
              /\ filed.device.files = [d.files EXCEPT ![c.name] = cut]
        /\ ~d.card \/ c.name \in d.openFiles =>
              /\ filed.device = loaded.device /\ filed.store.file = loaded.store.file
              /\ filed.trail = loaded.trail
        /\ opens => FileTrail(loaded, filed)
    <3>1. FALSE \in BOOLEAN /\ filed = TryOpenVfs(loaded, FALSE)
      BY DEF filed
    <3> DEFINE name == loaded.store.metadata.name
               size == loaded.store.metadata.downloaded
               ok == /\ loaded.device.card /\ ~FALSE
                     /\ name \notin loaded.device.openFiles
                     /\ size <= Len(Content(loaded.device, name))
    <3>2. /\ Sound(filed)
          /\ filed.error = "Ok" <=> ok
          /\ filed.store = Repathed(loaded.store, filed.store.metadata.path, filed.store.file)
          /\ filed.device = [loaded.device EXCEPT !.files = filed.device.files,
                                                  !.openFiles = filed.device.openFiles]
          /\ ok =>
                /\ filed.store.file = name /\ filed.store.metadata.path = name
                /\ filed.device.openFiles = loaded.device.openFiles \cup {name}
                /\ filed.device.files = [loaded.device.files EXCEPT
                       ![name] = Take(Content(loaded.device, name), size)]
          /\ ~loaded.device.card \/ name \in loaded.device.openFiles =>
                /\ filed.device = loaded.device /\ filed.store.file = loaded.store.file
                /\ filed.trail = loaded.trail
          /\ ok => FileTrail(loaded, filed)
      <4>1. Sound(loaded) /\ loaded.error = "Ok"
        BY <1>4
      <4>2. Tried(loaded, FALSE, filed)
        BY <3>1, <4>1, TryOpenSound
      <4> QED
        BY <4>2 DEF Tried
    <3>3. ok <=> opens
      BY <2>2
    <3> HIDE DEF ok, opens, content
    <3> QED
      BY <2>2, <3>2, <3>3, Zenon
  <2>4. /\ Sound(q) /\ q.device = filed.device /\ q.store = filed.store
        /\ q.trail = filed.trail
        /\ q.error = "Ok" <=> filed.error = "Ok" /\ Stored(filed) = filed.store.metadata.sum
    BY <2>1, <2>3, VerifySound DEF Succeeded
  <2>5. filed.store.metadata.sum = c.sum /\ filed.store.metadata.kind = "vfs"
        /\ filed.store.metadata.downloaded = c.downloaded
    <3> DEFINE p == filed.store.metadata.path
    <3>1. filed.store = Repathed(LoadedStore(d), p, filed.store.file)
      BY <1>4, <2>3
    <3>2. filed.store.metadata = [c EXCEPT !.path = p]
      BY <1>5, <3>1, RepathedMeta
    <3> HIDE DEF p
    <3> QED
      BY <1>6, <1>9, <3>2 DEF Metadata
  <2>6. opens => Stored(filed) = cut
    <3> HAVE opens
    <3>1. Stored(filed) = Take(filed.device.files[c.name], c.downloaded)
      BY <2>3, <2>5 DEF Stored
    <3>2. filed.device.files[c.name] = cut
      BY <1>6, <2>3, FilesType DEF DeviceOK
    <3>3. c.downloaded \in 0..Len(content)
      BY <1>6, <1>7
    <3> HIDE DEF content
    <3> QED
      BY <1>7, <3>1, <3>2, <3>3, TakeAll
  <2>7. Stored(q) = Stored(filed)
    BY <2>4 DEF Stored
  <2> HIDE DEF opens, cut
  <2>8. q.error = "Ok" <=> opens /\ cut = c.sum
    BY <2>3, <2>4, <2>5, <2>6
  <2>9. q.error = "Ok" => Stored(q) = c.sum
    BY <2>4, <2>5, <2>7
  <2>10. /\ q.store = Repathed(LoadedStore(d), q.store.metadata.path, q.store.file)
         /\ q.device = [Created(d) EXCEPT !.files = q.device.files,
                                          !.openFiles = q.device.openFiles]
    BY <1>4, <2>3, <2>4, Zenon
  <2>11. opens =>
              /\ q.store.file = c.name /\ q.store.metadata.path = c.name
              /\ q.device.openFiles = d.openFiles \cup {c.name}
              /\ q.device.files = [d.files EXCEPT ![c.name] = cut]
    BY <2>3, <2>4, Zenon
  <2>12. ~d.card \/ c.name \in d.openFiles =>
              q.device = Created(d) /\ q.store.file = None /\ OpenTrail(d, q)
    <3> HAVE ~d.card \/ c.name \in d.openFiles
    <3>1. q.device = loaded.device /\ q.store.file = loaded.store.file
          /\ q.trail = loaded.trail
      BY <2>3, <2>4
    <3> QED
      BY <1>4, <1>4a, <1>5, <3>1 DEF OpenTrail
  <2>13. opens => OpenTrail(d, q)
    <3> HAVE opens
    <3>1. FileTrail(loaded, filed) /\ q.trail = filed.trail
      BY <2>3, <2>4
    <3>2. Created(d).slots = d.slots /\ Created(d).exists = TRUE /\ Created(d).data = d.data
      BY CreatedOK DEF DeviceOK, Device
    <3>3. ASSUME NEW e \in filed.trail
          PROVE  \/ e \in loaded.trail
                 \/ /\ e.slots = d.slots /\ e.exists = TRUE /\ e.data = d.data
                    /\ Content(e, c.name) \in {content, Take(content, c.downloaded)}
      <4> HIDE DEF content
      <4> QED
        BY <1>4, <2>2, <3>1, <3>2, <3>3, Zenon DEF FileTrail
    <3> QED
      BY <1>4a, <1>9, <3>1, <3>3 DEF OpenTrail, c, content
  <2> QED
    BY <1>9, <2>4, <2>8, <2>9, <2>10, <2>11, <2>12, <2>13 DEF c, opens, cut, OpenedAs
<1> QED
  BY <1>6, <1>8, <1>9

(* A download can go on with a store that has been opened.                  *)
LEMMA OpenSucceeds ==
    ASSUME NEW d, DeviceOK(d), NEW q, q = Open(d), q.error = "Ok"
    PROVE  /\ Sound(q) /\ ~d.open
           /\ q.store.open /\ q.device.open /\ q.store.uncommitted = 0
           /\ Sized(q.device, q.store)
           /\ Committed(q.device, q.store)
<1>1. ~d.open
  BY OpenRefused
<1>2. CASE ~Loads(d)
  <2>1. /\ Sound(q)
        /\ q.store = Started
        /\ q.device = [Created(d) EXCEPT !.data = <<>>, !.slots = q.device.slots]
        /\ Len(q.device.slots) = 2
        /\ q.device.slots[2] = Started.metadata
    BY <1>1, <1>2, OpenStarted
  <2>2. q.device.open
    BY <2>1, CreatedOK DEF DeviceOK, Device
  <2>3. Sized(q.device, q.store)
    <3>1. q.device.data = <<>>
      BY <2>1, CreatedOK DEF DeviceOK, Device
    <3> QED
      BY <2>1, <3>1, StartedType DEF Sized
  <2>4. Committed(q.device, q.store)
    <3>1. SlotOf(1) = 2
      BY DEF SlotOf
    <3>2. Last(q.device, q.store) = Started.metadata
      BY <2>1, <3>1, StartedType DEF Last
    <3>3. Started.metadata # None
      BY StartedType, Constants
    <3> QED
      BY <2>1, <3>2, <3>3, StartedType DEF Committed, Present
  <2> QED
    BY <1>1, <2>1, <2>2, <2>3, <2>4, StartedType
<1>3. CASE Loads(d)
  <2> DEFINE c == Chosen(d)
             content == Content(d, c.name)
             opens == /\ d.card /\ c.name \notin d.openFiles
                      /\ c.downloaded <= Len(content)
             p == q.store.metadata.path
             f == q.store.file
  <2>0. OpenedAs(d, q)
    BY <1>1, <1>3, OpenLoaded
  <2>1. /\ Sound(q)
        /\ q.store = Repathed(LoadedStore(d), p, f)
        /\ q.device = [Created(d) EXCEPT !.files = q.device.files,
                                         !.openFiles = q.device.openFiles]
    BY <2>0, Zenon DEF OpenedAs
  <2>2. /\ c.kind = "database" => Take(d.data, c.downloaded) = c.sum
        /\ c.kind = "vfs" =>
              /\ c.downloaded <= Len(content) /\ Take(content, c.downloaded) = c.sum
              /\ f = c.name
    BY <2>0, Zenon DEF OpenedAs
  <2>3. Readable(d)
    BY <1>3 DEF Loads
  <2>4. LET i == SlotOf(c.generation)
        IN  /\ MetaOK(c) /\ c \in Metadata /\ c # None
            /\ Len(d.slots) = 2
            /\ i \in 1..2 /\ d.slots[i] = c
            /\ d.slots[Other(i)] # None => d.slots[Other(i)].generation < c.generation
    BY <2>3, ChosenFacts
  <2>5. /\ c.downloaded \in Nat /\ c.generation \in Nat
        /\ c.kind \in {"database", "vfs"} /\ c.name \in FileNames
    BY <2>4 DEF Metadata
  <2>6. LoadedStore(d) \in LooseStore /\ LoadedStore(d).metadata = c
        /\ LoadedStore(d).open /\ LoadedStore(d).uncommitted = 0
    BY <2>3, LoadedStoreType
  <2> DEFINE meta == [c EXCEPT !.path = p]
  <2>7. q.store.metadata = meta
    BY <2>1, <2>6, RepathedMeta
  <2>8. p \in FileNames \cup {None} /\ f \in FileNames \cup {None}
    BY <2>1, SoundTypes
  <2>9. q.store.open /\ q.store.uncommitted = 0
    BY <2>1, <2>4, <2>6, <2>8, RepathedType
  <2>10. /\ meta.generation = c.generation /\ meta.downloaded = c.downloaded
         /\ meta.kind = c.kind /\ meta.sum = c.sum
    BY <2>4 DEF Metadata
  <2>11. /\ q.device.slots = d.slots /\ q.device.data = d.data /\ q.device.open
    <3>1. /\ Created(d).slots = d.slots /\ Created(d).data = d.data /\ Created(d).open
          /\ Created(d) \in Device
      BY CreatedOK DEF DeviceOK
    <3> DEFINE files == q.device.files
               openFiles == q.device.openFiles
    <3>2. q.device = [Created(d) EXCEPT !.files = files, !.openFiles = openFiles]
      BY <2>1
    <3> HIDE DEF files, openFiles
    <3> QED
      BY <3>1, <3>2 DEF Device
  <2>12. c.downloaded = Len(c.sum)
    <3>1. Take(d.data, c.downloaded) = c.sum \/ Take(content, c.downloaded) = c.sum
      BY <2>2, <2>5
    <3> QED
      BY <2>5, <3>1, TakeLength
  <2> HIDE DEF meta, p, f, c, content
  <2>13. Sized(q.device, q.store)
    <3>1. c.kind = "vfs" => f # None
      BY <2>2, <2>5, Constants
    <3>2. c.kind = "database" => c.downloaded <= Len(d.data)
      BY <1>3 DEF Loads, c
    <3>3. c.kind = "vfs" => q.store.file # None
      BY <3>1 DEF f
    <3> QED
      BY <2>7, <2>10, <2>11, <2>12, <3>2, <3>3 DEF Sized
  <2>14. Last(q.device, q.store) = c
    BY <2>4, <2>7, <2>10, <2>11 DEF Last
  <2>15. Present(q.device, q.store)
    BY <2>4, <2>7, <2>10, <2>11, <2>14 DEF Present
  <2>16. Newest(q.device, q.store)
    BY <2>4, <2>7, <2>10, <2>11 DEF Newest, Former
  <2>17. Committed(q.device, q.store)
    BY <2>5, <2>7, <2>9, <2>10, <2>12, <2>14, <2>15, <2>16 DEF Committed
  <2> QED
    BY <1>1, <2>1, <2>9, <2>11, <2>13, <2>17
<1> QED
  BY <1>2, <1>3

-----------------------------------------------------------------------------
(* Commits.                                                                 *)

(* A commit of what is there: its record is the last, and the one before it *)
(* is older.                                                                *)
LEMMA SaveCommitted ==
    ASSUME NEW m, Sound(m), Sized(m.device, m.store),
           m.store.metadata.downloaded = 0 \/ Present(m.device, m.store),
           NEW q, q = SaveMetadata(m)
    PROVE  /\ Sound(q) /\ q.error = m.error
           /\ q.store.open = m.store.open /\ q.device.open = m.device.open
           /\ q.store.uncommitted = 0
           /\ Sized(q.device, q.store)
           /\ Committed(q.device, q.store)
           /\ Present(m.device, m.store) => Newest(q.device, q.store)
           /\ q.store.metadata.sum = m.store.metadata.sum
           /\ q.store.metadata.validator = m.store.metadata.validator
           /\ q.store.metadata.stated = m.store.metadata.stated
           /\ q.store.metadata.total = m.store.metadata.total
<1> DEFINE old == m.store.metadata
           g == old.generation
           meta == [old EXCEPT !.generation = g + 1]
           i == SlotOf(g + 1)
<1>1. /\ Sound(q) /\ q.error = m.error
      /\ q.store = [m.store EXCEPT !.metadata = meta, !.uncommitted = 0]
      /\ q.device = [m.device EXCEPT !.slots = q.device.slots]
      /\ Len(q.device.slots) = 2
      /\ q.device.slots[i] = q.store.metadata
      /\ q.device.slots[Other(i)] = IF Other(i) <= Len(m.device.slots)
                                    THEN m.device.slots[Other(i)] ELSE None
  BY ZenonT(40), SaveSound
<1>2. old \in Metadata /\ m.store \in LooseStore /\ m.device \in Device /\ g \in Nat
      /\ old.downloaded \in Nat
  BY SoundTypes
<1>3. /\ meta \in Metadata /\ meta.generation = g + 1 /\ meta.downloaded = old.downloaded
      /\ meta.kind = old.kind /\ meta.sum = old.sum /\ meta.validator = old.validator
      /\ meta.stated = old.stated /\ meta.total = old.total
  BY <1>2 DEF Metadata
<1> HIDE DEF meta
<1>4. q.store.metadata = meta /\ q.store.open = m.store.open /\ q.store.uncommitted = 0
      /\ q.store.file = m.store.file
  BY <1>1, <1>2 DEF LooseStore
<1>5. q.device.data = m.device.data /\ q.device.open = m.device.open
  BY <1>1, <1>2 DEF Device
<1>6. Sized(q.device, q.store)
  BY <1>3, <1>4, <1>5 DEF Sized, old
<1>7. Last(q.device, q.store) = meta /\ meta # None
  BY <1>1, <1>3, <1>4, Constants DEF Last
<1>8. Present(q.device, q.store)
  BY <1>1, <1>4, <1>7 DEF Present
<1>9. ASSUME Present(m.device, m.store)
      PROVE  Newest(q.device, q.store)
  <2>1. Other(i) = SlotOf(g) /\ Other(i) \in 1..2
    BY <1>2, SlotRange DEF Other
  <2>2. Len(m.device.slots) = 2 /\ m.device.slots[SlotOf(g)].generation = g
    BY <1>9 DEF Present, Last
  <2>3. Former(q.device, q.store) = m.device.slots[SlotOf(g)]
    BY <1>1, <1>3, <1>4, <2>1, <2>2 DEF Former
  <2> QED
    BY <1>2, <1>3, <1>4, <2>2, <2>3 DEF Newest
<1>10. meta.downloaded # 0 => Newest(q.device, q.store)
  BY <1>3, <1>9
<1>11. Committed(q.device, q.store)
  <2>1. meta.downloaded = Len(meta.sum) /\ meta.downloaded \in Nat
    BY <1>2, <1>3 DEF Sized
  <2> QED
    BY <1>4, <1>7, <1>8, <1>10, <2>1 DEF Committed
<1> QED
  BY <1>1, <1>3, <1>4, <1>5, <1>6, <1>9, <1>11

LEMMA FlushSound ==
    ASSUME NEW m, Sound(m), NEW q, q = Flush(m)
    PROVE  Sound(q) /\ q.error = m.error
BY SaveSound DEF Flush

LEMMA CloseSound ==
    ASSUME NEW m, Sound(m), NEW q, q = Close(m)
    PROVE  /\ Sound(q) /\ q.error = m.error
           /\ q.store = ClosedStore
<1> DEFINE saved == IF m.store.open THEN CloseFile(Flush(m)) ELSE m
           flushed == Flush(m)
           open == saved.device.open /\ ~m.store.open
           d == [saved.device EXCEPT !.open = open]
<1>1. Sound(flushed) /\ flushed.error = m.error
  BY FlushSound
<1> HIDE DEF flushed
<1>2. Sound(CloseFile(flushed)) /\ CloseFile(flushed).error = flushed.error
  BY <1>1, CloseFileSound
<1>3. Sound(saved) /\ saved.error = m.error
  BY <1>1, <1>2 DEF flushed
<1>4. q = [saved EXCEPT !.device.open = open, !.store = ClosedStore]
  BY DEF Close
<1> HIDE DEF saved
<1>5. saved.device \in Device /\ m.store \in LooseStore /\ saved \in OpValue
  BY <1>3, SoundTypes DEF Sound
<1>6. open \in BOOLEAN
  OBVIOUS
<1> HIDE DEF open
<1>7. q = [device |-> d, store |-> ClosedStore, error |-> saved.error,
           trail |-> saved.trail]
  BY <1>4, <1>5 DEF OpValue
<1>8. d \in Device /\ d.slots = saved.device.slots
  BY <1>5, <1>6 DEF Device
<1>9. DeviceOK(d)
  BY <1>3, <1>8, SameSlots, SoundTypes
<1> HIDE DEF d
<1>10. ClosedStore \in LooseStore /\ MetaOK(ClosedStore.metadata) /\ ClosedStore.file = None
  BY ClosedStoreType, StoreIsLoose, ZeroMetadataOK DEF ClosedStore
<1>11. FileHeld(d, ClosedStore)
  BY <1>10 DEF FileHeld
<1>12. q \in OpValue
  BY <1>5, <1>7, <1>8, <1>10 DEF OpValue
<1>13. \A t \in saved.trail : DeviceOK(t)
  BY <1>3 DEF Sound
<1> HIDE DEF Close
<1>14. q.device = d /\ q.store = ClosedStore /\ q.error = m.error /\ q.trail = saved.trail
  BY <1>3, <1>7
<1>15. Sound(q)
  BY <1>9, <1>10, <1>11, <1>12, <1>13, <1>14 DEF Sound
<1> QED
  BY <1>14, <1>15

LEMMA FinishSound ==
    ASSUME NEW m, Sound(m), NEW q, q = JobFinish(m)
    PROVE  Sound(q) /\ q.error = m.error /\ q.store = ClosedStore
<1>1. Sound(Flush(m)) /\ Flush(m).error = m.error
  BY FlushSound
<1> QED
  BY <1>1, CloseSound DEF JobFinish

-----------------------------------------------------------------------------
(* Accepting a response.                                                    *)

WithMeta(m, meta) == [m EXCEPT !.store.metadata = meta]

LEMMA MetaSound ==
    ASSUME NEW m, Sound(m), NEW meta, MetaOK(meta), NEW q, q = WithMeta(m, meta)
    PROVE  /\ Sound(q)
           /\ q.device = m.device /\ q.error = m.error /\ q.trail = m.trail
           /\ q.store.metadata = meta /\ q.store.open = m.store.open
           /\ q.store.uncommitted = m.store.uncommitted /\ q.store.file = m.store.file
<1> DEFINE s == [m.store EXCEPT !.metadata = meta]
<1>1. m.store \in LooseStore /\ meta \in Metadata
  BY SoundTypes DEF MetaOK
<1>2. /\ s \in LooseStore /\ s.metadata = meta /\ s.open = m.store.open
      /\ s.uncommitted = m.store.uncommitted /\ s.file = m.store.file
  BY <1>1 DEF LooseStore
<1>3. q = [m EXCEPT !.store = s]
  BY DEF WithMeta
<1> HIDE DEF s
<1>4. FileHeld(m.device, s)
  <2>1. FileHeld(m.device, m.store)
    BY DEF Sound
  <2> QED
    BY <1>2, <2>1 DEF FileHeld
<1> QED
  BY <1>2, <1>3, <1>4, StoreSound

(* What Committed looks at.                                                 *)
LEMMA CommittedSame ==
    ASSUME NEW d, NEW s, Committed(d, s), NEW e, e.slots = d.slots,
           NEW t, t.metadata.generation = s.metadata.generation,
           t.metadata.kind = s.metadata.kind,
           t.metadata.downloaded = s.metadata.downloaded,
           t.uncommitted = s.uncommitted
    PROVE  Committed(e, t)
BY DEF Committed, Present, Newest, Last, Former

LEMMA RestartSound ==
    ASSUME NEW m, Sound(m), NEW q, q = Restart(m)
    PROVE  /\ Sound(q) /\ q.error = m.error
           /\ q.store.open = m.store.open /\ q.device.open = m.device.open
           /\ q.store.uncommitted = 0
           /\ Sized(q.device, q.store)
           /\ Committed(q.device, q.store)
           /\ q.store.metadata.sum = <<>>
<1> DEFINE removed == RemoveData(m)
           zeroed == [removed EXCEPT !.store.metadata = ZeroMetadata]
<1>1. /\ Sound(removed)
      /\ removed.store = [m.store EXCEPT !.file = None]
      /\ removed.error = m.error
      /\ removed.device = [m.device EXCEPT !.data = <<>>,
                                           !.openFiles = @ \ {m.store.file},
                                           !.files = removed.device.files]
  BY RemoveDataSound
<1>2. q = SaveMetadata(zeroed)
  BY DEF Restart
<1> HIDE DEF removed
<1>3. removed.store.open = m.store.open
  BY <1>1, SoundTypes DEF LooseStore
<1>4. removed.device.data = <<>> /\ removed.device.open = m.device.open
  <2> DEFINE o == m.device.openFiles \ {m.store.file}
             f == removed.device.files
  <2>1. removed.device = [m.device EXCEPT !.data = <<>>, !.openFiles = o, !.files = f]
    BY <1>1
  <2>2. m.device \in Device
    BY SoundTypes
  <2> HIDE DEF o, f
  <2> QED
    BY <2>1, <2>2 DEF Device
<1>4a. zeroed = WithMeta(removed, ZeroMetadata)
  BY DEF WithMeta
<1> HIDE DEF zeroed
<1>5. /\ Sound(zeroed)
      /\ zeroed.device = removed.device /\ zeroed.error = removed.error
      /\ zeroed.store.metadata = ZeroMetadata /\ zeroed.store.open = removed.store.open
  <2>1. Sound(removed)
    BY <1>1
  <2> QED
    BY <1>4a, <2>1, MetaSound, ZeroMetadataOK
<1>6. Sized(zeroed.device, zeroed.store) /\ zeroed.store.metadata.downloaded = 0
  BY <1>4, <1>5, FreshType DEF Sized
<1>7. /\ Sound(q) /\ q.error = zeroed.error
      /\ q.store.open = zeroed.store.open /\ q.device.open = zeroed.device.open
      /\ q.store.uncommitted = 0
      /\ Sized(q.device, q.store)
      /\ Committed(q.device, q.store)
      /\ q.store.metadata.sum = zeroed.store.metadata.sum
  BY <1>2, <1>5, <1>6, SaveCommitted
<1> QED
  BY <1>1, <1>3, <1>4, <1>5, <1>7, FreshType

LEMMA MarkCompleteSound ==
    ASSUME NEW m, Sound(m),
           Truthful =>
               /\ m.store.metadata.validator \in Versions
               /\ IsBeginning(m.store.metadata.sum, m.store.metadata.validator)
               /\ m.store.metadata.stated
                  /\ m.store.metadata.total \in {0, m.store.metadata.downloaded}
                     => m.store.metadata.sum = Version(m.store.metadata.validator),
           NEW q, q = MarkComplete(m)
    PROVE  /\ Sound(q)
           /\ m.error = "Ok" /\ q.error = "Ok" /\ Sized(m.device, m.store)
              /\ Committed(m.device, m.store) =>
                  /\ q.store.open = m.store.open /\ q.device.open = m.device.open
                  /\ q.store.uncommitted = 0
                  /\ Sized(q.device, q.store)
                  /\ Committed(q.device, q.store)
                  /\ Newest(q.device, q.store)
                  /\ q.store.metadata.sum = m.store.metadata.sum
                  /\ q.store.metadata.validator = m.store.metadata.validator
                  /\ q.store.metadata.stated = m.store.metadata.stated
                  /\ q.store.metadata.total = m.store.metadata.total
<1> DEFINE old == m.store.metadata
           meta == [old EXCEPT !.complete = TRUE]
           marked == [m EXCEPT !.store.metadata = meta]
<1>1. old \in Metadata /\ MetaOK(old)
  BY SoundTypes
<1>2. /\ meta \in Metadata /\ meta.generation = old.generation /\ meta.kind = old.kind
      /\ meta.downloaded = old.downloaded /\ meta.sum = old.sum
      /\ meta.validator = old.validator
      /\ meta.stated = old.stated /\ meta.total = old.total
  BY <1>1 DEF Metadata
<1>3. old.total \in {0, old.downloaded} => MetaOK(meta)
  BY <1>2 DEF MetaOK, IsTrue, Vouched
<1>4. marked = [m EXCEPT !.store.metadata.complete = TRUE]
  OBVIOUS
<1>5. q = IF old.total \notin {0, old.downloaded}
          THEN Fail(m, "CorruptDatabase") ELSE SaveMetadata(marked)
  BY <1>4 DEF MarkComplete
<1>5a. marked = WithMeta(m, meta)
  BY DEF WithMeta
<1> HIDE DEF meta, marked
<1>7. CASE old.total \notin {0, old.downloaded}
  <2>1. q = Fail(m, "CorruptDatabase") /\ "CorruptDatabase" \in Errors
    BY <1>5, <1>7 DEF Errors
  <2> QED
    BY <2>1, FailSound
<1>8. CASE old.total \in {0, old.downloaded}
  <2>0. /\ Sound(marked)
        /\ marked.device = m.device /\ marked.error = m.error
        /\ marked.store.metadata = meta /\ marked.store.open = m.store.open
        /\ marked.store.uncommitted = m.store.uncommitted /\ marked.store.file = m.store.file
    BY <1>3, <1>5a, <1>8, MetaSound
  <2>1. q = SaveMetadata(marked)
    BY <1>5, <1>8
  <2>2. Sound(q)
    BY <2>0, <2>1, SaveSound
  <2>3. ASSUME Sized(m.device, m.store), Committed(m.device, m.store)
        PROVE  /\ q.store.open = m.store.open /\ q.device.open = m.device.open
               /\ q.store.uncommitted = 0
               /\ Sized(q.device, q.store)
               /\ Committed(q.device, q.store)
               /\ Newest(q.device, q.store)
               /\ q.store.metadata.sum = m.store.metadata.sum
               /\ q.store.metadata.validator = m.store.metadata.validator
               /\ q.store.metadata.stated = m.store.metadata.stated
               /\ q.store.metadata.total = m.store.metadata.total
    <3>1. Sized(marked.device, marked.store)
      BY <1>2, <2>0, <2>3 DEF Sized
    <3>2. Present(marked.device, marked.store)
      BY <1>2, <2>0, <2>3 DEF Committed, Present, Last
    <3> QED
      BY <1>2, <2>0, <2>1, <3>1, <3>2, SaveCommitted
  <2> QED
    BY <2>2, <2>3
<1> QED
  BY <1>7, <1>8

LEMMA DescribedOK ==
    ASSUME NEW meta, MetaOK(meta), NEW r \in Response,
           Truthful => IsBeginning(meta.sum, r.version),
           NEW t, t = Described(meta, r)
    PROVE  /\ MetaOK(t)
           /\ t.validator = r.version
           /\ t.generation = meta.generation /\ t.downloaded = meta.downloaded
           /\ t.kind = meta.kind /\ t.sum = meta.sum
           /\ ~r.framed => Measured(t)
<1> DEFINE name == IF r.name # None THEN r.name
                   ELSE IF meta.name = NoName THEN DefaultName ELSE meta.name
           total == IF r.sized THEN Length[r.version] ELSE meta.total
           stated == r.sized \/ r.framed
<1>1. /\ meta \in Metadata /\ r.version \in Versions /\ r.name \in Names
      /\ r.sized \in BOOLEAN /\ r.framed \in BOOLEAN
  BY DEF MetaOK, Response
<1>2. name \in FileNames
  BY <1>1, Constants DEF Metadata
<1>3. total \in Nat
  BY <1>1, Constants DEF Metadata
<1>4. t = [meta EXCEPT !.validator = r.version, !.name = name, !.total = total,
                       !.complete = FALSE, !.stated = stated]
  BY <1>1 DEF Described, Metadata
<1>4a. stated \in BOOLEAN /\ (~r.framed /\ stated => total = Length[r.version])
  BY <1>1
<1> HIDE DEF name, total, stated
<1>5. /\ t \in Metadata
      /\ t.validator = r.version /\ ~t.complete
      /\ t.stated = stated /\ t.total = total
      /\ t.generation = meta.generation /\ t.downloaded = meta.downloaded
      /\ t.kind = meta.kind /\ t.sum = meta.sum
  BY <1>1, <1>2, <1>3, <1>4, <1>4a DEF Metadata
<1> QED
  BY <1>1, <1>4a, <1>5 DEF MetaOK, IsTrue, Vouched, Measured

LEMMA PlacedSound ==
    ASSUME NEW m, Sound(m), m.error = "Ok", Sized(m.device, m.store),
           NEW fails \in BOOLEAN, NEW q, q = Placed(m, fails)
    PROVE  /\ Sound(q) /\ q.error = "Ok"
           /\ q.device.slots = m.device.slots /\ q.device.open = m.device.open
           /\ q.store.open = m.store.open
           /\ Sized(q.device, q.store)
           /\ q.store.metadata.generation = m.store.metadata.generation
           /\ q.store.metadata.downloaded = m.store.metadata.downloaded
           /\ q.store.metadata.sum = m.store.metadata.sum
           /\ q.store.metadata.validator = m.store.metadata.validator
           /\ q.store.metadata.stated = m.store.metadata.stated
           /\ q.store.metadata.total = m.store.metadata.total
<1> DEFINE filed == TryOpenVfs(m, fails)
           old == m.store.metadata
           name == old.name
           opens == /\ m.device.card /\ ~fails
                    /\ name \notin m.device.openFiles
                    /\ old.downloaded <= Len(Content(m.device, name))
           p == filed.store.metadata.path
           f == filed.store.file
<1>1. q = IF old.downloaded # 0 THEN m
          ELSE IF Succeeded(filed)
               THEN [filed EXCEPT !.store.metadata.kind = "vfs"]
               ELSE [filed EXCEPT !.error = "Ok"]
  BY DEF Placed
<1>2. CASE old.downloaded # 0
  BY <1>1, <1>2
<1>3. CASE old.downloaded = 0
  <2>1. /\ Sound(filed)
        /\ filed.error = "Ok" <=> opens
        /\ filed.store = Repathed(m.store, p, f)
        /\ filed.device = [m.device EXCEPT !.files = filed.device.files,
                                           !.openFiles = filed.device.openFiles]
        /\ opens => f = name
        /\ ~opens => filed.device = m.device /\ f = m.store.file
    <3> HIDE DEF filed
    <3>1. \A c : c = TryOpenVfs(m, fails) =>
              /\ Sound(c)
              /\ c.error = "Ok" <=> opens
              /\ c.store = Repathed(m.store, c.store.metadata.path, c.store.file)
              /\ c.device = [m.device EXCEPT !.files = c.device.files,
                                             !.openFiles = c.device.openFiles]
              /\ opens => c.store.file = name
              /\ ~opens => c.device = m.device /\ c.store.file = m.store.file
      <4> TAKE c
      <4> HAVE c = TryOpenVfs(m, fails)
      <4>1. Tried(m, fails, c)
        BY TryOpenSound
      <4> QED
        BY <1>3, <4>1, Zenon DEF Tried
    <3> QED
      BY <3>1, Zenon DEF filed
  <2>2. m.device \in Device /\ m.store \in LooseStore /\ MetaOK(old) /\ old \in Metadata
        /\ name \in FileNames
    BY SoundTypes
  <2> HIDE DEF filed
  <2>3. p \in FileNames \cup {None} /\ f \in FileNames \cup {None}
    BY <2>1, SoundTypes
  <2> DEFINE meta == [old EXCEPT !.path = p]
  <2>4. filed.store.metadata = meta
    BY <2>1, <2>2, RepathedMeta
  <2>5. filed.store.open = m.store.open
    BY <2>1, <2>2, <2>3, RepathedType
  <2> DEFINE files == filed.device.files
             openFiles == filed.device.openFiles
  <2>6. filed.device.slots = m.device.slots /\ filed.device.open = m.device.open
        /\ filed.device.data = m.device.data
    <3>1. filed.device = [m.device EXCEPT !.files = files, !.openFiles = openFiles]
      BY <2>1
    <3> HIDE DEF files, openFiles
    <3> QED
      BY <2>2, <3>1 DEF Device
  <2>7. /\ meta \in Metadata /\ MetaOK(meta)
        /\ meta.generation = old.generation /\ meta.downloaded = old.downloaded
        /\ meta.sum = old.sum /\ meta.validator = old.validator /\ meta.kind = old.kind
        /\ meta.stated = old.stated /\ meta.total = old.total
    BY <2>2, <2>3, MetaPath DEF Metadata
  <2> HIDE DEF meta
  <2>8. old.downloaded = 0 /\ Len(old.sum) = 0
    BY <1>3 DEF Sized
  <2>9. CASE opens
    <3> DEFINE moved == [meta EXCEPT !.kind = "vfs"]
    <3>1. q = WithMeta(filed, moved)
      <4>1. q = [filed EXCEPT !.store.metadata = [filed.store.metadata EXCEPT !.kind = "vfs"]]
        BY <1>1, <1>3, <2>1, <2>9 DEF Succeeded
      <4> QED
        BY <2>4, <4>1 DEF WithMeta
    <3>2. /\ MetaOK(moved) /\ moved.kind = "vfs"
          /\ moved.generation = old.generation /\ moved.downloaded = old.downloaded
          /\ moved.sum = old.sum /\ moved.validator = old.validator
          /\ moved.stated = old.stated /\ moved.total = old.total
      BY <2>7 DEF MetaOK, IsTrue, Vouched, Metadata
    <3> HIDE DEF moved
    <3>3. /\ Sound(q)
          /\ q.device = filed.device /\ q.error = filed.error
          /\ q.store.metadata = moved /\ q.store.open = filed.store.open
          /\ q.store.file = filed.store.file
      BY <2>1, <3>1, <3>2, MetaSound
    <3>4. q.store.file # None
      BY <2>1, <2>2, <2>9, <3>3, Constants
    <3>5. Sized(q.device, q.store)
      BY <2>8, <3>2, <3>3, <3>4 DEF Sized
    <3> QED
      BY <2>1, <2>5, <2>6, <2>9, <3>2, <3>3, <3>5
  <2>10. CASE ~opens
    <3>1. q = [filed EXCEPT !.error = "Ok"]
      BY <1>1, <1>3, <2>1, <2>10 DEF Succeeded
    <3>2. q = Fail(filed, "Ok") /\ "Ok" \in Errors
      BY <3>1 DEF Fail, Errors
    <3>3. Sound(q) /\ q.device = filed.device /\ q.store = filed.store /\ q.error = "Ok"
      BY <2>1, <3>2, FailSound
    <3>4. Sized(q.device, q.store)
      <4>1. meta.kind = "vfs" => m.store.file # None
        BY <2>7 DEF Sized
      <4>2. meta.kind = "database" => meta.downloaded <= Len(m.device.data)
        BY <2>7 DEF Sized
      <4> QED
        BY <2>1, <2>4, <2>7, <2>8, <2>10, <3>3, <4>1, <4>2 DEF Sized
    <3> QED
      BY <2>4, <2>5, <2>6, <2>7, <3>3, <3>4
  <2> QED
    BY <2>9, <2>10
<1> QED
  BY <1>2, <1>3

LEMMA EmptyBeginning ==
    ASSUME NEW v \in Versions
    PROVE  IsBeginning(<<>>, v) /\ Take(Version(v), 0) = <<>>
<1>1. Length[v] \in Nat /\ Len(<<>>) = 0
  BY VersionSeq
<1>2. Take(Version(v), 0) = <<>>
  BY SubSeqEmpty DEF Take
<1> QED
  BY <1>1, <1>2 DEF IsBeginning

LEMMA WholeIsBeginning ==
    ASSUME NEW v \in Versions
    PROVE  IsBeginning(Version(v), v)
<1>1. /\ Version(v) \in Seq(Units) /\ Len(Version(v)) = Length[v]
      /\ Length[v] \in Nat
  BY VersionSeq
<1>2. Take(Version(v), Len(Version(v))) = Version(v)
  BY <1>1, SubSeqFull DEF Take
<1> QED
  BY <1>1, <1>2 DEF IsBeginning

(* What an accepted response brings ends the version it names.              *)
LEMMA BodyEndsVersion ==
    ASSUME NEW meta, MetaOK(meta), Truthful, meta.downloaded = Len(meta.sum),
           NEW r \in Responses(meta)
    PROVE  LET body == Body(r, meta.downloaded)
           IN  /\ r.version \in Versions
               /\ r.code = 200 => <<>> \o body = Version(r.version)
               /\ r.code = 206 /\ Continues(meta, r) =>
                     /\ IsBeginning(meta.sum, r.version)
                     /\ meta.sum \o body = Version(r.version)
               /\ r.code = 416 /\ meta.downloaded = Length[r.version] =>
                     /\ meta.validator = r.version
                     /\ meta.sum = Version(r.version)
                     /\ meta.sum \o body = Version(r.version)
<1> DEFINE body == Body(r, meta.downloaded)
           v == r.version
<1>1. /\ r \in Response
      /\ r.code = 206 => meta.downloaded \in 1..(Length[v] - 1)
      /\ r.code = 416 => v = meta.validator
  BY DEF Responses
<1>2. v \in Versions /\ r.page \in ErrorPages
  BY <1>1 DEF Response
<1>3. Version(v) \in Seq(Units) /\ Len(Version(v)) = Length[v] /\ Length[v] \in Nat \ {0}
  BY <1>2, VersionSeq
<1>4. meta.sum \in Seq(Units) /\ IsTrue(meta)
  BY DEF MetaOK, Metadata
<1> HIDE DEF v
<1>5. meta.downloaded # 0 => meta.validator \in Versions /\ IsBeginning(meta.sum, meta.validator)
  BY <1>4 DEF IsTrue
<1>6. ASSUME r.code = 200
      PROVE  <<>> \o body = Version(v)
  <2>1. body = Version(v)
    BY <1>6 DEF Body, v
  <2> QED
    BY <1>3, <2>1, ConcatEmptySeq
<1>7. ASSUME r.code = 206, Continues(meta, r)
      PROVE  IsBeginning(meta.sum, v) /\ meta.sum \o body = Version(v)
  <2>1. meta.downloaded # 0
    BY <1>1, <1>3, <1>7
  <2>2. meta.validator = v
    BY <1>5, <1>7, <2>1, Constants DEF Continues, v
  <2>3. IsBeginning(meta.sum, v)
    BY <1>5, <2>1, <2>2
  <2>4. body = Drop(Version(v), Len(meta.sum))
    BY <1>7 DEF Body, v
  <2> HIDE DEF body
  <2> QED
    BY <1>2, <1>4, <2>3, <2>4, RestOf
<1>8. ASSUME r.code = 416, meta.downloaded = Length[v]
      PROVE  meta.validator = v /\ meta.sum = Version(v) /\ meta.sum \o body = Version(v)
  <2>1. meta.downloaded # 0 /\ meta.validator = v
    BY <1>1, <1>3, <1>8
  <2>2. IsBeginning(meta.sum, v) /\ Len(meta.sum) = Len(Version(v))
    BY <1>3, <1>5, <1>8, <2>1
  <2>3. Take(Version(v), Len(Version(v))) = Version(v)
    BY <1>3, SubSeqFull DEF Take
  <2>4. meta.sum = Version(v)
    BY <2>2, <2>3 DEF IsBeginning
  <2>5. body = <<>>
    BY <1>2, <1>8 DEF Body, Truthful
  <2> QED
    BY <1>3, <2>1, <2>4, <2>5, ConcatEmptySeq
<1> QED
  BY <1>2, <1>6, <1>7, <1>8 DEF v, body

(* A response that is accepted leaves a commit, and ends its version.       *)
LEMMA AcceptSound ==
    ASSUME NEW m, Sound(m), m.error = "Ok", Ready(m.device, m.store),
           NEW r \in Responses(m.store.metadata), NEW fails \in BOOLEAN,
           NEW q, q = AcceptResponse(m, r, fails)
    PROVE  /\ Sound(q)
           /\ q.error = "Ok" =>
                 /\ Ready(q.device, q.store) /\ q.store.uncommitted = 0
                 /\ Newest(q.device, q.store)
                 /\ Truthful =>
                       /\ q.store.metadata.validator \in Versions
                       /\ q.store.metadata.sum \o Body(r, m.store.metadata.downloaded)
                             = Version(q.store.metadata.validator)
                 /\ ~r.framed => Measured(q.store.metadata)
<1> DEFINE meta == m.store.metadata
           body == Body(r, meta.downloaded)
           based == IF meta.downloaded # 0 /\ r.code = 200 THEN Restart(m) ELSE m
           text == Described(based.store.metadata, r)
           described == WithMeta(based, text)
           placed == Placed(described, fails)
           sized == [meta EXCEPT !.total = Length[r.version], !.stated = TRUE]
           counted == WithMeta(m, sized)
<1>1. /\ meta \in Metadata /\ MetaOK(meta) /\ meta.sum \in Seq(Units)
      /\ meta.downloaded = Len(meta.sum) /\ Committed(m.device, m.store)
      /\ Sized(m.device, m.store) /\ m.store.open /\ m.device.open
  BY SoundTypes DEF Ready, Sized
<1>2. r \in Response /\ r.version \in Versions
  BY DEF Responses, Response
<1>3. Truthful =>
          /\ r.code = 200 => <<>> \o body = Version(r.version)
          /\ r.code = 206 /\ Continues(meta, r) =>
                /\ IsBeginning(meta.sum, r.version)
                /\ meta.sum \o body = Version(r.version)
          /\ r.code = 416 /\ meta.downloaded = Length[r.version] =>
                /\ meta.validator = r.version
                /\ meta.sum = Version(r.version)
                /\ meta.sum \o body = Version(r.version)
  BY <1>1, BodyEndsVersion
<1>4. q = IF r.code = 416 /\ meta.downloaded = Length[r.version]
          THEN MarkComplete(counted)
          ELSE IF r.code = 200 \/ Continues(meta, r)
               THEN SaveMetadata(placed)
               ELSE Fail(m, IF meta.downloaded # 0 THEN "CorruptDatabase"
                                                   ELSE "InvalidParam")
  <2>1. counted = [m EXCEPT !.store.metadata.total = Length[r.version],
                            !.store.metadata.stated = TRUE]
    <3>1. m \in OpValue /\ m.store \in LooseStore /\ meta \in Metadata
      BY SoundTypes DEF Sound
    <3> QED
      BY <3>1 DEF WithMeta, OpValue, LooseStore, Metadata
  <2>2. described = [based EXCEPT !.store.metadata = text]
    BY DEF WithMeta
  <2> DEFINE full == [m EXCEPT !.store.metadata.total = Length[r.version],
                               !.store.metadata.stated = TRUE]
             other == [based EXCEPT !.store.metadata = text]
  <2>3. q = IF r.code = 416 /\ meta.downloaded = Length[r.version]
            THEN MarkComplete(full)
            ELSE IF r.code = 200 \/ Continues(meta, r)
                 THEN SaveMetadata(Placed(other, fails))
                 ELSE Fail(m, IF meta.downloaded # 0 THEN "CorruptDatabase"
                                                     ELSE "InvalidParam")
    BY DEF AcceptResponse
  <2>4. counted = full /\ described = other
    BY <2>1, <2>2
  <2> HIDE DEF counted, described, full, other
  <2> QED
    BY <2>3, <2>4, Zenon
<1>5. CASE r.code = 416 /\ meta.downloaded = Length[r.version]
  <2>0. Truthful => /\ meta.validator = r.version
                    /\ meta.sum = Version(r.version)
                    /\ IsBeginning(meta.sum, r.version)
    BY <1>2, <1>3, <1>5, WholeIsBeginning
  <2>1. /\ MetaOK(sized)
        /\ sized.generation = meta.generation /\ sized.kind = meta.kind
        /\ sized.downloaded = meta.downloaded /\ sized.sum = meta.sum
        /\ sized.validator = meta.validator /\ sized.total = Length[r.version]
    <3>1. /\ sized \in Metadata
          /\ sized.generation = meta.generation /\ sized.kind = meta.kind
          /\ sized.downloaded = meta.downloaded /\ sized.sum = meta.sum
          /\ sized.validator = meta.validator /\ sized.total = Length[r.version]
      BY <1>1, <1>2, VersionSeq DEF Metadata
    <3> HIDE DEF sized
    <3> QED
      BY <1>2, <2>0, <3>1 DEF MetaOK, IsTrue
  <2>2. counted = WithMeta(m, sized)
    OBVIOUS
  <2> HIDE DEF sized, counted
  <2>3. /\ Sound(counted)
        /\ counted.device = m.device /\ counted.error = "Ok"
        /\ counted.store.metadata = sized /\ counted.store.open = m.store.open
        /\ counted.store.uncommitted = m.store.uncommitted
        /\ counted.store.file = m.store.file
    BY <2>1, <2>2, MetaSound
  <2>4. Truthful => /\ counted.store.metadata.validator \in Versions
                    /\ IsBeginning(counted.store.metadata.sum,
                                   counted.store.metadata.validator)
                    /\ counted.store.metadata.sum
                          = Version(counted.store.metadata.validator)
    BY <1>2, <2>0, <2>1, <2>3
  <2>5. Sized(counted.device, counted.store)
    BY <1>1, <2>1, <2>3 DEF Sized
  <2>6. Committed(counted.device, counted.store)
    BY <1>1, <2>1, <2>3, CommittedSame
  <2>7. q = MarkComplete(counted)
    BY <1>4, <1>5
  <2>8. Sound(q)
    BY <2>3, <2>4, <2>7, MarkCompleteSound
  <2>9. q.error = "Ok" =>
            /\ q.store.open = counted.store.open /\ q.device.open = counted.device.open
            /\ q.store.uncommitted = 0
            /\ Sized(q.device, q.store)
            /\ Committed(q.device, q.store)
            /\ Newest(q.device, q.store)
            /\ q.store.metadata.sum = counted.store.metadata.sum
            /\ q.store.metadata.validator = counted.store.metadata.validator
            /\ q.store.metadata.stated = counted.store.metadata.stated
            /\ q.store.metadata.total = counted.store.metadata.total
    BY <2>3, <2>4, <2>5, <2>6, <2>7, MarkCompleteSound
  <2>10. Truthful =>
             /\ counted.store.metadata.validator = r.version
             /\ counted.store.metadata.sum \o body = Version(r.version)
    BY <1>3, <1>5, <2>1, <2>3
  <2>11. counted.store.open /\ counted.device.open
    BY <1>1, <2>3
  <2> HIDE DEF body
  <2>12. q.error = "Ok" => Ready(q.device, q.store)
    BY <2>9, <2>11 DEF Ready
  <2>13. q.error = "Ok" /\ Truthful =>
             /\ q.store.metadata.validator \in Versions
             /\ q.store.metadata.sum \o body = Version(q.store.metadata.validator)
    BY <1>2, <2>9, <2>10
  <2>14. q.error = "Ok" => Measured(q.store.metadata)
    <3>1. meta.validator = r.version
      BY <1>2, <1>5 DEF Responses
    <3> QED
      BY <2>1, <2>3, <2>9, <3>1 DEF Measured
  <2> QED
    BY <2>8, <2>9, <2>12, <2>13, <2>14 DEF body
<1>6. CASE /\ ~(r.code = 416 /\ meta.downloaded = Length[r.version])
           /\ r.code = 200 \/ Continues(meta, r)
  <2>1. q = SaveMetadata(placed) /\ r.code \in {200, 206}
    BY <1>4, <1>6 DEF Continues
  <2>2. /\ Sound(based) /\ based.error = "Ok"
        /\ based.store.open /\ based.device.open
        /\ Sized(based.device, based.store)
        /\ Committed(based.device, based.store)
        /\ r.code = 200 => based.store.metadata.sum = <<>>
        /\ r.code = 206 => based.store.metadata.sum = meta.sum
    <3>1. CASE meta.downloaded # 0 /\ r.code = 200
      BY <1>1, <3>1, RestartSound
    <3>2. CASE ~(meta.downloaded # 0 /\ r.code = 200)
      <4>1. r.code = 200 => Len(meta.sum) = 0
        BY <1>1, <3>2
      <4>2. r.code = 200 => meta.sum = <<>>
        BY <1>1, <4>1, EmptySeq
      <4> QED
        BY <1>1, <3>2, <4>2
    <3> QED
      BY <3>1, <3>2
  <2> HIDE DEF based
  <2>3. MetaOK(based.store.metadata)
    BY <2>2, SoundTypes
  <2>4. Truthful =>
            /\ IsBeginning(based.store.metadata.sum, r.version)
            /\ based.store.metadata.sum \o body = Version(r.version)
    <3>1. r.code = 206 => Continues(meta, r)
      BY <1>6
    <3> DEFINE t == based.store.metadata.sum
    <3> HIDE DEF body, t
    <3>2. CASE r.code = 200
      <4>1. t = <<>>
        BY <2>2, <3>2 DEF t
      <4> QED
        BY <1>2, <1>3, <3>2, <4>1, EmptyBeginning DEF t
    <3>3. CASE r.code = 206
      <4>1. t = meta.sum
        BY <2>2, <3>3 DEF t
      <4> QED
        BY <1>3, <3>1, <3>3, <4>1 DEF t
    <3> QED
      BY <2>1, <3>2, <3>3
  <2>5. /\ MetaOK(text)
        /\ text.validator = r.version
        /\ text.generation = based.store.metadata.generation
        /\ text.downloaded = based.store.metadata.downloaded
        /\ text.kind = based.store.metadata.kind
        /\ text.sum = based.store.metadata.sum
        /\ ~r.framed => Measured(text)
    <3> DEFINE old == based.store.metadata
    <3>1. MetaOK(old) /\ text = Described(old, r) /\ r \in Response
          /\ (Truthful => IsBeginning(old.sum, r.version))
      BY <1>2, <2>3, <2>4
    <3> HIDE DEF old, text
    <3>2. /\ MetaOK(text) /\ text.validator = r.version
          /\ text.generation = old.generation /\ text.downloaded = old.downloaded
          /\ text.kind = old.kind /\ text.sum = old.sum
          /\ ~r.framed => Measured(text)
      BY <3>1, DescribedOK
    <3> QED
      BY <3>2 DEF old
  <2>6. described = WithMeta(based, text)
    OBVIOUS
  <2> HIDE DEF text, described
  <2>7. /\ Sound(described)
        /\ described.device = based.device /\ described.error = "Ok"
        /\ described.store.metadata = text /\ described.store.open = based.store.open
        /\ described.store.file = based.store.file
    <3>1. Sound(based) /\ MetaOK(text) /\ based.error = "Ok"
      BY <2>2, <2>5
    <3> QED
      BY <2>6, <3>1, MetaSound
  <2>8. Sized(described.device, described.store)
    BY <2>2, <2>5, <2>7 DEF Sized
  <2>9. placed = Placed(described, fails)
    OBVIOUS
  <2> HIDE DEF placed
  <2>10. /\ Sound(placed) /\ placed.error = "Ok"
         /\ placed.device.slots = described.device.slots
         /\ placed.device.open = described.device.open
         /\ placed.store.open = described.store.open
         /\ Sized(placed.device, placed.store)
         /\ placed.store.metadata.generation = text.generation
         /\ placed.store.metadata.downloaded = text.downloaded
         /\ placed.store.metadata.sum = text.sum
         /\ placed.store.metadata.validator = text.validator
         /\ placed.store.metadata.stated = text.stated
         /\ placed.store.metadata.total = text.total
    BY <2>7, <2>8, <2>9, PlacedSound
  <2>11. Present(placed.device, placed.store)
    BY <2>2, <2>5, <2>7, <2>10 DEF Committed, Present, Last
  <2>12. /\ Sound(q)
         /\ q.store.open = placed.store.open /\ q.device.open = placed.device.open
         /\ q.store.uncommitted = 0
         /\ Sized(q.device, q.store)
         /\ Committed(q.device, q.store)
         /\ Newest(q.device, q.store)
         /\ q.store.metadata.sum = placed.store.metadata.sum
         /\ q.store.metadata.validator = placed.store.metadata.validator
         /\ q.store.metadata.stated = placed.store.metadata.stated
         /\ q.store.metadata.total = placed.store.metadata.total
    BY <2>1, <2>10, <2>11, SaveCommitted
  <2>13. ~r.framed => Measured(q.store.metadata)
    BY <2>5, <2>10, <2>12 DEF Measured
  <2> QED
    BY <1>2, <2>2, <2>4, <2>5, <2>7, <2>10, <2>12, <2>13 DEF Ready
<1>7. CASE ~(r.code = 416 /\ meta.downloaded = Length[r.version])
           /\ ~(r.code = 200 \/ Continues(meta, r))
  <2>1. PICK e \in {"CorruptDatabase", "InvalidParam"} : q = Fail(m, e)
    BY <1>4, <1>7
  <2>2. e \in Errors /\ e # "Ok"
    BY DEF Errors
  <2>3. Sound(q) /\ q.error # "Ok"
    BY <2>1, <2>2, FailSound
  <2> QED
    BY <2>3
<1> QED
  BY <1>5, <1>6, <1>7

-----------------------------------------------------------------------------
(* Appending.                                                               *)

LEMMA RoundedUpBound ==
    ASSUME NEW n \in Nat
    PROVE  RoundedUp(n) \in Nat /\ RoundedUp(n) >= n
<1>1. RecordSize \in Nat /\ RecordSize >= 1
  BY Constants
<1> DEFINE x == n + RecordSize - 1
           k == x \div RecordSize
<1>2. x \in Nat
  BY <1>1
<1> HIDE DEF x
<1>3. k \in Nat /\ x = RecordSize * k + (x % RecordSize) /\ x % RecordSize \in 0..(RecordSize - 1)
  BY <1>1, <1>2
<1>4. RoundedUp(n) = k * RecordSize
  BY DEF RoundedUp, x
<1> HIDE DEF k
<1> DEFINE y == k * RecordSize
           z == x % RecordSize
<1>5. y \in Nat /\ y = RecordSize * k
  BY <1>1, <1>3
<1>6. x = y + z /\ z \in 0..(RecordSize - 1)
  BY <1>3, <1>5
<1> HIDE DEF y, z
<1>7. y >= n
  BY <1>1, <1>2, <1>5, <1>6 DEF x
<1> QED
  BY <1>4, <1>5, <1>7 DEF y

LEMMA PutFileOK ==
    ASSUME NEW d, DeviceOK(d), NEW path \in FileNames, d.files[path] # None,
           NEW units \in Seq(Units), NEW e, e = PutFile(d, path, units)
    PROVE  /\ DeviceOK(e)
           /\ e.slots = d.slots /\ e.open = d.open /\ e.data = d.data
           /\ e.openFiles = d.openFiles /\ e.files[path] # None
<1> DEFINE content == d.files[path] \o units
           files == [d.files EXCEPT ![path] = content]
<1>1. d \in Device /\ d.files \in [FileNames -> Seq(Units) \cup {None}]
  BY FilesType DEF DeviceOK
<1>2. content \in Seq(Units) /\ content # None
  <2>1. d.files[path] \in Seq(Units)
    BY <1>1
  <2>2. content \in Seq(Units)
    BY <2>1, ConcatProperties
  <2> QED
    BY <2>2, Constants
<1>3. e = [d EXCEPT !.files = files]
  BY <1>1 DEF PutFile, Device
<1> HIDE DEF content
<1>4. files \in [FileNames -> Seq(Units) \cup {None}] /\ files[path] = content
  BY <1>1, <1>2
<1> HIDE DEF files
<1>5. /\ e \in Device /\ e.slots = d.slots /\ e.open = d.open /\ e.data = d.data
      /\ e.openFiles = d.openFiles /\ e.files = files
  BY <1>1, <1>3, <1>4 DEF Device
<1> QED
  BY <1>2, <1>4, <1>5, SameSlots

LEMMA PutRecordsOK ==
    ASSUME NEW d, DeviceOK(d), NEW at \in Nat, at <= Len(d.data),
           NEW units \in Seq(Units), NEW e, e = PutRecords(d, at, units)
    PROVE  /\ DeviceOK(e)
           /\ e.slots = d.slots /\ e.open = d.open /\ e.files = d.files
           /\ e.openFiles = d.openFiles
           /\ at + Len(units) <= Len(e.data)
<1> DEFINE end == at + Len(units)
           size == IF Len(d.data) < RoundedUp(end) THEN RoundedUp(end) ELSE Len(d.data)
           x(i) == CASE i \in (at + 1)..end -> units[i - at]
                   []   i \notin (at + 1)..end /\ i <= Len(d.data) -> d.data[i]
                   []   OTHER -> Blank
           data == [i \in 1..size |-> x(i)]
<1>1. d \in Device /\ d.data \in Seq(Units) /\ Len(d.data) \in Nat
  BY FilesType DEF DeviceOK
<1>2. Len(units) \in Nat /\ end \in Nat
  BY LenProperties
<1>3. RoundedUp(end) \in Nat /\ RoundedUp(end) >= end
  BY <1>2, RoundedUpBound
<1>4. size \in Nat /\ size >= end
  BY <1>1, <1>2, <1>3
<1>5. e = [d EXCEPT !.data = data]
  BY DEF PutRecords
<1>6. ASSUME NEW i \in 1..size
      PROVE  x(i) \in Units
  <2>1. Blank \in Units
    BY DEF Blank, Units
  <2>2. CASE i \in (at + 1)..end
    <3>1. i - at \in 1..Len(units)
      BY <1>2, <2>2
    <3>2. units[i - at] \in Units
      BY <3>1, ElementOfSeq
    <3> QED
      BY <2>2, <3>2
  <2>3. CASE i \notin (at + 1)..end /\ i <= Len(d.data)
    <3>1. i \in 1..Len(d.data)
      BY <1>1, <1>4, <2>3
    <3>2. d.data[i] \in Units
      BY <1>1, <3>1, ElementOfSeq
    <3> QED
      BY <2>3, <3>2
  <2>4. CASE i \notin (at + 1)..end /\ ~(i <= Len(d.data))
    BY <2>1, <2>4
  <2> QED
    BY <2>2, <2>3, <2>4
<1> HIDE DEF x, size
<1>7. data \in Seq(Units) /\ Len(data) = size
  BY <1>4, <1>6
<1> HIDE DEF data
<1>8. /\ e \in Device /\ e.slots = d.slots /\ e.open = d.open /\ e.files = d.files
      /\ e.openFiles = d.openFiles /\ e.data = data
  BY <1>1, <1>5, <1>7 DEF Device
<1> QED
  BY <1>4, <1>7, <1>8, SameSlots

(* The device after n of the units have been written.                       *)
Put(m, units, n) ==
    IF m.store.metadata.kind = "vfs"
    THEN PutFile(m.device, m.store.file, Take(units, n))
    ELSE PutRecords(m.device, m.store.metadata.downloaded, Take(units, n))

LEMMA PutOK ==
    ASSUME NEW m, Sound(m), Sized(m.device, m.store), NEW units \in Seq(Units),
           NEW n \in 0..Len(units), NEW e, e = Put(m, units, n)
    PROVE  /\ DeviceOK(e)
           /\ e.slots = m.device.slots /\ e.open = m.device.open
           /\ FileHeld(e, m.store)
           /\ m.store.metadata.kind = "database" =>
                 m.store.metadata.downloaded + n <= Len(e.data)
<1> DEFINE taken == Take(units, n)
           at == m.store.metadata.downloaded
<1>1. taken \in Seq(Units) /\ Len(taken) = n
  BY TakeSeq
<1>2. /\ DeviceOK(m.device) /\ FileHeld(m.device, m.store)
      /\ at \in Nat /\ m.store.metadata.kind \in {"database", "vfs"}
      /\ m.store.file \in FileNames \cup {None}
  BY SoundTypes DEF Sound
<1> HIDE DEF taken
<1>3. CASE m.store.metadata.kind = "vfs"
  <2>1. /\ m.store.file \in FileNames /\ m.device.files[m.store.file] # None
        /\ m.store.file \in m.device.openFiles
    BY <1>2, <1>3 DEF FileHeld, Sized
  <2>2. e = PutFile(m.device, m.store.file, taken)
    BY <1>3 DEF Put, taken
  <2>3. /\ DeviceOK(e)
        /\ e.slots = m.device.slots /\ e.open = m.device.open
        /\ e.openFiles = m.device.openFiles /\ e.files[m.store.file] # None
    BY <1>1, <1>2, <2>1, <2>2, PutFileOK
  <2> QED
    BY <1>3, <2>1, <2>3 DEF FileHeld
<1>4. CASE m.store.metadata.kind = "database"
  <2>1. at <= Len(m.device.data)
    BY <1>4 DEF Sized
  <2>2. e = PutRecords(m.device, at, taken)
    BY <1>4 DEF Put, taken
  <2> HIDE DEF at
  <2>3. /\ DeviceOK(e)
        /\ e.slots = m.device.slots /\ e.open = m.device.open /\ e.files = m.device.files
        /\ e.openFiles = m.device.openFiles
        /\ at + n <= Len(e.data)
    BY <1>1, <1>2, <2>1, <2>2, PutRecordsOK
  <2> QED
    BY <1>2, <2>3 DEF FileHeld, at
<1> QED
  BY <1>2, <1>3, <1>4

(* How much of what is appended can be written.                             *)
LEMMA StorableRange ==
    ASSUME NEW m, Sound(m), Sized(m.device, m.store), NEW n \in Nat
    PROVE  Storable(m, n) \subseteq 0..n
<1>1. /\ m.device \in Device /\ Len(m.device.data) \in Nat
      /\ m.store.metadata.downloaded \in Nat
      /\ m.store.metadata.kind \in {"database", "vfs"}
  BY SoundTypes, FilesType
<1> DEFINE room == Len(m.device.data) - m.store.metadata.downloaded
           onCard == m.store.metadata.kind = "vfs"
<1>2. Storable(m, n) =
          {n} \cup (IF onCard /\ "ShortWrite" \in Faults THEN 0..(n - 1) ELSE {})
              \cup (IF ~onCard /\ "NoRecord" \in Faults /\ room < n THEN {room} ELSE {})
  BY DEF Storable
<1>3. ~onCard => room \in Nat
  BY <1>1 DEF Sized
<1> HIDE DEF room, onCard
<1>4. ASSUME ~onCard, room < n
      PROVE  room \in 0..n
  BY <1>3, <1>4
<1>5. 0..(n - 1) \subseteq 0..n /\ n \in 0..n
  OBVIOUS
<1> QED
  BY <1>2, <1>4, <1>5

Grown(meta, units) ==
    [meta EXCEPT !.downloaded = @ + Len(units), !.sum = @ \o units]

(* What is appended continues the version the store is of.                  *)
LEMMA AppendedTrue ==
    ASSUME NEW meta, MetaOK(meta), NEW units \in Seq(Units), Len(units) # 0,
           NEW rest \in Seq(Units),
           Truthful => /\ meta.validator \in Versions
                       /\ (meta.sum \o units) \o rest = Version(meta.validator),
           NEW t, t = Grown(meta, units)
    PROVE  /\ MetaOK(t)
           /\ t.downloaded = meta.downloaded + Len(units) /\ t.sum = meta.sum \o units
           /\ t.generation = meta.generation /\ t.kind = meta.kind
           /\ t.validator = meta.validator
           /\ t.stated = meta.stated /\ t.total = meta.total
<1> DEFINE sum == meta.sum \o units
           size == meta.downloaded + Len(units)
<1>1. meta \in Metadata /\ meta.sum \in Seq(Units) /\ meta.downloaded \in Nat
  BY DEF MetaOK, Metadata
<1>2. sum \in Seq(Units) /\ Len(sum) = Len(meta.sum) + Len(units)
      /\ Len(meta.sum) \in Nat /\ Len(units) \in Nat
  BY <1>1, ConcatProperties, LenProperties
<1>3. size \in Nat
  BY <1>1, <1>2
<1>4. t = [meta EXCEPT !.downloaded = size, !.sum = sum]
  BY <1>1 DEF Metadata, Grown
<1>5. ASSUME Truthful
      PROVE  IsBeginning(sum, meta.validator) /\ ~Vouched(meta)
  <2>1. meta.validator \in Versions /\ sum \o rest = Version(meta.validator)
    BY <1>5
  <2> HIDE DEF sum
  <2>2. IsBeginning(sum, meta.validator)
    BY <1>2, <2>1, BeginningOf
  <2>3. Len(sum) <= Length[meta.validator] /\ Length[meta.validator] \in Nat
    BY <2>1, <2>2, VersionSeq DEF IsBeginning
  <2>4. meta.sum # Version(meta.validator)
    BY <1>2, <2>1, <2>3, VersionSeq
  <2> QED
    BY <1>5, <2>2, <2>4 DEF MetaOK, IsTrue
<1> HIDE DEF sum, size
<1>6. /\ t \in Metadata /\ t.downloaded = size /\ t.sum = sum
      /\ t.generation = meta.generation /\ t.kind = meta.kind
      /\ t.validator = meta.validator /\ t.complete = meta.complete
      /\ t.stated = meta.stated /\ t.total = meta.total
  BY <1>1, <1>2, <1>3, <1>4 DEF Metadata
<1>7. MetaOK(t)
  BY <1>5, <1>6 DEF MetaOK, IsTrue, Vouched
<1> QED
  BY <1>6, <1>7 DEF sum, size

(* What an append writes, and what it makes of the store.                   *)
AppendedBy(m, units, written, put, q) ==
    LET meta == m.store.metadata
        onCard == meta.kind = "vfs"
        s == [m.store EXCEPT !.metadata = Grown(meta, units),
                             !.uncommitted = m.store.uncommitted + Len(units)]
        counted == [put EXCEPT !.store = s]
        short == [meta EXCEPT !.downloaded = @ + written]
    IN  /\ Sound(put) /\ put.device = Put(m, units, written)
        /\ put.store = m.store /\ put.error = "Ok"
        /\ put.trail = m.trail \cup {Put(m, units, n) : n \in 0..written}
        /\ q = IF written < Len(units)
               THEN Fail(IF onCard THEN put ELSE WithMeta(put, short),
                         IF onCard THEN "FileEOF" ELSE "NoMemory")
               ELSE IF CommitDue(counted.store.uncommitted) THEN SaveMetadata(counted)
                    ELSE counted

LEMMA AppendPuts ==
    ASSUME NEW m, Sound(m), m.error = "Ok", Sized(m.device, m.store),
           NEW units \in Seq(Units), NEW written \in 0..Len(units),
           NEW q, q = AppendData(m, units, written)
    PROVE  \E put : AppendedBy(m, units, written, put, q)
<1> DEFINE meta == m.store.metadata
           onCard == meta.kind = "vfs"
           d == Put(m, units, written)
           all == {Put(m, units, n) : n \in 0..written}
           put == [m EXCEPT !.device = d, !.trail = @ \cup all]
           grown == Grown(meta, units)
           sum == m.store.uncommitted + Len(units)
           s == [m.store EXCEPT !.metadata = grown, !.uncommitted = sum]
           counted == [put EXCEPT !.store = s]
           short == [meta EXCEPT !.downloaded = @ + written]
           cut == IF onCard THEN put ELSE WithMeta(put, short)
<1>1. m \in OpValue /\ m.store \in LooseStore /\ meta \in Metadata
  BY SoundTypes DEF Sound
<1>2. \A n \in 0..written : DeviceOK(Put(m, units, n)) /\ FileHeld(Put(m, units, n), m.store)
  <2>1. \A n \in 0..written : n \in 0..Len(units)
    BY LenProperties
  <2> QED
    BY <2>1, PutOK
<1>3. written \in 0..written
  BY LenProperties
<1>4. q = IF written < Len(units)
          THEN Fail(cut, IF onCard THEN "FileEOF" ELSE "NoMemory")
          ELSE IF CommitDue(counted.store.uncommitted) THEN SaveMetadata(counted)
               ELSE counted
  <2> DEFINE with(n) == IF onCard
                        THEN PutFile(m.device, m.store.file, Take(units, n))
                        ELSE PutRecords(m.device, meta.downloaded, Take(units, n))
             put0 == [m EXCEPT !.device = with(written),
                               !.trail = @ \cup {with(n) : n \in 0..written}]
             counted0 == [put0 EXCEPT !.store.metadata.downloaded = @ + Len(units),
                                      !.store.metadata.sum = @ \o units,
                                      !.store.uncommitted = @ + Len(units)]
             cut0 == IF onCard THEN put0
                     ELSE [put0 EXCEPT !.store.metadata.downloaded = @ + written]
  <2>1. q = IF written < Len(units)
            THEN Fail(cut0, IF onCard THEN "FileEOF" ELSE "NoMemory")
            ELSE IF CommitDue(counted0.store.uncommitted) THEN SaveMetadata(counted0)
                 ELSE counted0
    BY DEF AppendData
  <2>2. put0 = put
    BY DEF Put
  <2>3. put.store = m.store /\ put0.store = m.store
    BY <1>1 DEF OpValue
  <2> HIDE DEF put0, put
  <2>4. counted0 = counted
    <3> DEFINE s0 == [put0.store EXCEPT
                         !.metadata.downloaded = @ + Len(units),
                         !.metadata.sum = @ \o units,
                         !.uncommitted = @ + Len(units)]
    <3>1. counted0 = [put0 EXCEPT !.store = s0]
      BY <1>1, <2>3 DEF LooseStore, Metadata
    <3>2. s0 = s
      BY <1>1, <2>3 DEF LooseStore, Metadata, Grown
    <3> HIDE DEF s0, s
    <3> QED
      BY <2>2, <3>1, <3>2
  <2>5. cut0 = cut
    BY <1>1, <2>2, <2>3 DEF WithMeta
  <2> QED
    BY <2>1, <2>4, <2>5, Zenon
<1>5. DeviceOK(d) /\ FileHeld(d, m.store)
  BY <1>2, <1>3
<1>6. \A e \in all : DeviceOK(e)
  BY <1>2
<1>8. put = [device |-> d, store |-> m.store, error |-> "Ok", trail |-> m.trail \cup all]
  <2>1. put = [m EXCEPT !.device = d, !.trail = @ \cup all]
    OBVIOUS
  <2>2. m.error = "Ok"
    OBVIOUS
  <2> HIDE DEF d, all, put
  <2>3. put = [device |-> d, store |-> m.store, error |-> m.error, trail |-> m.trail \cup all]
    BY <1>1, <2>1 DEF OpValue
  <2> QED
    BY <2>2, <2>3
<1>9. Sound(put)
  <2> HIDE DEF d, all, put
  <2>1. \A e \in put.trail : DeviceOK(e)
    BY <1>6, <1>8 DEF Sound
  <2>2. put.trail \subseteq Device /\ d \in Device
    BY <1>5, <2>1 DEF DeviceOK
  <2>3. put \in OpValue
    BY <1>1, <1>8, <2>2 DEF OpValue, Errors
  <2> QED
    BY <1>1, <1>5, <1>8, <2>1, <2>3 DEF Sound
<1>10. /\ put.device = d /\ put.store = m.store /\ put.error = "Ok"
       /\ put.trail = m.trail \cup all
  BY <1>8
<1> QED
  BY <1>4, <1>9, <1>10, Zenon DEF AppendedBy

LEMMA AppendSound ==
    ASSUME NEW m, Sound(m), m.error = "Ok", Ready(m.device, m.store),
           Newest(m.device, m.store),
           NEW units \in Seq(Units), Len(units) # 0, NEW rest \in Seq(Units),
           Truthful => /\ m.store.metadata.validator \in Versions
                       /\ (m.store.metadata.sum \o units) \o rest
                             = Version(m.store.metadata.validator),
           NEW written \in Storable(m, Len(units)),
           NEW q, q = AppendData(m, units, written)
    PROVE  /\ Sound(q)
           /\ q.error = "Ok" =>
                 /\ Ready(q.device, q.store) /\ Newest(q.device, q.store)
                 /\ q.store.uncommitted < CommitInterval
                 /\ q.store.metadata.sum = m.store.metadata.sum \o units
                 /\ q.store.metadata.validator = m.store.metadata.validator
                 /\ q.store.metadata.stated = m.store.metadata.stated
                 /\ q.store.metadata.total = m.store.metadata.total
<1> DEFINE meta == m.store.metadata
           onCard == meta.kind = "vfs"
           d == Put(m, units, written)
           all == {Put(m, units, n) : n \in 0..written}
           grown == Grown(meta, units)
           sum == m.store.uncommitted + Len(units)
           s == [m.store EXCEPT !.metadata = grown, !.uncommitted = sum]
           short == [meta EXCEPT !.downloaded = @ + written]
<1>1. /\ m \in OpValue /\ m.store \in LooseStore /\ meta \in Metadata /\ MetaOK(meta)
      /\ meta.downloaded \in Nat /\ meta.sum \in Seq(Units)
      /\ meta.kind \in {"database", "vfs"} /\ meta.generation \in Nat
      /\ m.store.uncommitted \in Nat
      /\ Sized(m.device, m.store) /\ Committed(m.device, m.store)
      /\ m.store.open /\ m.device.open
  BY SoundTypes DEF Sound, LooseStore, Ready
<1>2. Len(units) \in Nat /\ written \in 0..Len(units) /\ written \in Nat
  <2>1. Len(units) \in Nat
    BY LenProperties
  <2> QED
    BY <1>1, <2>1, StorableRange
<1>3. \A n \in 0..written :
          /\ DeviceOK(Put(m, units, n))
          /\ Put(m, units, n).slots = m.device.slots
          /\ Put(m, units, n).open = m.device.open
          /\ FileHeld(Put(m, units, n), m.store)
          /\ meta.kind = "database" => meta.downloaded + n <= Len(Put(m, units, n).data)
  <2>1. \A n \in 0..written : n \in 0..Len(units)
    BY <1>2
  <2> QED
    BY <1>1, <2>1, PutOK
<1>4. PICK put : AppendedBy(m, units, written, put, q)
  BY <1>1, <1>2, AppendPuts
<1> DEFINE counted == [put EXCEPT !.store = s]
           cut == IF onCard THEN put ELSE WithMeta(put, short)
<1>5. /\ DeviceOK(d) /\ d.slots = m.device.slots /\ d.open = m.device.open
      /\ FileHeld(d, m.store)
      /\ meta.kind = "database" => meta.downloaded + written <= Len(d.data)
  BY <1>2, <1>3
<1>6. q = IF written < Len(units)
          THEN Fail(cut, IF onCard THEN "FileEOF" ELSE "NoMemory")
          ELSE IF CommitDue(counted.store.uncommitted) THEN SaveMetadata(counted)
               ELSE counted
  BY <1>4, Zenon DEF AppendedBy
<1>9. put.device = d /\ put.store = m.store /\ put.error = "Ok"
  BY <1>4, Zenon DEF AppendedBy
<1>10. Sound(put)
  BY <1>4, Zenon DEF AppendedBy
<1> HIDE DEF d, all
<1>11. CASE written < Len(units)
  <2>1. Sound(cut)
    <3>1. MetaOK(short)
      <4> DEFINE size == meta.downloaded + written
      <4>1. short = [meta EXCEPT !.downloaded = size]
        OBVIOUS
      <4>2. size \in Nat
        BY <1>1, <1>2
      <4> HIDE DEF short, size
      <4>3. /\ short \in Metadata /\ short.sum = meta.sum /\ short.complete = meta.complete
            /\ short.validator = meta.validator
            /\ short.stated = meta.stated /\ short.total = meta.total
        BY <1>1, <4>1, <4>2 DEF Metadata
      <4> QED
        BY <1>1, <4>3 DEF MetaOK, IsTrue, Vouched
    <3> DEFINE w == WithMeta(put, short)
    <3>2. w = WithMeta(put, short)
      OBVIOUS
    <3> HIDE DEF w, short
    <3>3. Sound(w)
      BY <1>10, <3>1, <3>2, MetaSound
    <3> QED
      BY <1>10, <3>2, <3>3
  <2>2. PICK e \in {"FileEOF", "NoMemory"} : q = Fail(cut, e)
    BY <1>6, <1>11
  <2>3. e \in Errors /\ e # "Ok"
    BY DEF Errors
  <2> HIDE DEF cut
  <2> QED
    BY <2>1, <2>2, <2>3, FailSound
<1>12. CASE ~(written < Len(units))
  <2>1. written = Len(units)
    BY <1>2, <1>12
  <2>2. grown = Grown(meta, units)
    OBVIOUS
  <2> HIDE DEF grown
  <2>3. /\ MetaOK(grown)
        /\ grown.downloaded = meta.downloaded + Len(units)
        /\ grown.sum = meta.sum \o units
        /\ grown.generation = meta.generation /\ grown.kind = meta.kind
        /\ grown.validator = meta.validator
        /\ grown.stated = meta.stated /\ grown.total = meta.total
    <3>1. MetaOK(meta)
      BY <1>1
    <3>2. Truthful => /\ meta.validator \in Versions
                      /\ (meta.sum \o units) \o rest = Version(meta.validator)
      BY ZenonT(20)
    <3> HIDE DEF meta
    <3> QED
      BY <2>2, <3>1, <3>2, AppendedTrue
  <2>4. sum \in Nat
    BY <1>1, <1>2
  <2> HIDE DEF sum
  <2>5. /\ s \in LooseStore /\ s.metadata = grown /\ s.uncommitted = sum
        /\ s.file = m.store.file /\ s.open = m.store.open
    BY <1>1, <2>3, <2>4 DEF LooseStore, MetaOK
  <2>6. FileHeld(d, s)
    BY <1>5, <2>5 DEF FileHeld
  <2>7. counted = [put EXCEPT !.store = s]
    OBVIOUS
  <2> HIDE DEF s, counted
  <2>8. /\ Sound(counted) /\ counted.device = d /\ counted.store = s
        /\ counted.error = "Ok"
    BY <1>9, <1>10, <2>3, <2>5, <2>6, <2>7, StoreSound
  <2>9. q = IF CommitDue(sum) THEN SaveMetadata(counted) ELSE counted
    BY <1>6, <1>12, <2>5, <2>8
  <2>10. Sized(d, s)
    <3>1. Len(meta.sum \o units) = Len(meta.sum) + Len(units)
      BY <1>1, ConcatProperties
    <3> QED
      BY <1>1, <1>5, <2>1, <2>3, <2>5, <3>1 DEF Sized
  <2>11. Last(d, s) = Last(m.device, m.store) /\ Present(d, s) /\ Newest(d, s)
    BY <1>1, <1>5, <2>3, <2>5 DEF Committed, Present, Newest, Last, Former
  <2>12. Committed(d, s)
    <3>1. Last(d, s).downloaded = meta.downloaded - m.store.uncommitted
      <4>1. Last(d, s) \in Metadata
        <5>1. SlotOf(meta.generation) \in 1..2
          BY <1>1, SlotRange
        <5>2. Len(m.device.slots) = 2 /\ Last(d, s) # None
              /\ Last(d, s) = m.device.slots[SlotOf(meta.generation)]
          BY <1>1, <2>11 DEF Committed, Present, Last
        <5>3. DeviceOK(m.device)
          BY SoundTypes
        <5> QED
          BY <5>1, <5>2, <5>3 DEF DeviceOK, MetaOK
      <4>2. Last(d, s).downloaded \in Nat
        BY <4>1 DEF Metadata
      <4> QED
        BY <1>1, <2>11, <4>2 DEF Committed
    <3> QED
      BY <1>1, <1>2, <2>3, <2>5, <2>11, <3>1 DEF Committed, sum
  <2>13. s.open /\ d.open
    BY <1>1, <1>5, <2>5
  <2>14. CASE CommitDue(sum)
    <3>1. q = SaveMetadata(counted)
      BY <2>9, <2>14
    <3>2. Sized(counted.device, counted.store) /\ Present(counted.device, counted.store)
      BY <2>8, <2>10, <2>11
    <3>3. /\ Sound(q)
          /\ q.store.open = counted.store.open /\ q.device.open = counted.device.open
          /\ q.store.uncommitted = 0
          /\ Sized(q.device, q.store)
          /\ Committed(q.device, q.store)
          /\ Newest(q.device, q.store)
          /\ q.store.metadata.sum = counted.store.metadata.sum
          /\ q.store.metadata.validator = counted.store.metadata.validator
          /\ q.store.metadata.stated = counted.store.metadata.stated
          /\ q.store.metadata.total = counted.store.metadata.total
      BY <2>8, <3>1, <3>2, SaveCommitted
    <3>4. 0 < CommitInterval
      BY Constants
    <3> QED
      BY <2>3, <2>5, <2>8, <2>13, <3>3, <3>4 DEF Ready
  <2>15. CASE ~CommitDue(sum)
    <3>1. q = counted
      BY <2>9, <2>15
    <3>2. sum < CommitInterval
      BY <2>4, <2>15, Constants DEF CommitDue
    <3> QED
      BY <2>3, <2>5, <2>8, <2>10, <2>11, <2>12, <2>13, <3>1, <3>2 DEF Ready
  <2> QED
    BY <2>14, <2>15
<1> QED
  BY <1>11, <1>12

-----------------------------------------------------------------------------
(* Deleting and exporting: operations that leave no store open.             *)

Ended(m) == Sound(m) /\ m.store = ClosedStore

LEMMA ClosedFacts ==
    /\ ClosedStore \in LooseStore /\ ClosedStore \in Store
    /\ MetaOK(ClosedStore.metadata) /\ ClosedStore.file = None
    /\ \A d : FileHeld(d, ClosedStore)
<1>1. ClosedStore.file = None
  BY DEF ClosedStore
<1> QED
  BY <1>1, ClosedStoreType, StoreIsLoose, ZeroMetadataOK DEF ClosedStore, FileHeld

LEMMA DroppedEnds ==
    ASSUME NEW m, Sound(m), NEW q, q = [m EXCEPT !.store = ClosedStore]
    PROVE  Ended(q) /\ q.error = m.error
BY ClosedFacts, StoreSound DEF Ended

LEMMA CloseEnds ==
    ASSUME NEW m, Sound(m), NEW q, q = Close(m)
    PROVE  Ended(q) /\ q.error = m.error
BY CloseSound DEF Ended

LEMMA FailEnds ==
    ASSUME NEW m, Ended(m), NEW e \in Errors, NEW q, q = Fail(m, e)
    PROVE  Ended(q)
BY FailSound DEF Ended

LEMMA DeleteDatabaseEnds ==
    ASSUME NEW m, Ended(m), NEW q, q = DeleteDatabase(m)
    PROVE  Ended(q)
<1> DEFINE d == [m.device EXCEPT !.exists = FALSE, !.slots = <<>>, !.data = <<>>]
           deleted == Write(m, d)
<1>1. Sound(m) /\ m.store = ClosedStore /\ m.device \in Device
  BY SoundTypes DEF Ended
<1>2. q = IF m.device.open THEN Fail(m, "DatabaseOpen") ELSE [deleted EXCEPT !.error = "Ok"]
  BY DEF DeleteDatabase
<1>3. <<>> \in Seq(Units) /\ <<>> \in Seq(Metadata \cup {None}) /\ Len(<<>>) = 0
  OBVIOUS
<1>4. d \in Device /\ d.slots = <<>>
  BY <1>1, <1>3 DEF Device
<1> HIDE DEF d
<1>5. DeviceOK(d)
  BY <1>3, <1>4 DEF DeviceOK
<1>6. Sound(deleted) /\ deleted.store = m.store
  BY <1>1, <1>5, ClosedFacts, WriteSound
<1> HIDE DEF deleted
<1>7. [deleted EXCEPT !.error = "Ok"] = Fail(deleted, "Ok")
  BY DEF Fail
<1>8. {"Ok", "DatabaseOpen"} \subseteq Errors
  BY DEF Errors
<1>9. q = Fail(m, "DatabaseOpen") \/ q = Fail(deleted, "Ok")
  BY <1>2, <1>7
<1> QED
  BY <1>1, <1>6, <1>8, <1>9, FailEnds DEF Ended

LEMMA OpenSound ==
    ASSUME NEW d, DeviceOK(d), NEW q, q = Open(d)
    PROVE  Sound(q)
<1>1. CASE d.open
  BY <1>1, OpenRefused
<1>2. CASE ~d.open /\ ~Loads(d)
  BY <1>2, OpenStarted
<1>3. CASE ~d.open /\ Loads(d)
  <2>1. OpenedAs(d, q)
    BY <1>3, OpenLoaded
  <2> QED
    BY <2>1, Zenon DEF OpenedAs
<1> QED
  BY <1>1, <1>2, <1>3

LEMMA DeleteUrlEnds ==
    ASSUME NEW d, DeviceOK(d), NEW q, q = DeleteUrl(d)
    PROVE  Ended(q)
<1> DEFINE m == Open(d)
           cleared == IF Succeeded(m) THEN RemoveData(m) ELSE m
           closed == Close(cleared)
<1>1. Sound(m)
  BY OpenSound
<1>2. q = DeleteDatabase(closed)
  BY DEF DeleteUrl
<1> HIDE DEF m
<1>3. Sound(cleared)
  BY <1>1, RemoveDataSound
<1> HIDE DEF cleared
<1>4. Ended(closed)
  BY <1>3, CloseEnds
<1> HIDE DEF closed
<1> QED
  BY <1>2, <1>4, DeleteDatabaseEnds

(* The database of an entry that is to be deleted is opened without more.   *)
LEMMA DeletionOpens ==
    ASSUME NEW d, DeviceOK(d)
    PROVE  LET q == [Begin(d, ClosedStore) EXCEPT !.device.open = TRUE, !.store.open = TRUE]
           IN  /\ Sound(q) /\ q.error = "Ok" /\ q.store = Fresh
               /\ q.device = [d EXCEPT !.open = TRUE]
<1> DEFINE m == Begin(d, ClosedStore)
           q == [m EXCEPT !.device.open = TRUE, !.store.open = TRUE]
           e == [d EXCEPT !.open = TRUE]
           r == [device |-> e, store |-> Fresh, error |-> "Ok", trail |-> {d}]
<1>1. Sound(m) /\ m.device = d /\ m.store = ClosedStore /\ m.error = "Ok" /\ m.trail = {d}
  BY ClosedFacts, BeginSound
<1>2. e \in Device /\ e.slots = d.slots
  BY DEF DeviceOK, Device
<1>3. DeviceOK(e)
  BY <1>2, SameSlots
<1>4. q = r
  <2>1. q = [m EXCEPT !.device.open = TRUE, !.store.open = TRUE]
    OBVIOUS
  <2> HIDE DEF m, q
  <2> QED
    BY <1>1, <2>1 DEF Sound, OpValue, Fresh
<1> HIDE DEF e, q
<1>5. r \in OpValue
  BY <1>2, FreshType DEF OpValue, Errors, DeviceOK
<1>6. FileHeld(e, Fresh)
  BY FreshType DEF FileHeld
<1>7. Sound(r)
  BY <1>3, <1>5, <1>6, FreshType, ZeroMetadataOK DEF Sound
<1>8. Sound(q) /\ q.error = "Ok" /\ q.store = Fresh /\ q.device = e
  BY <1>4, <1>7
<1> QED
  BY <1>8 DEF e, q

LEMMA DeleteAllEnds ==
    ASSUME NEW d, DeviceOK(d), NEW q, q = DeleteAll(d)
    PROVE  Ended(q)
<1> DEFINE m == Begin(d, ClosedStore)
           opened == [m EXCEPT !.device.open = TRUE, !.store.open = TRUE]
           loaded == LoadMetadata(opened)
           filed == IF loaded.store.metadata.kind = "vfs"
                    THEN TryOpenVfs(loaded, FALSE) ELSE loaded
           cleaned == IF Succeeded(loaded) THEN RemoveData(filed) ELSE loaded
           closed == Close(cleaned)
           last == IF d.open THEN m ELSE closed
<1>1. q = DeleteDatabase(last)
  BY DEF DeleteAll
<1>2. Sound(m) /\ m.device = d /\ m.store = ClosedStore /\ m.error = "Ok" /\ m.trail = {d}
  BY ClosedFacts, BeginSound
<1>3. Sound(opened) /\ opened.error = "Ok"
  BY DeletionOpens
<1> HIDE DEF opened, m
<1>4. Sound(loaded)
  BY <1>3, LoadSound
<1> HIDE DEF loaded
<1>5. ASSUME Succeeded(loaded)
      PROVE  Sound(filed)
  <2>1. loaded.error = "Ok" /\ FALSE \in BOOLEAN
    BY <1>5 DEF Succeeded
  <2> DEFINE t == TryOpenVfs(loaded, FALSE)
  <2>2. Tried(loaded, FALSE, t)
    BY <1>4, <2>1, TryOpenSound
  <2> HIDE DEF t
  <2>3. Sound(t)
    BY <2>2, Zenon DEF Tried
  <2> QED
    BY <1>4, <2>3 DEF t
<1> HIDE DEF filed
<1>6. Sound(cleaned)
  BY <1>4, <1>5, RemoveDataSound
<1> HIDE DEF cleaned
<1>7. Ended(closed)
  BY <1>6, CloseEnds
<1> HIDE DEF closed
<1>8. Ended(last)
  BY <1>2, <1>7 DEF Ended
<1> HIDE DEF last
<1> QED
  BY <1>1, <1>8, DeleteDatabaseEnds

(* A device that differs in its files only.                                 *)
Aside(e, d) == e.slots = d.slots /\ e.exists = d.exists /\ e.data = d.data

LEMMA DeleteFileAside ==
    ASSUME NEW m, Sound(m), NEW path \in FileNames, NEW q, q = DeleteFile(m, path)
    PROVE  /\ Sound(q) /\ q.store = m.store /\ q.error = m.error
           /\ Aside(q.device, m.device) /\ q.device.openFiles = m.device.openFiles
           /\ q.trail \subseteq m.trail \cup {q.device}
<1> DEFINE d == [m.device EXCEPT !.files[path] = None]
<1>1. /\ Sound(q) /\ q.store = m.store /\ q.error = m.error
      /\ q.trail \subseteq m.trail \cup {q.device}
  BY ZenonT(40), DeleteFileSound
<1>2. m.device \in Device /\ m \in OpValue
  BY SoundTypes DEF Sound
<1>3. q = Write(m, d) \/ q = m
  BY DEF DeleteFile
<1>4. Aside(d, m.device) /\ d.openFiles = m.device.openFiles
  BY <1>2 DEF Aside, Device
<1> HIDE DEF d
<1>5. q.device = d \/ q.device = m.device
  BY <1>2, <1>3 DEF Write, OpValue
<1> QED
  BY <1>1, <1>4, <1>5 DEF Aside

(* What an export leaves when the file has been deleted, and when the data  *)
(* has been copied to it.                                                   *)
ExportedBy(m, written, named, copied) ==
    LET path == m.store.metadata.name
        text == [m.store.metadata EXCEPT !.path = path]
    IN  /\ Sound(named) /\ Sound(copied)
        /\ named.store = WithMeta(m, text).store /\ copied.store = named.store
        /\ Aside(named.device, m.device)
        /\ named.device.openFiles = m.device.openFiles
        /\ \A e \in named.trail : e \in m.trail \/ Aside(e, m.device)
        /\ Aside(copied.device, m.device)
        /\ copied.device.openFiles = m.device.openFiles \ {path}
        /\ Content(copied.device, path) = Take(Stored(m), written)
        /\ \A e \in copied.trail : e \in m.trail \/ Aside(e, m.device)

Turned(copied) == WithMeta(copied, [copied.store.metadata EXCEPT !.kind = "vfs"])

LEMMA ExportSteps ==
    ASSUME NEW d, DeviceOK(d), Loads(d), NEW written \in 0..Chosen(d).downloaded,
           NEW q, q = ExportToVfs(d, written)
    PROVE  LET m == Open(d)
               path == m.store.metadata.name
           IN  \/ ~Succeeded(m) /\ q = [m EXCEPT !.store = ClosedStore]
               \/ Succeeded(m) /\ m.store.metadata.kind = "vfs" /\ q = Close(m)
               \/ /\ Succeeded(m) /\ m.store.metadata.kind = "database"
                  /\ m.store.metadata.downloaded = Chosen(d).downloaded
                  /\ \E named, copied :
                        /\ ExportedBy(m, written, named, copied)
                        /\ \/ q = Fail(Close(m), "NoVolume")
                           \/ q = Fail(Close(named), "FileBusy")
                           \/ q = Fail(Close(DeleteFile(copied, path)), "FileEOF")
                           \/ /\ ~(written < m.store.metadata.downloaded)
                              /\ q = Close(RemoveRecords(SaveMetadata(Turned(copied))))
<1> DEFINE m == Open(d)
           path == m.store.metadata.name
           text == [m.store.metadata EXCEPT !.path = path]
           pathed == WithMeta(m, text)
           named == DeleteFile(pathed, path)
           opened == [named EXCEPT !.device.openFiles = @ \cup {path}]
           with(n) == [opened.device EXCEPT !.files[path] = Take(Stored(m), n)]
           last == [with(written) EXCEPT !.openFiles = @ \ {path}]
           all == {with(n) : n \in 0..written}
           copied == [opened EXCEPT !.device = last, !.trail = @ \cup all]
           moved == SaveMetadata(Turned(copied))
<1>1. Sound(m)
  BY OpenSound
<1>2. q = IF ~Succeeded(m) THEN [m EXCEPT !.store = ClosedStore]
          ELSE IF m.store.metadata.kind = "vfs" THEN Close(m)
          ELSE IF ~d.card THEN Fail(Close(m), "NoVolume")
          ELSE IF path \in d.openFiles THEN Fail(Close(named), "FileBusy")
          ELSE IF written < m.store.metadata.downloaded
               THEN Fail(Close(DeleteFile(copied, path)), "FileEOF")
               ELSE Close(RemoveRecords(moved))
  <2>1. pathed = [m EXCEPT !.store.metadata.path = path]
    BY DEF WithMeta
  <2>2. Turned(copied) = [copied EXCEPT !.store.metadata.kind = "vfs"]
    BY DEF Turned, WithMeta
  <2> DEFINE named0 == DeleteFile([m EXCEPT !.store.metadata.path = path], path)
             opened0 == [named0 EXCEPT !.device.openFiles = @ \cup {path}]
             with0(n) == [opened0.device EXCEPT !.files[path] = Take(Stored(m), n)]
             copied0 == [opened0 EXCEPT
                            !.device = [with0(written) EXCEPT !.openFiles = @ \ {path}],
                            !.trail = @ \cup {with0(n) : n \in 0..written}]
             moved0 == SaveMetadata([copied0 EXCEPT !.store.metadata.kind = "vfs"])
  <2>3. q = CASE ~Succeeded(m) -> [m EXCEPT !.store = ClosedStore]
            []   Succeeded(m) /\ m.store.metadata.kind = "vfs" -> Close(m)
            []   OTHER ->
                     IF ~d.card THEN Fail(Close(m), "NoVolume")
                     ELSE IF path \in d.openFiles THEN Fail(Close(named0), "FileBusy")
                     ELSE IF written < m.store.metadata.downloaded
                     THEN Fail(Close(DeleteFile(copied0, path)), "FileEOF")
                     ELSE Close(RemoveRecords(moved0))
    BY DEF ExportToVfs
  <2>4. named0 = named
    BY <2>1
  <2> HIDE DEF named0, named
  <2>5. copied0 = copied
    BY <2>4
  <2> HIDE DEF copied0, copied
  <2>6. moved0 = moved
    BY <2>2, <2>5
  <2> HIDE DEF moved0, moved, m, path
  <2> QED
    BY <2>3, <2>4, <2>5, <2>6
<1>3. m.store.metadata.kind \in {"database", "vfs"}
  BY <1>1, SoundTypes
<1>5. CASE ~Succeeded(m)
  <2>1. q = [m EXCEPT !.store = ClosedStore]
    BY <1>2, <1>5
  <2> HIDE DEF m
  <2> QED
    BY <1>5, <2>1 DEF m
<1>6. CASE Succeeded(m) /\ m.store.metadata.kind = "vfs"
  <2>1. q = Close(m)
    BY <1>2, <1>6
  <2> HIDE DEF m
  <2> QED
    BY <1>6, <2>1 DEF m
<1>7. CASE Succeeded(m) /\ m.store.metadata.kind # "vfs"
  <2>1. path \in FileNames /\ MetaOK(m.store.metadata)
    BY <1>1, SoundTypes
  <2>2. MetaOK(text)
    <3>1. path \in FileNames \cup {None}
      BY <2>1
    <3> HIDE DEF path
    <3> QED
      BY <2>1, <3>1, MetaPath
  <2>3. /\ written \in 0..Len(Stored(m)) /\ Stored(m) \in Seq(Units) /\ m.store.file = None
        /\ m.store.metadata.downloaded = Chosen(d).downloaded
    <3>1. ~d.open
      <4>1. m.error = "Ok"
        BY <1>7 DEF Succeeded
      <4> QED
        BY <4>1, OpenSucceeds
    <3>2. m.error = "Ok" /\ OpenedAs(d, m)
      BY <1>7, <3>1, OpenLoaded DEF Succeeded
    <3> DEFINE c == Chosen(d)
    <3>3. c \in Metadata /\ c.kind \in {"database", "vfs"} /\ c.downloaded \in Nat
          /\ c.sum \in Seq(Units)
      BY ChosenFacts DEF Loads, Metadata
    <3> HIDE DEF m
    <3>4. /\ m.store = Repathed(LoadedStore(d), m.store.metadata.path, m.store.file)
          /\ Stored(m) = c.sum
          /\ c.kind = "database" =>
                /\ m.store = LoadedStore(d) /\ Take(d.data, c.downloaded) = c.sum
      BY <3>2, Zenon DEF OpenedAs
    <3>5. LoadedStore(d) \in LooseStore /\ LoadedStore(d).metadata = c
          /\ LoadedStore(d).file = None
      BY LoadedStoreType DEF Loads
    <3>6. c.kind = "database"
      <4> DEFINE p == m.store.metadata.path
      <4>1. m.store.metadata = [c EXCEPT !.path = p]
        BY <3>4, <3>5, RepathedMeta
      <4> HIDE DEF p, c
      <4>2. m.store.metadata.kind = c.kind
        BY <3>3, <4>1 DEF Metadata
      <4> QED
        BY <1>7, <3>3, <4>2
    <3>7. Len(c.sum) = c.downloaded
      BY <3>3, <3>4, <3>6, TakeLength
    <3>8. m.store.metadata.downloaded = c.downloaded
      <4> HIDE DEF c
      <4>1. m.store.metadata = c
        BY <3>4, <3>5, <3>6
      <4> QED
        BY <4>1
    <3> QED
      BY <3>3, <3>4, <3>5, <3>6, <3>7, <3>8
  <2> HIDE DEF m, path
  <2>4. /\ Sound(pathed) /\ pathed.store.file = None
        /\ pathed.device = m.device /\ pathed.trail = m.trail
        /\ pathed.store = WithMeta(m, [m.store.metadata EXCEPT !.path = path]).store
    <3>1. pathed = WithMeta(m, text)
      OBVIOUS
    <3>2. pathed.store = WithMeta(m, [m.store.metadata EXCEPT !.path = path]).store
      OBVIOUS
    <3> HIDE DEF pathed, text
    <3>3. /\ Sound(pathed) /\ pathed.device = m.device /\ pathed.trail = m.trail
          /\ pathed.store.file = m.store.file
      BY <1>1, <2>2, <3>1, MetaSound
    <3> QED
      BY <2>3, <3>2, <3>3
  <2> HIDE DEF pathed
  <2>5. /\ Sound(named) /\ named.store = pathed.store
        /\ Aside(named.device, m.device) /\ named.device.openFiles = m.device.openFiles
        /\ named.trail \subseteq m.trail \cup {named.device}
    <3>1. Sound(pathed) /\ path \in FileNames
      BY <2>1, <2>4
    <3>2. named = DeleteFile(pathed, path)
      OBVIOUS
    <3> HIDE DEF named
    <3> QED
      BY <2>4, <3>1, <3>2, DeleteFileAside
  <2> HIDE DEF named
  <2>6. named \in OpValue /\ named.device \in Device /\ named.store \in LooseStore
        /\ DeviceOK(named.device)
    BY <2>5, SoundTypes DEF Sound
  <2> DEFINE o == named.device.openFiles \cup {path}
             f(n) == [named.device.files EXCEPT ![path] = Take(Stored(m), n)]
             w(n) == [named.device EXCEPT !.openFiles = o, !.files = f(n)]
             l == [named.device EXCEPT !.openFiles = o \ {path}, !.files = f(written)]
  <2>7. ASSUME NEW n \in 0..written
        PROVE  f(n) \in [FileNames -> Seq(Units) \cup {None}]
    <3>1. n \in 0..Len(Stored(m))
      <4>1. Len(Stored(m)) \in Nat
        BY <2>3, LenProperties
      <4> QED
        BY <2>3, <4>1
    <3>2. Take(Stored(m), n) \in Seq(Units)
      BY <2>3, <3>1, TakeSeq
    <3> QED
      BY <2>6, <3>2, FilesType
  <2>8. o \subseteq FileNames /\ written \in 0..written /\ 0 \in 0..written
    <3>1. named.device.openFiles \subseteq FileNames
      BY <2>6, FilesType
    <3> QED
      BY <2>1, <2>3, <3>1
  <2> HIDE DEF o, f
  <2>9. \A n \in 0..written : DeviceOK(w(n))
    <3> TAKE n \in 0..written
    <3>1. w(n) \in Device /\ w(n).slots = named.device.slots
      BY <2>6, <2>7, <2>8 DEF Device
    <3> QED
      BY <2>6, <3>1, SameSlots
  <2>10. DeviceOK(l)
    <3>1. l \in Device /\ l.slots = named.device.slots
      BY <2>6, <2>7, <2>8 DEF Device
    <3> QED
      BY <2>6, <3>1, SameSlots
  <2>11. \A n : with(n) = w(n)
    BY <2>6 DEF OpValue, Device, o, f
  <2>12. last = l
    <3>1. last = [w(written) EXCEPT !.openFiles = @ \ {path}]
      BY <2>11
    <3> HIDE DEF last
    <3> QED
      BY <2>6, <3>1 DEF Device
  <2>13. all = {w(n) : n \in 0..written}
    BY <2>11
  <2>14. \A t \in all : DeviceOK(t)
    BY <2>9, <2>13
  <2> HIDE DEF last, all, w, l
  <2>15. copied = [device |-> last, store |-> named.store, error |-> named.error,
                   trail |-> named.trail \cup all]
    <3> DEFINE e == [named.device EXCEPT !.openFiles = @ \cup {path}]
    <3>1. opened = [device |-> e, store |-> named.store, error |-> named.error,
                    trail |-> named.trail]
      BY <2>6 DEF OpValue
    <3>2. copied = [opened EXCEPT !.device = last, !.trail = @ \cup all]
      OBVIOUS
    <3> HIDE DEF opened, copied, e
    <3> QED
      BY <3>1, <3>2
  <2> HIDE DEF copied
  <2>16. Sound(copied)
    <3>1. \A t \in copied.trail : DeviceOK(t)
      BY <2>5, <2>14, <2>15 DEF Sound
    <3>2. copied.trail \subseteq Device /\ last \in Device
      BY <2>10, <2>12, <3>1 DEF DeviceOK
    <3>3. copied \in OpValue
      BY <2>6, <2>15, <3>2 DEF OpValue
    <3>4. copied.store.file = None
      BY <2>4, <2>5, <2>15
    <3> QED
      BY <2>5, <2>10, <2>12, <2>15, <3>1, <3>3, <3>4 DEF Sound, FileHeld
  <2>18. \A e \in named.trail : e \in m.trail \/ Aside(e, m.device)
    BY <2>5
  <2>19. \A n \in 0..written : Aside(w(n), m.device)
    BY <2>5, <2>6 DEF w, Device, Aside
  <2>20. \A e \in copied.trail : e \in m.trail \/ Aside(e, m.device)
    BY <2>13, <2>15, <2>18, <2>19 DEF all
  <2>21. /\ Aside(copied.device, m.device)
         /\ copied.device.openFiles = m.device.openFiles \ {path}
         /\ copied.device.files = f(written)
    BY <2>5, <2>6, <2>12, <2>15 DEF l, o, Device, Aside
  <2>22. Content(copied.device, path) = Take(Stored(m), written)
    <3>1. f(written)[path] = Take(Stored(m), written)
      BY <2>1, <2>6, FilesType DEF f
    <3>2. Take(Stored(m), written) # None
      BY <2>3, TakeSeq, Constants
    <3> QED
      BY <2>21, <3>1, <3>2 DEF Content
  <2>23. ExportedBy(m, written, named, copied)
    BY <2>4, <2>5, <2>15, <2>16, <2>18, <2>20, <2>21, <2>22 DEF ExportedBy, path
  <2>24. \/ q = Fail(Close(m), "NoVolume")
         \/ q = Fail(Close(named), "FileBusy")
         \/ q = Fail(Close(DeleteFile(copied, path)), "FileEOF")
         \/ /\ ~(written < m.store.metadata.downloaded)
            /\ q = Close(RemoveRecords(SaveMetadata(Turned(copied))))
    BY <1>2, <1>7
  <2> QED
    BY <1>3, <1>7, <2>3, <2>23, <2>24, Zenon DEF m, path
<1> QED
  BY <1>5, <1>6, <1>7

LEMMA TurnedSound ==
    ASSUME NEW m, Sound(m), NEW q, q = Turned(m)
    PROVE  /\ Sound(q)
           /\ q.device = m.device /\ q.trail = m.trail /\ q.error = m.error
           /\ q.store.open = m.store.open /\ q.store.uncommitted = m.store.uncommitted
           /\ q.store.file = m.store.file
           /\ q.store.metadata = [m.store.metadata EXCEPT !.kind = "vfs"]
<1> DEFINE kept == [m.store.metadata EXCEPT !.kind = "vfs"]
<1>1. MetaOK(kept)
  <2>1. MetaOK(m.store.metadata)
    BY SoundTypes
  <2> QED
    BY <2>1 DEF MetaOK, IsTrue, Vouched, Metadata
<1>2. q = WithMeta(m, kept)
  BY DEF Turned
<1> HIDE DEF kept
<1> QED
  BY <1>1, <1>2, MetaSound DEF kept

LEMMA ExportEnds ==
    ASSUME NEW d, DeviceOK(d), Loads(d), NEW written \in 0..Chosen(d).downloaded,
           NEW q, q = ExportToVfs(d, written)
    PROVE  Ended(q)
<1> DEFINE m == Open(d)
           path == m.store.metadata.name
<1>1. Sound(m) /\ path \in FileNames
  BY OpenSound, SoundTypes
<1>2. {"NoVolume", "FileBusy", "FileEOF"} \subseteq Errors
  BY DEF Errors
<1>3. \/ q = [m EXCEPT !.store = ClosedStore]
      \/ q = Close(m)
      \/ \E named, copied :
            /\ ExportedBy(m, written, named, copied)
            /\ \/ q = Fail(Close(m), "NoVolume")
               \/ q = Fail(Close(named), "FileBusy")
               \/ q = Fail(Close(DeleteFile(copied, path)), "FileEOF")
               \/ q = Close(RemoveRecords(SaveMetadata(Turned(copied))))
  <2>1. \/ ~Succeeded(m) /\ q = [m EXCEPT !.store = ClosedStore]
        \/ Succeeded(m) /\ m.store.metadata.kind = "vfs" /\ q = Close(m)
        \/ /\ Succeeded(m) /\ m.store.metadata.kind = "database"
           /\ m.store.metadata.downloaded = Chosen(d).downloaded
           /\ \E named, copied :
                 /\ ExportedBy(m, written, named, copied)
                 /\ \/ q = Fail(Close(m), "NoVolume")
                    \/ q = Fail(Close(named), "FileBusy")
                    \/ q = Fail(Close(DeleteFile(copied, path)), "FileEOF")
                    \/ /\ ~(written < m.store.metadata.downloaded)
                       /\ q = Close(RemoveRecords(SaveMetadata(Turned(copied))))
    BY ExportSteps
  <2> HIDE DEF m, path
  <2> QED
    BY <2>1
<1> HIDE DEF m, path
<1>4. Ended([m EXCEPT !.store = ClosedStore]) /\ Ended(Close(m)) /\ Ended(Fail(Close(m), "NoVolume"))
  BY <1>1, <1>2, DroppedEnds, CloseEnds, FailEnds
<1>5. ASSUME NEW named, NEW copied, ExportedBy(m, written, named, copied)
      PROVE  /\ Ended(Fail(Close(named), "FileBusy"))
             /\ Ended(Fail(Close(DeleteFile(copied, path)), "FileEOF"))
             /\ Ended(Close(RemoveRecords(SaveMetadata(Turned(copied)))))
  <2>1. Sound(named) /\ Sound(copied)
    BY <1>5, Zenon DEF ExportedBy
  <2>2. Sound(DeleteFile(copied, path))
    BY <1>1, <2>1, DeleteFileSound
  <2>3. Sound(SaveMetadata(Turned(copied)))
    BY <2>1, TurnedSound, SaveSound
  <2>4. Sound(RemoveRecords(SaveMetadata(Turned(copied))))
    BY <2>3, RemoveRecordsSound
  <2> QED
    BY <1>2, <2>1, <2>2, <2>4, CloseEnds, FailEnds
<1> QED
  BY <1>3, <1>4, <1>5

-----------------------------------------------------------------------------
(* The steps of the download and of the user.                               *)

LEMMA InitConsistent == Init => Consistent
<1> SUFFICES ASSUME Init
             PROVE  Consistent
  OBVIOUS
<1>1. PICK card \in Cards : device = EmptyDevice(card)
  BY DEF Init
<1>2. store = ClosedStore /\ job = Idle /\ reply = [op |-> "Reset", error |-> "Ok"]
  BY DEF Init
<1>3. <<>> \in Seq(Units) /\ <<>> \in Seq(Metadata \cup {None}) /\ Len(<<>>) = 0
  OBVIOUS
<1>4. card \in BOOLEAN
  BY StoreAssumption
<1>5. device \in Device /\ device.slots = <<>>
  BY <1>1, <1>3, <1>4 DEF EmptyDevice, Device
<1>6. DeviceOK(device)
  BY <1>3, <1>5 DEF DeviceOK
<1>7. job \in [stage: Stages, left: Seq(Units)] /\ job.stage = "idle"
  BY <1>2, <1>3 DEF Idle, Stages
<1>8. reply \in [op: Operations, error: Errors]
  BY <1>2 DEF Operations, Errors
<1> QED
  BY <1>2, <1>5, <1>6, <1>7, <1>8, ClosedFacts DEF Consistent, TypeOK, Receiving

(* No download, the records in order.                                       *)
LEMMA RestConsistent ==
    ASSUME DeviceOK(device'), store' = ClosedStore, job' = Idle,
           reply' \in [op: Operations, error: Errors]
    PROVE  Consistent'
<1>1. <<>> \in Seq(Units)
  OBVIOUS
<1>2. job' \in [stage: Stages, left: Seq(Units)] /\ job'.stage = "idle"
  BY <1>1 DEF Idle, Stages
<1>3. device' \in Device
  BY DEF DeviceOK
<1> QED
  BY <1>2, <1>3, ClosedFacts DEF Consistent, TypeOK, Receiving

LEMMA CutOffConsistent ==
    ASSUME NEW m, Sound(m), NEW d \in m.trail, device' = Rebooted(d),
           store' = ClosedStore, job' = Idle, reply' = [op |-> "Reset", error |-> "Ok"]
    PROVE  Consistent'
<1>1. DeviceOK(device')
  BY RebootedOK DEF Sound
<1>2. reply' \in [op: Operations, error: Errors]
  BY DEF Operations, Errors
<1> QED
  BY <1>1, <1>2, RestConsistent

LEMMA EndsConsistent ==
    ASSUME NEW op \in Operations, NEW m, Ended(m), Runs(op, m, Idle)
    PROVE  Consistent'
<1>1. Sound(m) /\ m.store = ClosedStore /\ m.error \in Errors /\ DeviceOK(m.device)
  BY SoundTypes DEF Ended
<1>2. CASE /\ device' = m.device /\ store' = m.store /\ job' = Idle
           /\ reply' = [op |-> op, error |-> m.error]
  <2>1. reply' \in [op: Operations, error: Errors]
    BY <1>1, <1>2
  <2> QED
    BY <1>1, <1>2, <2>1, RestConsistent
<1>3. CASE /\ \E d \in m.trail : device' = Rebooted(d)
           /\ store' = ClosedStore /\ job' = Idle
           /\ reply' = [op |-> "Reset", error |-> "Ok"]
  BY <1>1, <1>3, CutOffConsistent
<1> QED
  BY <1>2, <1>3 DEF Runs

LEMMA GoesOnConsistent ==
    ASSUME NEW op \in Operations, NEW m, Sound(m), Ready(m.device, m.store),
           m.store.uncommitted < CommitInterval,
           NEW next \in [stage: Stages \ {"idle"}, left: Seq(Units)],
           next.stage \in Receiving =>
               /\ Newest(m.device, m.store)
               /\ Truthful =>
                     /\ m.store.metadata.validator \in Versions
                     /\ m.store.metadata.sum \o next.left
                           = Version(m.store.metadata.validator),
           next.stage = "stream" => Measured(m.store.metadata),
           Runs(op, m, next)
    PROVE  Consistent'
<1>1. /\ m.error \in Errors /\ DeviceOK(m.device) /\ m.device \in Device
      /\ m.store \in LooseStore /\ MetaOK(m.store.metadata) /\ FileHeld(m.device, m.store)
  BY SoundTypes DEF Sound
<1>2. m.store \in Store
  <2>1. m.store.uncommitted \in 0..(CommitInterval - 1)
    BY <1>1, Constants DEF LooseStore
  <2> QED
    BY <1>1, <2>1 DEF LooseStore, Store
<1>3. CASE /\ device' = m.device /\ store' = m.store /\ job' = next
           /\ reply' = [op |-> op, error |-> m.error]
  <2>1. reply' \in [op: Operations, error: Errors]
    BY <1>1, <1>3
  <2>2. job' \in [stage: Stages, left: Seq(Units)] /\ job'.stage # "idle"
    BY <1>3
  <2>3. TypeOK'
    BY <1>1, <1>2, <1>3, <2>1, <2>2 DEF TypeOK
  <2> QED
    BY <1>1, <1>3, <2>2, <2>3 DEF Consistent
<1>4. CASE /\ \E d \in m.trail : device' = Rebooted(d)
           /\ store' = ClosedStore /\ job' = Idle
           /\ reply' = [op |-> "Reset", error |-> "Ok"]
  BY <1>4, CutOffConsistent
<1> QED
  BY <1>3, <1>4 DEF Runs

(* What the operations of a running download start from.                    *)
LEMMA NowSound ==
    ASSUME Consistent, job.stage # "idle"
    PROVE  /\ Sound(Now) /\ Now.error = "Ok" /\ Now.device = device /\ Now.store = store
           /\ Ready(Now.device, Now.store)
           /\ store.uncommitted < CommitInterval
<1> DEFINE m == Now
<1>1. /\ DeviceOK(device) /\ store \in Store /\ MetaOK(store.metadata)
      /\ FileHeld(device, store) /\ Ready(device, store)
  BY DEF Consistent, TypeOK
<1>2. store \in LooseStore
  BY <1>1, StoreIsLoose
<1>3. m = Begin(device, store)
  BY DEF Now
<1> HIDE DEF m
<1>4. Sound(m) /\ m.device = device /\ m.store = store /\ m.error = "Ok"
  BY <1>1, <1>2, <1>3, BeginSound
<1>5. store.uncommitted < CommitInterval
  BY <1>1, Constants DEF Store
<1> QED
  BY <1>1, <1>4, <1>5 DEF m

LEMMA StartConsistent == Consistent /\ DownloadStart => Consistent'
<1> SUFFICES ASSUME Consistent, DownloadStart
             PROVE  Consistent'
  OBVIOUS
<1> DEFINE m == Open(device)
           next == [stage |-> "request", left |-> <<>>]
<1>1. DeviceOK(device) /\ "Open" \in Operations
  BY DEF Consistent, Operations
<1>2. Sound(m)
  BY <1>1, OpenSound
<1>3. IF ~Succeeded(m)
      THEN Runs("Open", [m EXCEPT !.store = ClosedStore], Idle)
      ELSE IF m.store.metadata.complete
      THEN Runs("Open", Close(m), Idle)
      ELSE Runs("Open", m, next)
  BY DEF DownloadStart
<1>4. Ended([m EXCEPT !.store = ClosedStore]) /\ Ended(Close(m))
  BY <1>2, DroppedEnds, CloseEnds
<1>5. Succeeded(m) => Ready(m.device, m.store) /\ m.store.uncommitted = 0
  BY <1>1, OpenSucceeds DEF Succeeded, Ready
<1>6. next \in [stage: Stages \ {"idle"}, left: Seq(Units)] /\ next.stage \notin Receiving
      /\ next.stage # "stream"
  BY DEF Stages, Receiving
<1>7. 0 < CommitInterval
  BY Constants
<1> HIDE DEF m, next
<1>8. CASE ~Succeeded(m)
  BY <1>1, <1>3, <1>4, <1>8, EndsConsistent
<1>9. CASE Succeeded(m) /\ m.store.metadata.complete
  BY <1>1, <1>3, <1>4, <1>9, EndsConsistent
<1>10. CASE Succeeded(m) /\ ~m.store.metadata.complete
  <2>1. Runs("Open", m, next)
    BY <1>3, <1>10
  <2>2. m.store.uncommitted < CommitInterval
    BY <1>5, <1>7, <1>10
  <2> QED
    BY <1>1, <1>2, <1>5, <1>6, <1>10, <2>1, <2>2, GoesOnConsistent
<1> QED
  BY <1>8, <1>9, <1>10

LEMMA BodySeq ==
    ASSUME NEW r \in Response, NEW n \in Nat
    PROVE  Body(r, n) \in Seq(Units)
<1>1. r.version \in Versions /\ r.page \in Seq(Units)
  BY StoreAssumption DEF Response
<1>2. Version(r.version) \in Seq(Units)
  BY <1>1, VersionSeq
<1>3. Drop(Version(r.version), n) \in Seq(Units)
  BY <1>2, DropSeq
<1> QED
  BY <1>1, <1>2, <1>3 DEF Body

LEMMA RespondConsistent == Consistent /\ Respond => Consistent'
<1> SUFFICES ASSUME Consistent, Respond
             PROVE  Consistent'
  OBVIOUS
<1>1. job.stage = "request"
  BY DEF Respond
<1>2. PICK r \in Responses(store.metadata), fails \in {f \in BOOLEAN : f => "FileBusy" \in Faults} :
          LET m == AcceptResponse(Now, r, fails)
              body == Body(r, store.metadata.downloaded)
          IN  IF Succeeded(m)
              THEN Runs("AcceptResponse", m,
                        [stage |-> IF r.framed THEN "body" ELSE "stream",
                         left  |-> body])
              ELSE Runs("AcceptResponse", JobFinish(m), Idle)
  BY DEF Respond
<1> DEFINE m == AcceptResponse(Now, r, fails)
           body == Body(r, store.metadata.downloaded)
           stage == IF r.framed THEN "body" ELSE "stream"
           next == [stage |-> stage, left |-> body]
<1>3. /\ Sound(Now) /\ Now.error = "Ok" /\ Now.device = device /\ Now.store = store
      /\ Ready(Now.device, Now.store)
  BY <1>1, NowSound
<1>4. fails \in BOOLEAN
  OBVIOUS
<1>5. /\ Sound(m)
      /\ m.error = "Ok" =>
            /\ Ready(m.device, m.store) /\ m.store.uncommitted = 0
            /\ Newest(m.device, m.store)
            /\ Truthful =>
                  /\ m.store.metadata.validator \in Versions
                  /\ m.store.metadata.sum \o body = Version(m.store.metadata.validator)
            /\ ~r.framed => Measured(m.store.metadata)
  <2>1. r \in Responses(Now.store.metadata)
    BY <1>3
  <2>2. body = Body(r, Now.store.metadata.downloaded)
    BY <1>3
  <2> DEFINE now == Now
  <2> HIDE DEF body, m, now
  <2> QED
    BY <1>3, <1>4, <2>1, <2>2, AcceptSound DEF m, now
<1>6. IF Succeeded(m) THEN Runs("AcceptResponse", m, next)
                      ELSE Runs("AcceptResponse", JobFinish(m), Idle)
  BY <1>2
<1>7. body \in Seq(Units)
  <2>1. r \in Response
    BY DEF Responses
  <2>2. store.metadata.downloaded \in Nat
    BY DEF Consistent, MetaOK, Metadata
  <2> QED
    BY <2>1, <2>2, BodySeq
<1>8. "AcceptResponse" \in Operations /\ 0 < CommitInterval
  BY Constants DEF Operations
<1>8a. stage \in Stages \ {"idle"} /\ (stage = "stream" => ~r.framed)
  BY DEF Stages, Receiving
<1> HIDE DEF m, body, stage
<1>9. CASE ~Succeeded(m)
  <2>1. Ended(JobFinish(m))
    BY <1>5, FinishSound DEF Ended
  <2> QED
    BY <1>6, <1>8, <1>9, <2>1, EndsConsistent
<1>10. CASE Succeeded(m)
  <2>1. Runs("AcceptResponse", m, next) /\ m.error = "Ok"
    BY <1>6, <1>10 DEF Succeeded
  <2>2. /\ next \in [stage: Stages \ {"idle"}, left: Seq(Units)]
        /\ next.left = body /\ next.stage = stage
    BY <1>7, <1>8a
  <2> HIDE DEF next
  <2>3. m.store.uncommitted < CommitInterval
    BY <1>5, <1>8, <2>1
  <2> QED
    BY <1>5, <1>8, <1>8a, <2>1, <2>2, <2>3, GoesOnConsistent
<1> QED
  BY <1>9, <1>10

LEMMA ReceiveConsistent == Consistent /\ Receive => Consistent'
<1> SUFFICES ASSUME Consistent, Receive
             PROVE  Consistent'
  OBVIOUS
<1>1. job.stage \in Receiving /\ job.stage # "idle"
  BY DEF Receive, Receiving
<1>2. PICK n \in 1..MaxAppend :
          /\ n <= Len(job.left)
          /\ \E written \in Storable(Now, n) :
                LET m == AppendData(Now, Take(job.left, n), written)
                IN  IF Succeeded(m)
                    THEN Runs("Append", m, [job EXCEPT !.left = Drop(@, n)])
                    ELSE Runs("Append", JobFinish(m), Idle)
  BY DEF Receive
<1>3. PICK written \in Storable(Now, n) :
          LET m == AppendData(Now, Take(job.left, n), written)
          IN  IF Succeeded(m)
              THEN Runs("Append", m, [job EXCEPT !.left = Drop(@, n)])
              ELSE Runs("Append", JobFinish(m), Idle)
  BY <1>2
<1> DEFINE units == Take(job.left, n)
           rest == Drop(job.left, n)
           next == [job EXCEPT !.left = rest]
           m == AppendData(Now, units, written)
           sum == store.metadata.sum
           v == store.metadata.validator
<1>4. /\ Sound(Now) /\ Now.error = "Ok" /\ Now.device = device /\ Now.store = store
      /\ Ready(Now.device, Now.store)
  BY <1>1, NowSound
<1>5. /\ job \in [stage: Stages, left: Seq(Units)] /\ job.left \in Seq(Units)
      /\ sum \in Seq(Units)
      /\ Newest(device, store)
      /\ Truthful => v \in Versions /\ sum \o job.left = Version(v)
      /\ job.stage = "stream" => Measured(store.metadata)
  BY <1>1 DEF Consistent, TypeOK, MetaOK, Metadata
<1>6. Len(job.left) \in Nat /\ MaxAppend \in Nat
  BY <1>5, LenProperties, StoreAssumption
<1>7. n \in 0..Len(job.left) /\ n # 0 /\ n \in Nat
  BY <1>2, <1>6
<1>8. /\ units \in Seq(Units) /\ Len(units) = n
      /\ rest \in Seq(Units) /\ units \o rest = job.left
  BY <1>5, <1>7, TakeSeq, DropSeq, TakeDrop
<1>9. IF Succeeded(m) THEN Runs("Append", m, next)
                      ELSE Runs("Append", JobFinish(m), Idle)
  BY <1>3
<1>10. /\ next \in [stage: Stages \ {"idle"}, left: Seq(Units)]
       /\ next.left = rest /\ next.stage = job.stage
  <2> HIDE DEF rest
  <2> QED
    BY <1>1, <1>5, <1>8
<1>11. m = AppendData(Now, units, written)
  OBVIOUS
<1> HIDE DEF m, units, rest, next, sum, v
<1>12. (sum \o units) \o rest = sum \o job.left
  <2>1. sum \in Seq(Units)
    BY <1>5
  <2>2. /\ units \in Seq(Units) /\ rest \in Seq(Units)
        /\ units \o rest = job.left
    BY <1>8
  <2>3. (sum \o units) \o rest = sum \o (units \o rest)
    <3> HIDE <1>5, <1>8
    <3>1. \A s, t, u \in Seq(Units) : (s \o t) \o u = s \o (t \o u)
      BY ConcatAssociative
    <3> QED
      BY <2>1, <2>2, <3>1, Zenon
  <2> QED
    BY <2>2, <2>3
<1>13. Newest(Now.device, Now.store) /\ Len(units) # 0 /\ written \in Storable(Now, Len(units))
  BY <1>3, <1>4, <1>5, <1>7, <1>8
<1>14. Truthful => /\ Now.store.metadata.validator \in Versions
                   /\ (Now.store.metadata.sum \o units) \o rest
                         = Version(Now.store.metadata.validator)
  BY <1>4, <1>5, <1>12 DEF sum, v
<1>15. /\ Sound(m)
       /\ m.error = "Ok" =>
             /\ Ready(m.device, m.store) /\ Newest(m.device, m.store)
             /\ m.store.uncommitted < CommitInterval
             /\ m.store.metadata.sum = Now.store.metadata.sum \o units
             /\ m.store.metadata.validator = Now.store.metadata.validator
             /\ m.store.metadata.stated = Now.store.metadata.stated
             /\ m.store.metadata.total = Now.store.metadata.total
  <2> DEFINE now == Now
  <2>1. /\ Sound(now) /\ now.error = "Ok" /\ Ready(now.device, now.store)
        /\ Newest(now.device, now.store) /\ written \in Storable(now, Len(units))
        /\ m = AppendData(now, units, written)
        /\ Truthful => /\ now.store.metadata.validator \in Versions
                       /\ (now.store.metadata.sum \o units) \o rest
                             = Version(now.store.metadata.validator)
    BY <1>4, <1>11, <1>13, <1>14
  <2> HIDE DEF now
  <2>2. /\ Sound(m)
        /\ m.error = "Ok" =>
              /\ Ready(m.device, m.store) /\ Newest(m.device, m.store)
              /\ m.store.uncommitted < CommitInterval
              /\ m.store.metadata.sum = now.store.metadata.sum \o units
              /\ m.store.metadata.validator = now.store.metadata.validator
              /\ m.store.metadata.stated = now.store.metadata.stated
              /\ m.store.metadata.total = now.store.metadata.total
    BY <1>8, <1>13, <2>1, AppendSound
  <2> QED
    BY <2>2 DEF now
<1>16. "Append" \in Operations
  BY DEF Operations
<1>17. CASE ~Succeeded(m)
  <2>1. Ended(JobFinish(m))
    BY <1>15, FinishSound DEF Ended
  <2> QED
    BY <1>9, <1>16, <1>17, <2>1, EndsConsistent
<1>18. CASE Succeeded(m)
  <2>1. Runs("Append", m, next) /\ m.error = "Ok"
    BY <1>9, <1>18 DEF Succeeded
  <2>2. Truthful => /\ m.store.metadata.validator \in Versions
                    /\ m.store.metadata.sum \o next.left
                          = Version(m.store.metadata.validator)
    BY <1>10, <1>14, <1>15, <2>1
  <2>3. next.stage = "stream" => Measured(m.store.metadata)
    BY <1>4, <1>5, <1>10, <1>15, <2>1 DEF Measured
  <2> QED
    BY <1>10, <1>15, <1>16, <2>1, <2>2, <2>3, GoesOnConsistent
<1> QED
  BY <1>17, <1>18

(* A body that a response has bounded has come as a whole when it ends, if  *)
(* the count agrees with the length that was given.                         *)
LEMMA EndIsWhole ==
    ASSUME Consistent, Finalize, Truthful
    PROVE  /\ store.metadata.validator \in Versions
           /\ IsBeginning(store.metadata.sum, store.metadata.validator)
           /\ store.metadata.stated
              /\ store.metadata.total \in {0, store.metadata.downloaded}
                 => store.metadata.sum = Version(store.metadata.validator)
<1> DEFINE meta == store.metadata
<1>1. /\ job.stage \in Receiving /\ job.stage # "idle"
      /\ job.stage = "stream" \/ job.left = <<>>
  BY DEF Finalize, Receiving
<1>2. /\ meta.validator \in Versions /\ meta.sum \o job.left = Version(meta.validator)
      /\ job.stage = "stream" => Measured(meta)
      /\ meta.downloaded = Len(meta.sum) /\ job.left \in Seq(Units)
  BY <1>1 DEF Consistent, Ready, Sized, TypeOK
<1>3. meta.sum \in Seq(Units)
  BY DEF Consistent, MetaOK, Metadata
<1> HIDE DEF meta
<1>4. IsBeginning(meta.sum, meta.validator)
  BY <1>2, <1>3, BeginningOf
<1>5. meta.stated /\ meta.total \in {0, meta.downloaded}
          => meta.sum = Version(meta.validator)
  <2>1. CASE job.left = <<>>
    BY <1>2, <1>3, <2>1, ConcatEmptySeq
  <2>2. CASE job.stage = "stream"
    <3> SUFFICES ASSUME meta.stated, meta.total \in {0, meta.downloaded}
                 PROVE  meta.sum = Version(meta.validator)
      OBVIOUS
    <3>1. /\ Version(meta.validator) \in Seq(Units)
          /\ Len(Version(meta.validator)) = Length[meta.validator]
          /\ Length[meta.validator] \in Nat \ {0}
      BY <1>2, VersionSeq
    <3>2. Len(meta.sum) = Len(Version(meta.validator))
      BY <1>2, <2>2, <3>1 DEF Measured
    <3>3. Take(Version(meta.validator), Len(Version(meta.validator))) = Version(meta.validator)
      BY <3>1, SubSeqFull DEF Take
    <3> QED
      BY <1>4, <3>2, <3>3 DEF IsBeginning
  <2> QED
    BY <1>1, <2>1, <2>2
<1> QED
  BY <1>2, <1>4, <1>5 DEF meta

LEMMA FinalizeConsistent == Consistent /\ Finalize => Consistent'
<1> SUFFICES ASSUME Consistent, Finalize
             PROVE  Consistent'
  OBVIOUS
<1> DEFINE m == MarkComplete(Now)
           now == Now
           meta == store.metadata
<1>1. /\ job.stage \in Receiving /\ job.stage # "idle"
      /\ job.stage = "stream" \/ job.left = <<>>
      /\ Runs("MarkComplete", JobFinish(m), Idle)
  BY DEF Finalize, Receiving
<1>2. Sound(now) /\ now.store = store
  BY <1>1, NowSound
<1>3. Truthful =>
          /\ meta.validator \in Versions
          /\ IsBeginning(meta.sum, meta.validator)
          /\ meta.stated /\ meta.total \in {0, meta.downloaded}
                => meta.sum = Version(meta.validator)
  BY EndIsWhole
<1>4. m = MarkComplete(now)
  OBVIOUS
<1> HIDE DEF m, now
<1>5. Sound(m)
  BY <1>2, <1>3, <1>4, MarkCompleteSound DEF meta
<1>6. Ended(JobFinish(m)) /\ "MarkComplete" \in Operations
  BY <1>5, FinishSound DEF Ended, Operations
<1> QED
  BY <1>1, <1>6, EndsConsistent

LEMMA AbandonConsistent == Consistent /\ Abandon => Consistent'
<1> SUFFICES ASSUME Consistent, Abandon
             PROVE  Consistent'
  OBVIOUS
<1>1. job.stage # "idle" /\ Runs("Close", JobFinish(Now), Idle)
  BY DEF Abandon
<1>2. Sound(Now)
  BY <1>1, NowSound
<1>3. Ended(JobFinish(Now)) /\ "Close" \in Operations
  BY <1>2, FinishSound DEF Ended, Operations
<1> QED
  BY <1>1, <1>3, EndsConsistent

LEMMA DeleteConsistent == Consistent /\ Delete => Consistent'
<1> SUFFICES ASSUME Consistent, Delete
             PROVE  Consistent'
  OBVIOUS
<1>1. Ended(DeleteUrl(device)) /\ Ended(DeleteAll(device))
  BY DeleteUrlEnds, DeleteAllEnds DEF Consistent
<1>2. {"DeleteUrl", "Delete"} \subseteq Operations
  BY DEF Operations
<1>3. Runs("DeleteUrl", DeleteUrl(device), Idle) \/ Runs("Delete", DeleteAll(device), Idle)
  BY DEF Delete
<1> QED
  BY <1>1, <1>2, <1>3, EndsConsistent

(* An entry is listed when its records can be used.                         *)
LEMMA ListedLoads ==
    ASSUME DeviceOK(device), Listed
    PROVE  Loads(device) /\ Chosen(device) \in Metadata
<1> DEFINE m == Begin(device, ClosedStore)
           q == LoadMetadata(m)
<1>1. Sound(m) /\ m.device = device /\ m.error = "Ok"
  BY ClosedFacts, BeginSound
<1>2. q.error = "Ok"
  BY DEF Listed, Succeeded
<1>3. q = LoadMetadata(m)
  OBVIOUS
<1> HIDE DEF m, q
<1>4. q.error = IF Loads(device) THEN "Ok" ELSE "CorruptDatabase"
  BY <1>1, <1>3, LoadSound
<1>5. Loads(device)
  BY <1>2, <1>4
<1> QED
  BY <1>5, ChosenFacts DEF Loads

LEMMA ExportConsistent == Consistent /\ Export => Consistent'
<1> SUFFICES ASSUME Consistent, Export
             PROVE  Consistent'
  OBVIOUS
<1> DEFINE size == Chosen(device).downloaded
<1>1. PICK written \in {size} \cup (IF "ShortWrite" \in Faults THEN 0..size ELSE {}) :
          Runs("ExportToVfs", ExportToVfs(device, written), Idle)
  BY DEF Export
<1>2. DeviceOK(device) /\ Listed
  BY DEF Consistent, Export
<1>3. Loads(device) /\ size \in Nat
  BY <1>2, ListedLoads DEF Metadata
<1>4. written \in 0..size
  BY <1>1, <1>3
<1>5. Ended(ExportToVfs(device, written)) /\ "ExportToVfs" \in Operations
  BY <1>2, <1>3, <1>4, ExportEnds DEF Operations
<1> QED
  BY <1>1, <1>5, EndsConsistent

LEMMA MoveCardConsistent == Consistent /\ MoveCard => Consistent'
<1> SUFFICES ASSUME Consistent, MoveCard
             PROVE  Consistent'
  OBVIOUS
<1>1. /\ job = Idle /\ device' = [device EXCEPT !.card = ~@, !.openFiles = {}]
      /\ reply' = [op |-> "Card", error |-> "Ok"] /\ UNCHANGED <<store, job>>
  BY DEF MoveCard
<1>2. device \in Device /\ DeviceOK(device)
  BY DEF Consistent, TypeOK
<1>3. device' \in Device /\ device'.slots = device.slots
  BY <1>1, <1>2 DEF Device
<1>4. DeviceOK(device')
  BY <1>2, <1>3, SameSlots
<1>5. job' = Idle /\ store' = ClosedStore
  BY <1>1 DEF Consistent, Idle
<1>6. reply' \in [op: Operations, error: Errors]
  BY <1>1 DEF Operations, Errors
<1> QED
  BY <1>4, <1>5, <1>6, RestConsistent

LEMMA ResetConsistent == Consistent /\ Reset => Consistent'
<1> SUFFICES ASSUME Consistent, Reset
             PROVE  Consistent'
  OBVIOUS
<1>1. /\ device' = Rebooted(device) /\ store' = ClosedStore /\ job' = Idle
      /\ reply' = [op |-> "Reset", error |-> "Ok"]
  BY DEF Reset
<1>2. DeviceOK(device')
  BY <1>1, RebootedOK DEF Consistent
<1>3. reply' \in [op: Operations, error: Errors]
  BY <1>1 DEF Operations, Errors
<1> QED
  BY <1>1, <1>2, <1>3, RestConsistent

LEMMA StutterConsistent == Consistent /\ UNCHANGED vars => Consistent'
BY DEF vars, Consistent, TypeOK

LEMMA NextConsistent == Consistent /\ Next => Consistent'
BY StartConsistent, RespondConsistent, ReceiveConsistent, FinalizeConsistent,
   AbandonConsistent, DeleteConsistent, ExportConsistent, MoveCardConsistent,
   ResetConsistent DEF Next

-----------------------------------------------------------------------------
(* The theorems.                                                            *)

(* DownloadStoreOpen and the operations of a store keep their records in    *)
(* order: each in the slot of its generation, the last commit in that of    *)
(* the present one, whatever a reset has cut off.                           *)
THEOREM AlwaysConsistent == Spec => []Consistent
BY InitConsistent, NextConsistent, StutterConsistent, PTL DEF Spec

(* The device, the store in memory, the job and the reply have their types. *)
THEOREM TypeCorrect == Spec => []TypeOK
<1>1. Consistent => TypeOK
  BY DEF Consistent
<1> QED
  BY <1>1, AlwaysConsistent, PTL

(* What the next download would find, opening the device after a reset.     *)
LEMMA ReopenedFacts ==
    ASSUME NEW d, DeviceOK(d), Usable(d)
    PROVE  LET e == [Rebooted(d) EXCEPT !.card = TRUE]
               c == Chosen(d)
           IN  /\ DeviceOK(e) /\ e.slots = d.slots /\ e.data = d.data
               /\ Chosen(e) = c /\ Loads(e) <=> Loads(d)
               /\ ~Loads(d) => Recovered(d) = <<>> /\ ~RecoveredWhole(d)
               /\ Loads(d) =>
                     /\ MetaOK(c) /\ Recovered(d) = c.sum
                     /\ RecoveredWhole(d) = Vouched(c)
<1> DEFINE e == [Rebooted(d) EXCEPT !.card = TRUE]
           c == Chosen(d)
           q == Open(e)
<1>1. d \in Device
  BY DEF DeviceOK
<1>2. e \in Device /\ e.slots = d.slots /\ e.data = d.data /\ ~e.open
  BY <1>1 DEF Rebooted, Device
<1>3. DeviceOK(e)
  BY <1>2, SameSlots
<1>4. Reopened(d) = q /\ q.error = "Ok"
  BY DEF Reopened, Usable, Succeeded
<1>5. q = Open(e)
  OBVIOUS
<1> HIDE DEF e, q
<1>6. Chosen(e) = c /\ (Readable(e) <=> Readable(d))
  BY <1>2 DEF Chosen, Readable, ReadMetadataSlot
<1>7. Loads(e) <=> Loads(d)
  BY <1>2, <1>6 DEF Loads
<1>8. Recovered(d) = Stored(q) /\ RecoveredWhole(d) = Vouched(q.store.metadata)
  BY <1>4 DEF Recovered, RecoveredWhole
<1>9. ASSUME ~Loads(d)
      PROVE  Recovered(d) = <<>> /\ ~RecoveredWhole(d)
  <2>1. q.store = Started
    BY <1>2, <1>3, <1>5, <1>7, <1>9, OpenStarted
  <2>2. Stored(q) = Take(q.device.data, 0)
    BY <2>1, StartedType DEF Stored
  <2>3. Stored(q) = <<>>
    BY <2>2, SubSeqEmpty DEF Take
  <2> QED
    BY <1>8, <2>1, <2>3, StartedType DEF Vouched
<1>10. ASSUME Loads(d)
       PROVE  MetaOK(c) /\ Recovered(d) = c.sum /\ RecoveredWhole(d) = Vouched(c)
  <2>1. OpenedAs(e, q)
    BY <1>2, <1>3, <1>5, <1>7, <1>10, OpenLoaded
  <2>2. /\ q.store = Repathed(LoadedStore(e), q.store.metadata.path, q.store.file)
        /\ Stored(q) = c.sum
    <3>1. /\ q.store = Repathed(LoadedStore(e), q.store.metadata.path, q.store.file)
          /\ Stored(q) = Chosen(e).sum
      BY <1>4, <2>1, Zenon DEF OpenedAs
    <3> QED
      BY <1>6, <3>1
  <2>3. MetaOK(c) /\ c \in Metadata /\ Readable(e)
    BY <1>6, <1>10, ChosenFacts DEF Loads
  <2>4. LoadedStore(e) \in LooseStore /\ LoadedStore(e).metadata = c
    BY <1>3, <1>6, <2>3, LoadedStoreType
  <2> DEFINE p == q.store.metadata.path
  <2>5. q.store.metadata = [c EXCEPT !.path = p]
    BY <2>2, <2>4, RepathedMeta
  <2> HIDE DEF p, c
  <2>6. q.store.metadata.complete = c.complete /\ q.store.metadata.stated = c.stated
    BY <2>3, <2>5 DEF Metadata
  <2>7. Vouched(q.store.metadata) = Vouched(c)
    BY <2>6, Zenon DEF Vouched
  <2> QED
    BY <1>8, <2>2, <2>3, <2>7
<1> QED
  BY <1>2, <1>3, <1>6, <1>7, <1>9, <1>10 DEF e

(* Whatever a store that opens recovers is the beginning of one version of  *)
(* the file, and a whole version where it says so on the word of a response *)
(* that gave its length or was chunked, after any number of resets,         *)
(* failures and changes of the card.  The error pages of a 416 are assumed  *)
(* empty: the run error_page shows what other error pages do.               *)
THEOREM RecoversTheTruth ==
    ASSUME ErrorPages \subseteq {<<>>}
    PROVE  Spec => []RecoversTruth
<1>1. ASSUME Consistent
      PROVE  RecoversTruth
  <2> SUFFICES ASSUME Usable(device)
               PROVE  \E v \in Versions :
                         /\ \E n \in 0..Length[v] : Recovered(device) = Take(Version(v), n)
                         /\ RecoveredWhole(device) => Recovered(device) = Version(v)
    BY DEF RecoversTruth
  <2>1. DeviceOK(device) /\ Truthful
    BY <1>1 DEF Consistent, Truthful
  <2>2. CASE Recovered(device) = <<>> /\ ~RecoveredWhole(device)
    <3>1. PICK v \in Versions : TRUE
      BY StoreAssumption
    <3>2. Take(Version(v), 0) = <<>> /\ 0 \in 0..Length[v]
      BY <3>1, EmptyBeginning, VersionSeq
    <3> QED
      BY <2>2, <3>1, <3>2
  <2>3. CASE ~(Recovered(device) = <<>> /\ ~RecoveredWhole(device))
    <3> DEFINE c == Chosen(device)
    <3>1. MetaOK(c) /\ Recovered(device) = c.sum /\ RecoveredWhole(device) = Vouched(c)
      BY <2>1, <2>3, ReopenedFacts
    <3>2. c.validator \in Versions /\ IsBeginning(c.sum, c.validator)
          /\ (Vouched(c) => c.sum = Version(c.validator))
      BY <2>1, <2>3, <3>1 DEF MetaOK, IsTrue
    <3>3. c.sum \in Seq(Units)
      BY <3>1 DEF MetaOK, Metadata
    <3>4. Len(c.sum) \in 0..Length[c.validator]
      BY <3>2, <3>3, VersionSeq, LenProperties DEF IsBeginning
    <3> QED
      BY <3>1, <3>2, <3>4 DEF IsBeginning
  <2> QED
    BY <2>2, <2>3
<1> QED
  BY <1>1, AlwaysConsistent, PTL

(* A reset costs a running download less than one commit interval, for      *)
(* every interval, record size, fault and instant of the reset.             *)
THEOREM LossIsBounded == Spec => []LossBounded
<1>1. ASSUME Consistent
      PROVE  LossBounded
  <2> SUFFICES ASSUME job # Idle, Usable(device)
               PROVE  store.metadata.downloaded < Len(Recovered(device)) + CommitInterval
    BY DEF LossBounded
  <2>1. /\ DeviceOK(device) /\ store \in Store /\ Ready(device, store)
        /\ MetaOK(store.metadata)
    BY <1>1 DEF Consistent, TypeOK
  <2>2. /\ store.uncommitted \in 0..(CommitInterval - 1)
        /\ store.metadata.downloaded \in Nat /\ store.metadata.generation \in Nat
        /\ store.metadata.kind \in {"database", "vfs"}
        /\ CommitInterval \in Nat \ {0}
    BY <2>1, Constants DEF Store, Metadata
  <2>3. Sized(device, store) /\ Committed(device, store)
    BY <2>1 DEF Ready
  <2> DEFINE c == Chosen(device)
             last == Last(device, store)
             g == store.metadata.generation
  <2>4. CASE store.metadata.downloaded = 0
    <3>1. Recovered(device) \in Seq(Units)
      <4>1. Recovered(device) = <<>> \/ (MetaOK(c) /\ Recovered(device) = c.sum)
        <5>1. CASE Loads(device)
          BY <2>1, <5>1, ReopenedFacts
        <5>2. CASE ~Loads(device)
          BY <2>1, <5>2, ReopenedFacts
        <5> QED
          BY <5>1, <5>2
      <4>2. <<>> \in Seq(Units)
        OBVIOUS
      <4>3. MetaOK(c) => c.sum \in Seq(Units)
        BY DEF MetaOK, Metadata
      <4> HIDE DEF c
      <4> QED
        BY <4>1, <4>2, <4>3
    <3>2. Len(Recovered(device)) \in Nat
      BY <3>1, LenProperties
    <3> QED
      BY <2>2, <2>4, <3>2
  <2>5. CASE store.metadata.downloaded # 0
    <3>1. /\ Len(device.slots) = 2 /\ last # None /\ last.generation = g
          /\ last.kind = store.metadata.kind
          /\ last.downloaded = Len(last.sum)
          /\ last.downloaded + store.uncommitted = store.metadata.downloaded
          /\ Former(device, store) # None => Former(device, store).generation < g
      BY <2>3, <2>5 DEF Committed, Present, Newest
    <3>2. SlotOf(g) \in 1..2 /\ last = device.slots[SlotOf(g)]
          /\ Former(device, store) = device.slots[Other(SlotOf(g))]
      BY <2>2, SlotRange DEF Last, Former
    <3>3. last \in Metadata
      BY <2>1, <3>1, <3>2 DEF DeviceOK, MetaOK
    <3>4. Readable(device)
      BY <3>1, <3>2 DEF Readable, ReadMetadataSlot
    <3>5. c = last
      <4>1. /\ SlotOf(c.generation) \in 1..2 /\ device.slots[SlotOf(c.generation)] = c
            /\ c # None /\ c \in Metadata
            /\ device.slots[Other(SlotOf(c.generation))] # None =>
                  device.slots[Other(SlotOf(c.generation))].generation < c.generation
        BY <2>1, <3>4, ChosenFacts
      <4>2. c.generation \in Nat
        BY <4>1 DEF Metadata
      <4>3. SlotOf(c.generation) = SlotOf(g) \/ Other(SlotOf(c.generation)) = SlotOf(g)
        BY <3>2, <4>1 DEF Other
      <4>4. CASE SlotOf(c.generation) = SlotOf(g)
        BY <3>2, <4>1, <4>4
      <4>5. CASE Other(SlotOf(c.generation)) = SlotOf(g)
        <5>1. g < c.generation
          BY <3>1, <3>2, <4>1, <4>5
        <5>2. Other(SlotOf(g)) = SlotOf(c.generation)
          BY <3>2, <4>1, <4>5 DEF Other
        <5>3. c.generation < g
          BY <3>1, <3>2, <4>1, <5>2
        <5> QED
          BY <2>2, <4>2, <5>1, <5>3
      <4> QED
        BY <4>3, <4>4, <4>5
    <3>6. last.downloaded \in Nat
      BY <3>3 DEF Metadata
    <3>7. Loads(device)
      <4>1. device \in Device
        BY <2>1 DEF DeviceOK
      <4>2. Len(device.data) \in Nat
        BY <4>1, FilesType
      <4>3. last.kind = "database" => last.downloaded <= Len(device.data)
        BY <2>2, <2>3, <3>1, <3>6, <4>2 DEF Sized
      <4> QED
        BY <3>4, <3>5, <4>3 DEF Loads
    <3>8. Recovered(device) = last.sum
      BY <2>1, <3>5, <3>7, ReopenedFacts
    <3> QED
      BY <2>2, <3>1, <3>6, <3>8
  <2> QED
    BY <2>4, <2>5
<1> QED
  BY <1>1, AlwaysConsistent, PTL

=============================================================================
