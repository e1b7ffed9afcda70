------------------------- MODULE PalmTlsLibraryProofs -------------------------
(***************************************************************************)
(* Theorems about PalmTlsLibrary for any number of slots, any ID width that *)
(* leaves room for the reserved IDs, and any requests, options and faults.  *)
(***************************************************************************)
EXTENDS PalmTlsLibrary, FiniteSetTheorems, NumberLemmas, TLAPS

-----------------------------------------------------------------------------
(* NextSessionId.                                                           *)

(* "At most four IDs are reserved by the two slots, so this loop always     *)
(* finds a free ID" (palm_library.c): with fewer reserved IDs than IDs, one *)
(* is free.                                                                 *)
LEMMA FreeIdExists ==
    ASSUME NEW c
    PROVE  SessionIds \ Reserved(c) # {}
<1> DEFINE Holds(s, k, i) == \/ k = 0 /\ c[s].id = i
                             \/ k = 1 /\ c[s].profile # None /\ c[s].profile.id = i
           Places == Slots \X (0..1)
           f == [i \in SessionIds |->
                    CHOOSE p \in Places : Holds(p[1], p[2], i)]
<1>1. SUFFICES ASSUME SessionIds \subseteq Reserved(c) PROVE FALSE
  OBVIOUS
<1>2. \A i \in SessionIds : \E p \in Places : Holds(p[1], p[2], i)
  <2> TAKE i \in SessionIds
  <2>1. i \in Reserved(c)
    BY <1>1
  <2>2. CASE \E s \in Slots : c[s].id = i
    <3>1. PICK s \in Slots : c[s].id = i
      BY <2>2
    <3>2. <<s, 0>> \in Places /\ Holds(s, 0, i)
      BY <3>1
    <3> QED
      BY <3>2
  <2>3. CASE \E s \in Slots : c[s].profile # None /\ c[s].profile.id = i
    <3>1. PICK s \in Slots : c[s].profile # None /\ c[s].profile.id = i
      BY <2>3
    <3>2. <<s, 1>> \in Places /\ Holds(s, 1, i)
      BY <3>1
    <3> QED
      BY <3>2
  <2> QED
    BY <2>1, <2>2, <2>3 DEF Reserved
<1>3. \A i \in SessionIds : f[i] \in Places /\ Holds(f[i][1], f[i][2], i)
  <2> TAKE i \in SessionIds
  <2>1. f[i] = CHOOSE p \in Places : Holds(p[1], p[2], i)
    OBVIOUS
  <2> HIDE DEF f, Holds, Places
  <2> QED
    BY <1>2, <2>1
<1>4. f \in [SessionIds -> Places]
  BY <1>3
<1>5. IsFiniteSet(SessionIds) /\ Cardinality(SessionIds) = MaxSessionId
  BY FS_Interval, SizeAssumption DEF SessionIds
<1>6. IsFiniteSet(Places) /\ Cardinality(Places) = 2 * MaxSessions
  <2>1. IsFiniteSet(Slots) /\ Cardinality(Slots) = MaxSessions
    <3>1. MaxSessions - 1 \in Int /\ ~(0 > MaxSessions - 1)
      BY SizeAssumption
    <3>2. /\ IsFiniteSet(0..(MaxSessions - 1))
          /\ Cardinality(0..(MaxSessions - 1)) = MaxSessions - 1 - 0 + 1
      BY <3>1, FS_Interval
    <3> QED
      BY <3>2, SizeAssumption DEF Slots
  <2>2. IsFiniteSet(0..1) /\ Cardinality(0..1) = 2
    <3>1. 0 \in Int /\ 1 \in Int
      OBVIOUS
    <3>2. /\ IsFiniteSet(0..1)
          /\ Cardinality(0..1) = IF 0 > 1 THEN 0 ELSE 1 - 0 + 1
      BY <3>1, FS_Interval, Zenon
    <3> QED
      BY <3>2
  <2> QED
    <3>1. /\ IsFiniteSet(Slots \X (0..1))
          /\ Cardinality(Slots \X (0..1))
                = Cardinality(Slots) * Cardinality(0..1)
      BY <2>1, <2>2, FS_Product
    <3> QED
      BY <2>1, <2>2, <3>1, SizeAssumption
<1>7. PICK i \in SessionIds, j \in SessionIds : i # j /\ f[i] = f[j]
  <2>1. Cardinality(Places) < Cardinality(SessionIds)
    BY <1>5, <1>6, SizeAssumption
  <2> HIDE DEF f, Places
  <2> QED
    BY <1>4, <1>5, <1>6, <2>1, FS_PigeonHole
<1>8. Holds(f[i][1], f[i][2], i) /\ Holds(f[i][1], f[i][2], j)
  <2> HIDE DEF f, Holds, Places
  <2>1. Holds(f[i][1], f[i][2], i)
    BY <1>3, <1>7
  <2>2. Holds(f[i][1], f[i][2], j)
    BY <1>3, <1>7
  <2> QED
    BY <2>1, <2>2
<1> HIDE DEF f
<1> QED
  BY <1>7, <1>8

(* The generator returns a session ID that nothing holds.                   *)
LEMMA NextSessionIdFree ==
    ASSUME NEW c, NEW n \in 0..MaxSessionId
    PROVE  NextSessionId(n, c) \in SessionIds \ Reserved(c)
<1> DEFINE Free == SessionIds \ Reserved(c)
           Distances == {Distance(n, i) : i \in Free}
<1>1. Free # {}
  BY FreeIdExists
<1>2. Distances \subseteq Nat
  BY SizeAssumption DEF Distance, SessionIds
<1>3. \E d \in Distances : \A e \in Distances : d <= e
  BY <1>1, <1>2, LeastNatural
<1>4. \E i \in Free : \A j \in Free : Distance(n, i) <= Distance(n, j)
  BY <1>3
<1> QED
  BY <1>4 DEF NextSessionId

-----------------------------------------------------------------------------
(* The operations on one slot keep it in order.                             *)

(* The releasing operations, field by field.                                *)
LEMMA FreeResumeFields ==
    ASSUME NEW c \in Control
    PROVE  LET d == FreeResume(c) IN
           /\ d \in Control
           /\ d.phase = c.phase /\ d.id = c.id /\ d.profile = c.profile
           /\ d.session = c.session /\ d.context = c.context
           /\ d.resume = None
           /\ d.heap = c.heap - Objects(c.resume)
<1> DEFINE left == c.heap - Objects(c.resume)
<1>1. left \in Int
  BY DEF Control, Objects
<1>2. FreeResume(c) = [c EXCEPT !.resume = None, !.heap = left]
  BY DEF FreeResume
<1>3. FreeResume(c) \in Control
  <2> HIDE DEF left
  <2> QED
    BY <1>1, <1>2 DEF Control
<1> QED
  BY <1>3 DEF FreeResume, Control

LEMMA FreeContextFields ==
    ASSUME NEW c \in Control
    PROVE  LET d == FreeContext(c) IN
           /\ d \in Control
           /\ d.phase = c.phase /\ d.id = c.id /\ d.profile = c.profile
           /\ d.session = c.session /\ d.context = None
           /\ d.resume = c.resume
           /\ d.heap = c.heap - Objects(c.context)
<1> DEFINE left == c.heap - Objects(c.context)
<1>1. left \in Int
  BY DEF Control, Objects
<1>2. FreeContext(c) = [c EXCEPT !.context = None, !.heap = left]
  BY DEF FreeContext
<1>3. FreeContext(c) \in Control
  <2> HIDE DEF left
  <2> QED
    BY <1>1, <1>2 DEF Control
<1> QED
  BY <1>3 DEF FreeContext, Control

LEMMA FreeSslFields ==
    ASSUME NEW c \in Control
    PROVE  LET d == FreeSsl(c) IN
           /\ d \in Control
           /\ d.phase = c.phase /\ d.id = c.id /\ d.profile = c.profile
           /\ d.session = None /\ d.context = c.context
           /\ d.resume = c.resume
           /\ d.heap = c.heap - Objects(c.session)
<1> DEFINE left == c.heap - Objects(c.session)
<1>1. left \in Int
  BY DEF Control, Objects
<1>2. FreeSsl(c) = [c EXCEPT !.session = None, !.heap = left]
  BY DEF FreeSsl
<1>3. FreeSsl(c) \in Control
  <2> HIDE DEF left
  <2> QED
    BY <1>1, <1>2 DEF Control
<1> QED
  BY <1>3 DEF FreeSsl, Control

LEMMA CloseProfileType ==
    ASSUME NEW q \in Profile \cup {None}
    PROVE  /\ CloseProfile(q) \in Profile \cup {None}
           /\ q = None => CloseProfile(q) = None
           /\ q # None => CloseProfile(q) # None /\ CloseProfile(q).id = q.id
BY NoneIsNull DEF CloseProfile, Profile

(* The end of CloseSession: the slot is free, its profile closed.           *)
LEMMA FreedFields ==
    ASSUME NEW c \in Control
    PROVE  LET d == [c EXCEPT !.id = 0, !.phase = "free",
                              !.profile = CloseProfile(@)] IN
           /\ d \in Control
           /\ d.phase = "free" /\ d.id = 0
           /\ d.profile = CloseProfile(c.profile)
           /\ d.session = c.session /\ d.context = c.context
           /\ d.resume = c.resume /\ d.heap = c.heap
<1> DEFINE q == CloseProfile(c.profile)
           d == [c EXCEPT !.id = 0, !.phase = "free", !.profile = q]
<1>1. q \in Profile \cup {None}
  BY CloseProfileType DEF Control
<1>2. 0 \in 0..MaxSessionId
  BY SizeAssumption
<1>3. /\ d \in Control
      /\ d.phase = "free" /\ d.id = 0 /\ d.profile = q
      /\ d.session = c.session /\ d.context = c.context
      /\ d.resume = c.resume /\ d.heap = c.heap
  <2> HIDE DEF q
  <2> QED
    BY <1>1, <1>2 DEF Control
<1> QED
  BY <1>3

(* Closing without saving leaves a free slot with nothing but its profile.  *)
LEMMA CloseDiscardingFields ==
    ASSUME NEW c \in Control
    PROVE  LET d == CloseDiscarding(c) IN
           /\ d \in Control
           /\ d.phase = "free" /\ d.id = 0
           /\ d.session = None /\ d.context = None /\ d.resume = None
           /\ d.profile = CloseProfile(c.profile)
           /\ d.heap = c.heap - Objects(c.session) - Objects(c.context)
                              - Objects(c.resume)
<1> DEFINE a == FreeSsl(c)
           b == FreeContext(a)
           e == FreeResume(b)
<1>1. /\ a \in Control /\ a.session = None /\ a.context = c.context
      /\ a.resume = c.resume /\ a.profile = c.profile
      /\ a.heap = c.heap - Objects(c.session)
  BY FreeSslFields
<1>2. /\ b \in Control /\ b.session = None /\ b.context = None
      /\ b.resume = c.resume /\ b.profile = c.profile
      /\ b.heap = c.heap - Objects(c.session) - Objects(c.context)
  <2> HIDE DEF a
  <2> QED
    BY <1>1, FreeContextFields
<1>3. /\ e \in Control /\ e.session = None /\ e.context = None
      /\ e.resume = None /\ e.profile = c.profile
      /\ e.heap = c.heap - Objects(c.session) - Objects(c.context)
                        - Objects(c.resume)
  <2> HIDE DEF b
  <2> QED
    BY <1>2, FreeResumeFields
<1>4. CloseDiscarding(c) = [e EXCEPT !.id = 0, !.phase = "free",
                                     !.profile = CloseProfile(@)]
  BY DEF CloseDiscarding
<1> HIDE DEF e
<1> QED
  BY <1>3, <1>4, FreedFields

(* A profile survives a close under the ID it had.                          *)
SameProfileId(q, r) == /\ q = None <=> r = None
                       /\ q # None => q.id = r.id

LEMMA CloseDiscardingOK ==
    ASSUME NEW p, NEW c, SlotOK(c, p)
    PROVE  LET d == CloseDiscarding(c) IN
           /\ SlotOK(d, p) /\ ~IsLive(d) /\ d.heap = 0
           /\ SameProfileId(d.profile, c.profile)
<1>1. c \in Control /\ c.profile \in Profile \cup {None}
  BY DEF SlotOK, Control
<1> DEFINE d == CloseDiscarding(c)
<1>2. /\ d \in Control
      /\ d.phase = "free" /\ d.id = 0
      /\ d.session = None /\ d.context = None /\ d.resume = None
      /\ d.profile = CloseProfile(c.profile)
      /\ d.heap = c.heap - Objects(c.session) - Objects(c.context)
                         - Objects(c.resume)
  BY <1>1, CloseDiscardingFields
<1>3. SameProfileId(d.profile, c.profile)
  BY <1>1, <1>2, CloseProfileType DEF SameProfileId
<1>4. d.heap = 0
  BY <1>1, <1>2 DEF SlotOK, SlotBalanced, Objects, Control
<1> HIDE DEF d
<1>5. SlotOK(d, p) /\ ~IsLive(d)
  BY <1>2, <1>4 DEF SlotOK, SlotShape, SlotBalanced, SlotExact, IsLive, Objects
<1> QED
  BY <1>3, <1>4, <1>5 DEF d

(* Saving the ticket replaces the cached entry by a true one.               *)
LEMMA SaveResumeSessionOK ==
    ASSUME NEW p \in Protocols, NEW kept, NEW c, SlotOK(c, p)
    PROVE  LET d == SaveResumeSession(c, p, kept) IN
           /\ SlotOK(d, p)
           /\ d.phase = c.phase /\ d.id = c.id /\ d.profile = c.profile
           /\ d.session = c.session /\ d.context = c.context
<1>1. CASE SaveResumeSession(c, p, kept) = c
  BY <1>1
<1>2. CASE SaveResumeSession(c, p, kept) # c
  <2> DEFINE a == FreeResume(c)
             entry == [host   |-> c.session.request.host,
                       trust  |-> c.context.trust,
                       origin |-> [request |-> c.session.request,
                                   protocol |-> p]]
             h == a.heap + 1
             d == [a EXCEPT !.resume = entry, !.heap = h]
  <2>1. /\ c.session # None
        /\ SaveResumeSession(c, p, kept) = d
    BY <1>2 DEF SaveResumeSession
  <2>2. c \in Control /\ c.context # None
    BY <2>1 DEF SlotOK, SlotShape
  <2>3. c.session \in Session /\ c.context \in Context
    BY <2>1, <2>2 DEF Control
  <2>4. entry \in Resume /\ entry # None
    BY <2>3, NoneIsNull DEF Resume, Session, Context, Request, Origin
  <2>5. ResumeExact(entry, p)
    BY <2>1, <2>2 DEF ResumeExact, SlotOK, SlotExact, SessionExact
  <2>6. /\ a \in Control /\ a.resume = None
        /\ a.phase = c.phase /\ a.id = c.id /\ a.profile = c.profile
        /\ a.session = c.session /\ a.context = c.context
        /\ a.heap = c.heap - Objects(c.resume)
    BY <2>2, FreeResumeFields
  <2> HIDE DEF a, entry
  <2>7. h \in Int
    BY <2>6 DEF Control
  <2>8. /\ d \in Control
        /\ d.resume = entry /\ d.heap = h
        /\ d.phase = c.phase /\ d.id = c.id /\ d.profile = c.profile
        /\ d.session = c.session /\ d.context = c.context
    <3> HIDE DEF h
    <3> QED
      BY <2>4, <2>6, <2>7 DEF Control
  <2>9. d.heap = Objects(d.session) + Objects(d.context) + Objects(d.resume)
    <3>1. d.heap = c.heap - Objects(c.resume) + 1
      BY <2>6, <2>8
    <3>2. Objects(d.resume) = 1
      BY <2>4, <2>8 DEF Objects
    <3>3. c.heap = Objects(c.session) + Objects(c.context) + Objects(c.resume)
      BY DEF SlotOK, SlotBalanced
    <3>4. /\ Objects(c.session) \in Int /\ Objects(c.context) \in Int
          /\ Objects(c.resume) \in Int
      BY DEF Objects
    <3> QED
      BY <2>8, <3>1, <3>2, <3>3, <3>4
  <2> HIDE DEF d
  <2>10. SlotShape(d)
    BY <2>8 DEF SlotOK, SlotShape, IsLive
  <2>11. SlotExact(d, p)
    BY <2>5, <2>8 DEF SlotOK, SlotExact
  <2> QED
    BY <2>1, <2>8, <2>9, <2>10, <2>11 DEF SlotOK, SlotBalanced
<1> QED
  BY <1>1, <1>2

LEMMA CloseSavingOK ==
    ASSUME NEW p \in Protocols, NEW kept, NEW c, SlotOK(c, p)
    PROVE  LET d == CloseSaving(c, p, kept) IN
           /\ SlotOK(d, p) /\ ~IsLive(d)
           /\ SameProfileId(d.profile, c.profile)
<1> DEFINE a == SaveResumeSession(c, p, kept)
           b == FreeSsl(a)
           e == IF KeepsContext(c) THEN b ELSE FreeContext(b)
           d == CloseSaving(c, p, kept)
<1>1. SlotOK(a, p) /\ a.profile = c.profile
  BY SaveResumeSessionOK
<1> HIDE DEF a
<1>2. /\ b \in Control /\ b.session = None /\ b.context = a.context
      /\ b.resume = a.resume /\ b.profile = c.profile
      /\ b.heap = a.heap - Objects(a.session)
  BY <1>1, FreeSslFields DEF SlotOK
<1>3. b.heap = Objects(b.context) + Objects(b.resume)
  BY <1>1, <1>2 DEF SlotOK, SlotBalanced, Objects
<1> HIDE DEF b
<1>4. /\ e \in Control /\ e.session = None /\ e.resume = a.resume
      /\ e.profile = c.profile
      /\ e.heap = Objects(e.context) + Objects(e.resume)
  <2>1. CASE KeepsContext(c)
    BY <2>1, <1>2, <1>3
  <2>2. CASE ~KeepsContext(c)
    <3>1. /\ FreeContext(b) \in Control /\ FreeContext(b).session = None
          /\ FreeContext(b).context = None
          /\ FreeContext(b).resume = a.resume
          /\ FreeContext(b).profile = c.profile
          /\ FreeContext(b).heap = b.heap - Objects(b.context)
      BY <1>2, FreeContextFields
    <3> QED
      BY <2>2, <1>2, <1>3, <3>1 DEF Objects
  <2> QED
    BY <2>1, <2>2
<1>5. d = [e EXCEPT !.id = 0, !.phase = "free", !.profile = CloseProfile(@)]
  BY DEF CloseSaving, a, b
<1> HIDE DEF e
<1>6. /\ d \in Control
      /\ d.phase = "free" /\ d.id = 0 /\ d.session = None
      /\ d.context = e.context /\ d.resume = a.resume
      /\ d.profile = CloseProfile(c.profile)
      /\ d.heap = Objects(d.context) + Objects(d.resume)
  BY <1>4, <1>5, FreedFields
<1>7. SameProfileId(d.profile, c.profile)
  <2>1. c.profile \in Profile \cup {None}
    BY DEF SlotOK, Control
  <2> QED
    BY <1>6, <2>1, CloseProfileType DEF SameProfileId
<1> HIDE DEF d
<1>8. SlotShape(d) /\ ~IsLive(d)
  BY <1>6 DEF SlotShape, IsLive
<1>9. SlotExact(d, p)
  BY <1>1, <1>6 DEF SlotOK, SlotExact
<1>10. SlotBalanced(d)
  BY <1>6 DEF SlotBalanced, Objects
<1> QED
  BY <1>6, <1>7, <1>8, <1>9, <1>10 DEF SlotOK, d

(* A shutdown leaves nothing allocated.                                     *)
LEMMA ShutdownReleases ==
    ASSUME NEW p, NEW c, SlotOK(c, p)
    PROVE  Shutdown(c).heap = 0
<1> DEFINE a == CloseDiscarding(c)
           b == FreeResume(a)
<1>1. a \in Control /\ a.heap = 0 /\ a.resume = None /\ a.context = None
  <2>1. c \in Control
    BY DEF SlotOK
  <2> QED
    BY <2>1, CloseDiscardingFields, CloseDiscardingOK
<1>2. /\ b \in Control /\ b.context = None
      /\ b.heap = a.heap - Objects(a.resume)
  <2> HIDE DEF a
  <2> QED
    BY <1>1, FreeResumeFields
<1>3. FreeContext(b).heap = b.heap - Objects(b.context)
  <2> HIDE DEF b
  <2> QED
    BY <1>2, FreeContextFields
<1>4. b.heap = 0
  BY <1>1, <1>2 DEF Objects
<1> QED
  BY <1>2, <1>3, <1>4 DEF Shutdown, Objects

-----------------------------------------------------------------------------
(* Opening a session on a free slot.                                        *)

LEMMA TrustType ==
    ASSUME NEW r \in Request
    PROVE  TrustOf(r) \in Trust
BY DEF TrustOf, Request, Trust

(* SameTrust compares everything a trust configuration consists of.         *)
LEMMA SameTrustIsExact ==
    ASSUME NEW t \in Trust, NEW r \in Request, SameTrust(t, r)
    PROVE  t = TrustOf(r)
BY DEF SameTrust, TrustOf, Trust, Request

(* The profile of a new session, if it has one, bears the session's ID.     *)
OwnProfile(q, id) == q # None => q.id = id

LEMMA ProfileStartType ==
    ASSUME NEW id \in SessionIds, NEW options, NEW p
    PROVE  /\ ProfileStart(id, options, p) \in Profile \cup {None}
           /\ OwnProfile(ProfileStart(id, options, p), id)
BY DEF ProfileStart, Profile, Statuses, SessionIds, OwnProfile

(* The context a session gets is the one asked for, new or cached.          *)
LEMMA ConfigureContextOK ==
    ASSUME NEW p \in Protocols, NEW r \in Request, NEW options,
           NEW c, SlotOK(c, p), ~IsLive(c)
    PROVE  LET d == ConfigureContext(c, r, options, p) IN
           /\ SlotOK(d, p) /\ ~IsLive(d)
           /\ d.context # None
           /\ d.context.host = r.host /\ d.context.trust = TrustOf(r)
           /\ d.resume = c.resume /\ d.profile = c.profile
<1> DEFINE d == ConfigureContext(c, r, options, p)
<1>1. c \in Control
  BY DEF SlotOK
<1>2. CASE Reusable(options, p) /\ ContextMatches(c, r)
  <2>1. d = c
    BY <1>2 DEF ConfigureContext
  <2>2. /\ c.context # None /\ c.context.host = r.host
        /\ SameTrust(c.context.trust, r)
    BY <1>2 DEF ContextMatches
  <2>3. c.context.trust \in Trust
    BY <1>1, <2>2 DEF Control, Context
  <2>4. c.context.trust = TrustOf(r)
    BY <2>2, <2>3, SameTrustIsExact
  <2> QED
    BY <2>1, <2>2, <2>4
<1>3. CASE ~(Reusable(options, p) /\ ContextMatches(c, r))
  <2> DEFINE a == FreeContext(c)
             fresh == [host |-> r.host, trust |-> TrustOf(r)]
             h == a.heap + 1
             e == [a EXCEPT !.context = fresh, !.heap = h]
  <2>1. d = e
    BY <1>3 DEF ConfigureContext
  <2>2. /\ a \in Control /\ a.context = None
        /\ a.phase = c.phase /\ a.id = c.id /\ a.profile = c.profile
        /\ a.session = c.session /\ a.resume = c.resume
        /\ a.heap = c.heap - Objects(c.context)
    BY <1>1, FreeContextFields
  <2>3. fresh \in Context /\ fresh # None
    BY TrustType, NoneIsNull DEF Context, Request
  <2>4. fresh.host = r.host /\ fresh.trust = TrustOf(r)
    OBVIOUS
  <2> HIDE DEF a, fresh
  <2>5. h \in Int
    BY <2>2 DEF Control
  <2>6. /\ e \in Control
        /\ e.context = fresh /\ e.heap = h
        /\ e.phase = c.phase /\ e.id = c.id /\ e.profile = c.profile
        /\ e.session = c.session /\ e.resume = c.resume
    <3> HIDE DEF h
    <3> QED
      BY <2>2, <2>3, <2>5 DEF Control
  <2>7. e.heap = c.heap - Objects(c.context) + 1
    BY <2>2, <2>6
  <2> HIDE DEF e
  <2>8. c.session = None
    BY DEF SlotOK, SlotShape
  <2>9. SlotShape(e) /\ ~IsLive(e) /\ SlotExact(e, p)
    BY <2>6, <2>8 DEF SlotOK, SlotShape, IsLive, SlotExact
  <2>10. SlotBalanced(e)
    BY <1>1, <2>3, <2>6, <2>7, <2>8 DEF SlotOK, SlotBalanced, Objects, Control
  <2> QED
    BY <2>1, <2>3, <2>4, <2>6, <2>9, <2>10 DEF SlotOK
<1> QED
  BY <1>2, <1>3

LEMMA ConfiguredOK ==
    ASSUME NEW p \in Protocols, NEW r \in Request, NEW options,
           NEW id \in SessionIds, NEW c, SlotOK(c, p), ~IsLive(c)
    PROVE  LET d == Configured(c, r, options, p, id) IN
           /\ SlotOK(d, p) /\ ~IsLive(d)
           /\ d.context # None
           /\ d.context.host = r.host /\ d.context.trust = TrustOf(r)
           /\ d.resume = c.resume /\ OwnProfile(d.profile, id)
<1> DEFINE q == ProfileStart(id, options, p)
           a == [c EXCEPT !.profile = q]
<1>1. q \in Profile \cup {None} /\ OwnProfile(q, id)
  BY ProfileStartType
<1> HIDE DEF q
<1>2. c \in Control
  BY DEF SlotOK
<1>3. /\ a \in Control /\ a.profile = q
      /\ a.phase = c.phase /\ a.id = c.id /\ a.session = c.session
      /\ a.context = c.context /\ a.resume = c.resume /\ a.heap = c.heap
  BY <1>1, <1>2 DEF Control
<1>4. Configured(c, r, options, p, id) = ConfigureContext(a, r, options, p)
  BY DEF Configured, q
<1> HIDE DEF a
<1>5. SlotOK(a, p) /\ ~IsLive(a)
  BY <1>3 DEF SlotOK, SlotShape, SlotBalanced, SlotExact, IsLive
<1> QED
  BY <1>1, <1>3, <1>4, <1>5, ConfigureContextOK

(* What is left of the cached entry belongs to the peer asked for.          *)
LEMMA FilterResumeOK ==
    ASSUME NEW p, NEW r \in Request, NEW options, NEW accepted,
           NEW c, SlotOK(c, p), ~IsLive(c)
    PROVE  LET d == FilterResume(c, r, options, accepted) IN
           /\ SlotOK(d, p) /\ ~IsLive(d)
           /\ d.context = c.context /\ d.profile = c.profile
           /\ d.resume # None => /\ d.resume.host = r.host
                                 /\ d.resume.trust = TrustOf(r)
<1> DEFINE a == FreeResume(c)
<1>1. c \in Control
  BY DEF SlotOK
<1>2. CASE FilterResume(c, r, options, accepted) = c
  <2>1. CASE c.resume = None
    BY <1>2, <2>1
  <2>2. CASE c.resume # None
    <3>1. FreeResume(c) # c
      BY <1>1, <2>2, FreeResumeFields
    <3>2. ResumeMatches(c, r)
      BY <1>2, <3>1 DEF FilterResume
    <3>3. c.resume.trust \in Trust
      BY <1>1, <2>2 DEF Control, Resume
    <3> QED
      BY <1>2, <3>2, <3>3, SameTrustIsExact DEF ResumeMatches
  <2> QED
    BY <2>1, <2>2
<1>3. CASE FilterResume(c, r, options, accepted) = a
  <2>1. /\ a \in Control /\ a.resume = None
        /\ a.phase = c.phase /\ a.id = c.id /\ a.profile = c.profile
        /\ a.session = c.session /\ a.context = c.context
        /\ a.heap = c.heap - Objects(c.resume)
    BY <1>1, FreeResumeFields
  <2> HIDE DEF a
  <2>2. SlotShape(a) /\ ~IsLive(a) /\ SlotExact(a, p)
    BY <2>1 DEF SlotOK, SlotShape, IsLive, SlotExact
  <2>3. SlotBalanced(a)
    BY <1>1, <2>1 DEF SlotOK, SlotBalanced, Objects, Control
  <2> QED
    BY <1>3, <2>1, <2>2, <2>3 DEF SlotOK
<1> QED
  BY <1>2, <1>3 DEF FilterResume

(* A session attached over its own context and a fitting entry is exact.    *)
LEMMA AttachSessionOK ==
    ASSUME NEW p \in Protocols, NEW r \in Request, NEW options,
           NEW id \in SessionIds, NEW c, SlotOK(c, p), ~IsLive(c),
           OwnProfile(c.profile, id),
           c.context # None, c.context.trust = TrustOf(r),
           c.resume # None => /\ c.resume.host = r.host
                              /\ c.resume.trust = TrustOf(r)
    PROVE  LET d == AttachSession(c, r, options, p, id) IN
           /\ SlotOK(d, p)
           /\ d.phase = "opening" /\ d.id = id /\ d.profile = c.profile
<1> DEFINE session == [request |-> r, store |-> c.context.trust,
                       ticket |-> Ticket(c, options),
                       reusable |-> Reusable(options, p),
                       allowResume |-> "resume" \in options]
           h == c.heap + 1
           d == [c EXCEPT !.session = session, !.heap = h, !.id = id,
                          !.phase = "opening"]
<1>1. AttachSession(c, r, options, p, id) = d
  BY DEF AttachSession
<1>2. c \in Control /\ c.session = None
  BY DEF SlotOK, SlotShape
<1>3. Ticket(c, options) \in Origin \cup {None}
  <2>1. c.resume # None => c.resume.origin \in Origin
    BY <1>2 DEF Control, Resume
  <2> QED
    BY <2>1 DEF Ticket
<1>4. session \in Session /\ session # None
  <2>1. c.context.trust \in Trust
    BY TrustType
  <2>2. Reusable(options, p) \in BOOLEAN
    BY DEF Reusable
  <2>3. ("resume" \in options) \in BOOLEAN
    OBVIOUS
  <2>4. session \in Session
    <3> HIDE DEF session
    <3>1. session = [request |-> r, store |-> c.context.trust,
                     ticket |-> Ticket(c, options),
                     reusable |-> Reusable(options, p),
                     allowResume |-> "resume" \in options]
      BY DEF session
    <3> QED
      BY <1>3, <2>1, <2>2, <2>3, <3>1, Zenon DEF Session
  <2> QED
    BY <2>4, NoneIsNull
<1>5. SessionExact(session, p)
  <2>1. Ticket(c, options) # None =>
            c.resume # None /\ Ticket(c, options) = c.resume.origin
    BY DEF Ticket
  <2>2. c.resume # None => ResumeExact(c.resume, p)
    BY DEF SlotOK, SlotExact
  <2> QED
    BY <2>1, <2>2 DEF SessionExact, ResumeExact
<1>6. session.store = c.context.trust
  OBVIOUS
<1> HIDE DEF session
<1>7. h \in Int /\ id \in 0..MaxSessionId
  BY <1>2 DEF Control, SessionIds
<1>8. /\ d \in Control
      /\ d.session = session /\ d.heap = h /\ d.id = id
      /\ d.phase = "opening" /\ d.context = c.context
      /\ d.resume = c.resume /\ d.profile = c.profile
  <2> HIDE DEF h
  <2> QED
    BY <1>2, <1>4, <1>7 DEF Control
<1>9. SlotBalanced(d)
  <2>1. d.heap = c.heap + 1
    BY <1>8
  <2> HIDE DEF d
  <2> QED
    BY <1>2, <1>4, <1>8, <2>1 DEF SlotOK, SlotBalanced, Objects, Control
<1> HIDE DEF d
<1>10. SlotExact(d, p)
  BY <1>5, <1>6, <1>8 DEF SlotOK, SlotExact
<1>11. SlotShape(d)
  BY <1>4, <1>8 DEF SlotShape, IsLive, OwnProfile, SessionIds
<1> QED
  BY <1>1, <1>8, <1>9, <1>10, <1>11 DEF SlotOK

-----------------------------------------------------------------------------
(* What a call may do to the identity of the slot it runs on: keep it, or   *)
(* give the slot the ID it was called with.                                 *)

KeepsIds(d, c) ==
    /\ IsLive(d) => IsLive(c) /\ d.id = c.id
    /\ d.profile # None => c.profile # None /\ d.profile.id = c.profile.id

TakesId(d, id) ==
    /\ IsLive(d) => d.id = id
    /\ OwnProfile(d.profile, id)

LEMMA ContinueHandshakeOK ==
    ASSUME NEW p, NEW cooperative, NEW handshake,
           NEW c, SlotOK(c, p), IsLive(c)
    PROVE  LET ran == ContinueHandshake(c, cooperative, handshake) IN
           /\ SlotOK(ran.control, p)
           /\ KeepsIds(ran.control, c)
           /\ ran.status \in Statuses
<1> DEFINE ran == ContinueHandshake(c, cooperative, handshake)
           d == [c EXCEPT !.phase = "active"]
<1>1. /\ d \in Control
      /\ d.phase = "active" /\ d.id = c.id /\ d.profile = c.profile
      /\ d.session = c.session /\ d.context = c.context
      /\ d.resume = c.resume /\ d.heap = c.heap
  BY DEF SlotOK, Control
<1>2. CASE ran = [control |-> d, status |-> "Ok"]
  <2>1. ran.control = d /\ ran.status = "Ok"
    BY <1>2
  <2> HIDE DEF d, ran
  <2>2. SlotOK(d, p) /\ KeepsIds(d, c)
    BY <1>1 DEF SlotOK, SlotShape, SlotBalanced, SlotExact, IsLive, KeepsIds
  <2> QED
    BY <2>1, <2>2 DEF ran, Statuses
<1>3. CASE ran = [control |-> c, status |-> "WouldBlock"]
  BY <1>3 DEF KeepsIds, Statuses
<1>4. CASE ran = [control |-> CloseDiscarding(c), status |-> "HandshakeFailed"]
  <2>1. ran.control = CloseDiscarding(c) /\ ran.status = "HandshakeFailed"
    BY <1>4
  <2> HIDE DEF ran
  <2>2. SlotOK(CloseDiscarding(c), p) /\ KeepsIds(CloseDiscarding(c), c)
    BY CloseDiscardingOK DEF KeepsIds, SameProfileId
  <2> QED
    BY <2>1, <2>2 DEF ran, Statuses
<1> QED
  BY <1>2, <1>3, <1>4 DEF ContinueHandshake

LEMMA OpenSessionOK ==
    ASSUME NEW p \in Protocols, NEW r \in Request, NEW options,
           NEW id \in SessionIds, NEW accepted, NEW handshake,
           NEW c, SlotOK(c, p), ~IsLive(c)
    PROVE  LET ran == OpenSession(c, r, options, p, id, accepted, handshake) IN
           /\ SlotOK(ran.control, p)
           /\ TakesId(ran.control, id)
           /\ ran.status \in Statuses
<1> DEFINE a == Configured(c, r, options, p, id)
           b == FilterResume(a, r, options, accepted)
           e == AttachSession(b, r, options, p, id)
           ran == ContinueHandshake(e, "cooperative" \in options, handshake)
<1>1. /\ SlotOK(a, p) /\ ~IsLive(a) /\ OwnProfile(a.profile, id)
      /\ a.context # None /\ a.context.trust = TrustOf(r)
  BY ConfiguredOK
<1>2. /\ SlotOK(b, p) /\ ~IsLive(b) /\ OwnProfile(b.profile, id)
      /\ b.context # None /\ b.context.trust = TrustOf(r)
      /\ b.resume # None => /\ b.resume.host = r.host
                            /\ b.resume.trust = TrustOf(r)
  <2>1. /\ SlotOK(b, p) /\ ~IsLive(b)
        /\ b.context = a.context /\ b.profile = a.profile
        /\ b.resume # None => /\ b.resume.host = r.host
                              /\ b.resume.trust = TrustOf(r)
    <3> HIDE DEF a
    <3> QED
      BY <1>1, FilterResumeOK
  <2> HIDE DEF a, b
  <2> QED
    BY <1>1, <2>1
<1>3. /\ SlotOK(e, p) /\ IsLive(e) /\ e.id = id /\ OwnProfile(e.profile, id)
  <2> HIDE DEF b
  <2> QED
    BY <1>2, AttachSessionOK DEF IsLive
<1>4. /\ SlotOK(ran.control, p)
      /\ KeepsIds(ran.control, e)
      /\ ran.status \in Statuses
  <2> HIDE DEF e
  <2> QED
    BY <1>3, ContinueHandshakeOK
<1>5. TakesId(ran.control, id)
  <2> HIDE DEF e, ran
  <2> QED
    BY <1>3, <1>4 DEF KeepsIds, TakesId, OwnProfile
<1> QED
  BY <1>4, <1>5 DEF OpenSession

LEMMA OpenSetupFailsOK ==
    ASSUME NEW p \in Protocols, NEW r \in Request, NEW options,
           NEW id \in SessionIds, NEW c, SlotOK(c, p), ~IsLive(c)
    PROVE  LET d == OpenSetupFails(c, r, options, p, id) IN
           SlotOK(d, p) /\ TakesId(d, id)
<1> DEFINE a == Configured(c, r, options, p, id)
<1>1. SlotOK(a, p) /\ OwnProfile(a.profile, id)
  BY ConfiguredOK
<1>2. SlotOK(CloseDiscarding(a), p) /\ TakesId(CloseDiscarding(a), id)
  <2> HIDE DEF a
  <2> QED
    BY <1>1, CloseDiscardingOK DEF TakesId, OwnProfile, SameProfileId
<1> QED
  BY <1>2 DEF OpenSetupFails

LEMMA RecordStatusOK ==
    ASSUME NEW p, NEW status \in Statuses, NEW c, SlotOK(c, p)
    PROVE  LET d == RecordStatus(c, status) IN
           /\ SlotOK(d, p)
           /\ d.phase = c.phase /\ d.id = c.id
           /\ SameProfileId(d.profile, c.profile)
<1>1. CASE c.profile = None
  BY <1>1 DEF RecordStatus, SameProfileId
<1>2. CASE c.profile # None
  <2> DEFINE q == [c.profile EXCEPT !.status = status]
             d == [c EXCEPT !.profile = q]
  <2>1. RecordStatus(c, status) = d
    BY <1>2 DEF RecordStatus
  <2>2. c \in Control /\ c.profile \in Profile
    BY <1>2 DEF SlotOK, Control
  <2>3. q \in Profile /\ q # None /\ q.id = c.profile.id
    BY <2>2, NoneIsNull DEF Profile
  <2> HIDE DEF q
  <2>4. /\ d \in Control /\ d.profile = q
        /\ d.phase = c.phase /\ d.id = c.id /\ d.session = c.session
        /\ d.context = c.context /\ d.resume = c.resume /\ d.heap = c.heap
    BY <2>2, <2>3 DEF Control
  <2> HIDE DEF d
  <2>5. SlotOK(d, p)
    BY <1>2, <2>3, <2>4
       DEF SlotOK, SlotShape, SlotBalanced, SlotExact, IsLive
  <2> QED
    BY <1>2, <2>1, <2>3, <2>4, <2>5 DEF SameProfileId
<1> QED
  BY <1>1, <1>2

LEMMA AcquireOK ==
    ASSUME NEW p, NEW c, SlotOK(c, p)
    PROVE  SlotOK(Acquire(c), p) /\ (IsLive(Acquire(c)) <=> IsLive(c))
<1> DEFINE d == Acquire(c)
<1>1. /\ d \in Control /\ d.profile = c.profile
      /\ d.phase = c.phase /\ d.id = c.id /\ d.session = c.session
      /\ d.context = c.context /\ d.resume = c.resume /\ d.heap = c.heap
  BY DEF SlotOK, Control, Acquire
<1> HIDE DEF d
<1>2. SlotOK(d, p) /\ (IsLive(d) <=> IsLive(c))
  BY <1>1 DEF SlotOK, SlotShape, SlotBalanced, SlotExact, IsLive
<1> QED
  BY <1>2 DEF d

-----------------------------------------------------------------------------
(* All slots together.                                                      *)

LEMMA LiveMeansLoaded ==
    ASSUME NEW e, NEW c, SlotsOK(e, c), NEW s \in Slots, IsLive(c[s])
    PROVE  e.loaded
BY DEF SlotsOK, SlotOK, SlotShape, Blank

(* A call that keeps the identity of its slot, or gives it a free ID, keeps *)
(* the slots in order.                                                      *)
LEMMA UpdateOK ==
    ASSUME NEW e, NEW c, SlotsOK(e, c), e.loaded,
           NEW slot \in Slots, NEW d, SlotOK(d, e.protocol),
           NEW id,
           KeepsIds(d, c[slot]) \/ (TakesId(d, id) /\ id \notin Reserved(c))
    PROVE  SlotsOK(e, [c EXCEPT ![slot] = d])
<1> DEFINE n == [c EXCEPT ![slot] = d]
<1>1. c \in [Slots -> Control] /\ e \in Engine /\ IdsApart(c)
  BY DEF SlotsOK
<1>2. n[slot] = d /\ \A s \in Slots \ {slot} : n[s] = c[s]
  BY <1>1
<1>3. n \in [Slots -> Control]
  BY <1>1 DEF SlotOK
<1>4. \A s \in Slots : SlotOK(n[s], e.protocol)
  BY <1>2 DEF SlotsOK
<1> HIDE DEF n
<1>5. ASSUME NEW t \in Slots, t # slot
      PROVE  /\ IsLive(d) /\ IsLive(c[t]) => d.id # c[t].id
             /\ IsLive(d) /\ c[t].profile # None => d.id # c[t].profile.id
             /\ d.profile # None /\ IsLive(c[t]) => d.profile.id # c[t].id
             /\ d.profile # None /\ c[t].profile # None
                  => d.profile.id # c[t].profile.id
  <2>1. CASE KeepsIds(d, c[slot])
    BY <1>1, <1>5, <2>1 DEF KeepsIds, IdsApart
  <2>2. CASE TakesId(d, id) /\ id \notin Reserved(c)
    <3>1. id # c[t].id /\ (c[t].profile # None => id # c[t].profile.id)
      BY <2>2 DEF Reserved
    <3> QED
      BY <2>2, <3>1 DEF TakesId, OwnProfile
  <2> QED
    BY <2>1, <2>2
<1>6. IdsApart(n)
  <2> SUFFICES ASSUME NEW s \in Slots, NEW t \in Slots, s # t
               PROVE
        /\ IsLive(n[s]) /\ IsLive(n[t]) => n[s].id # n[t].id
        /\ IsLive(n[s]) /\ n[t].profile # None => n[s].id # n[t].profile.id
        /\ n[s].profile # None /\ n[t].profile # None
             => n[s].profile.id # n[t].profile.id
    BY DEF IdsApart
  <2>1. CASE s = slot
    BY <1>2, <1>5, <2>1
  <2>2. CASE t = slot
    BY <1>2, <1>5, <2>2
  <2>3. CASE s # slot /\ t # slot
    BY <1>1, <1>2, <2>3 DEF IdsApart
  <2> QED
    BY <2>1, <2>2, <2>3
<1> QED
  BY <1>1, <1>3, <1>4, <1>6 DEF SlotsOK, n

-----------------------------------------------------------------------------
(* Unloading and loading.                                                   *)

ZeroedSlots == [s \in Slots |-> ZeroedControl(0)]

LEMMA UnloadedSlots ==
    ASSUME NEW e, NEW c, SlotsOK(e, c)
    PROVE  UnloadedControls(e, c) = ZeroedSlots
<1>1. ASSUME NEW s \in Slots
      PROVE  (IF e.loaded THEN Shutdown(c[s]).heap ELSE c[s].heap) = 0
  <2>1. SlotOK(c[s], e.protocol)
    BY DEF SlotsOK
  <2>2. CASE e.loaded
    BY <2>1, <2>2, ShutdownReleases
  <2>3. CASE ~e.loaded
    <3>1. Blank(c[s])
      BY <2>3 DEF SlotsOK
    <3> QED
      BY <2>1, <2>3, <3>1 DEF SlotOK, SlotBalanced, Blank, Objects
  <2> QED
    BY <2>2, <2>3
<1> QED
  BY <1>1 DEF UnloadedControls, ZeroedSlots

(* Slots that hold nothing are in order under any engine.                   *)
LEMMA EmptySlotsOK ==
    ASSUME NEW e \in Engine, NEW c \in [Slots -> Control],
           \A s \in Slots : SlotOK(c[s], e.protocol) /\ Blank(c[s])
    PROVE  SlotsOK(e, c)
BY DEF SlotsOK, IdsApart, SlotOK, SlotShape, Blank

LEMMA NoEngineType == NoEngine \in Engine /\ ~NoEngine.loaded
BY DEF NoEngine, Engine, Protocols, ArmStatuses

LEMMA ZeroedSlotsOK ==
    ASSUME NEW e \in Engine
    PROVE  /\ ZeroedSlots \in [Slots -> Control]
           /\ \A s \in Slots : SlotOK(ZeroedSlots[s], e.protocol)
           /\ \A s \in Slots : Blank(ZeroedSlots[s]) /\ ~IsLive(ZeroedSlots[s])
           /\ SlotsOK(e, ZeroedSlots)
<1>1. e.protocol \in Protocols
  BY DEF Engine
<1>2. /\ SlotOK(ZeroedControl(0), e.protocol)
      /\ Blank(ZeroedControl(0)) /\ ~IsLive(ZeroedControl(0))
  BY SizeAssumption, <1>1
     DEF ZeroedControl, SlotOK, Control, SlotShape, IsLive, SlotBalanced,
         Objects, SlotExact, Blank
<1>3. /\ ZeroedSlots \in [Slots -> Control]
      /\ \A s \in Slots : ZeroedSlots[s] = ZeroedControl(0)
  BY <1>2 DEF ZeroedSlots, SlotOK
<1> QED
  BY <1>2, <1>3, EmptySlotsOK

(* A load or an unload leaves no slot that anyone could still refer to.     *)
Cleared(c) ==
    \A s \in Slots : Blank(c[s]) /\ c[s].id = 0 /\ ~IsLive(c[s])

LEMMA ZeroedSlotsCleared ==
    /\ Cleared(ZeroedSlots)
    /\ ZeroedControls(ZeroedSlots) = ZeroedSlots
<1>1. \A s \in Slots : ZeroedSlots[s] = ZeroedControl(0)
  BY DEF ZeroedSlots
<1>2. /\ ZeroedControl(0).id = 0 /\ ~IsLive(ZeroedControl(0))
      /\ Blank(ZeroedControl(0)) /\ ZeroedControl(0).heap = 0
  BY DEF ZeroedControl, IsLive, Blank
<1>3. ZeroedControls(ZeroedSlots) = ZeroedSlots
  <2>1. ZeroedControls(ZeroedSlots)
          = [s \in Slots |-> ZeroedControl(ZeroedSlots[s].heap)]
    BY DEF ZeroedControls
  <2>2. \A s \in Slots : ZeroedControl(ZeroedSlots[s].heap) = ZeroedControl(0)
    BY <1>1, <1>2
  <2> QED
    BY <2>1, <2>2 DEF ZeroedSlots
<1> QED
  BY <1>1, <1>2, <1>3 DEF Cleared

LEMMA FirstSlot == 0 \in Slots
BY SizeAssumption DEF Slots

(* The slots of an engine that has just been loaded: AcquireSessionControl  *)
(* has marked the first one.                                                *)
LEMMA MarkedSlotsOK ==
    ASSUME NEW e \in Engine
    PROVE  LET c == [ZeroedSlots EXCEPT ![0].initialized = TRUE] IN
           SlotsOK(e, c) /\ Cleared(c)
<1> DEFINE c == [ZeroedSlots EXCEPT ![0].initialized = TRUE]
           d == Acquire(ZeroedControl(0))
<1>1. /\ ZeroedSlots \in [Slots -> Control]
      /\ SlotOK(ZeroedControl(0), e.protocol)
  BY ZeroedSlotsOK, FirstSlot DEF ZeroedSlots
<1>2. \A s \in Slots : ZeroedSlots[s] = ZeroedControl(0)
  BY DEF ZeroedSlots
<1>3. SlotOK(d, e.protocol) /\ d.id = 0 /\ ~IsLive(d) /\ Blank(d)
  <2>1. d.id = 0 /\ ~IsLive(d) /\ Blank(d)
    BY DEF Acquire, ZeroedControl, IsLive, Blank
  <2> QED
    BY <1>1, <2>1, AcquireOK
<1>4. c = [ZeroedSlots EXCEPT ![0] = d]
  BY <1>2, FirstSlot DEF Acquire, ZeroedSlots
<1> HIDE DEF d
<1>5. \A s \in Slots : c[s] = d \/ c[s] = ZeroedControl(0)
  BY <1>1, <1>2, <1>4
<1>6. c \in [Slots -> Control]
  BY <1>1, <1>3, <1>4 DEF SlotOK
<1> HIDE DEF c
<1>7. /\ ZeroedControl(0).id = 0 /\ ~IsLive(ZeroedControl(0))
      /\ Blank(ZeroedControl(0))
  BY DEF ZeroedControl, IsLive, Blank
<1>8. Cleared(c)
  BY <1>3, <1>5, <1>7 DEF Cleared
<1>9. \A s \in Slots : SlotOK(c[s], e.protocol) /\ Blank(c[s])
  BY <1>1, <1>3, <1>5, <1>7
<1> QED
  BY <1>6, <1>8, <1>9, EmptySlotsOK DEF c

LEMMA LoadEngineOK ==
    ASSUME NEW protocol \in Protocols, NEW arm \in ArmStatuses,
           NEW load \in ArmStatuses \cup Statuses
    PROVE  LET prep == LoadEngine(ZeroedSlots, protocol, arm, load) IN
           /\ SlotsOK(prep.engine, prep.control) /\ Cleared(prep.control)
           /\ prep.status \in Statuses
           /\ prep.ready => prep.engine.loaded
<1> DEFINE e == LoadedEngine(protocol, arm, load)
           prep == LoadEngine(ZeroedSlots, protocol, arm, load)
           c == [ZeroedSlots EXCEPT ![0].initialized = TRUE]
<1>1. CASE load \in ArmStatuses
  <2>1. prep = [ready |-> TRUE, status |-> "Ok", engine |-> e, control |-> c]
    BY <1>1, ZeroedSlotsCleared DEF LoadEngine
  <2>2. e \in Engine /\ e.loaded
    BY <1>1 DEF LoadedEngine, Engine, ArmStatuses
  <2>3. SlotsOK(e, c) /\ Cleared(c)
    BY <2>2, MarkedSlotsOK
  <2> HIDE DEF e, c
  <2> QED
    BY <2>1, <2>2, <2>3 DEF Statuses
<1>2. CASE load \notin ArmStatuses
  <2>1. prep = [ready |-> FALSE, status |-> load,
                engine |-> NoEngine, control |-> ZeroedSlots]
    BY <1>2, ZeroedSlotsCleared DEF LoadEngine
  <2> QED
    BY <1>2, <2>1, NoEngineType, ZeroedSlotsOK, ZeroedSlotsCleared
<1> QED
  BY <1>1, <1>2

(* The head of PalmTlsExecute keeps everything or clears everything.        *)
LEMMA PrepareOK ==
    ASSUME NEW e, NEW c, SlotsOK(e, c),
           NEW protocol \in Protocols, NEW arm \in ArmStatuses, NEW load,
           load \in ArmStatuses \cup Statuses
             \/ (e.loaded /\ e.protocol = protocol)
    PROVE  LET prep == Prepare(e, c, protocol, arm, load) IN
           /\ SlotsOK(prep.engine, prep.control)
           /\ prep.status \in Statuses
           /\ prep.ready => prep.engine.loaded
           /\ \/ prep.engine = e /\ prep.control = c
              \/ Cleared(prep.control)
<1> DEFINE prep == Prepare(e, c, protocol, arm, load)
<1>1. CASE e.loaded /\ e.protocol = protocol
  BY <1>1 DEF Prepare, Statuses
<1>2. CASE ~(e.loaded /\ e.protocol = protocol) /\ e.loaded /\ AnyLive(c)
  BY <1>2 DEF Prepare, Statuses
<1>3. CASE ~(e.loaded /\ e.protocol = protocol) /\ ~(e.loaded /\ AnyLive(c))
  <2>1. prep = LoadEngine(ZeroedSlots, protocol, arm, load)
    BY <1>3, UnloadedSlots DEF Prepare
  <2>2. load \in ArmStatuses \cup Statuses
    BY <1>3
  <2> QED
    BY <2>1, <2>2, LoadEngineOK
<1> QED
  BY <1>1, <1>2, <1>3

-----------------------------------------------------------------------------
(* The traps.                                                               *)

LEMMA LoadsType ==
    ASSUME NEW protocol, NEW load \in Loads(protocol)
    PROVE  load \in ArmStatuses \cup Statuses
             \/ (engine.loaded /\ engine.protocol = protocol)
BY DEF Loads, LoadFaults, Verdicts, ArmStatuses, Statuses

LEMMA ReplyType ==
    ASSUME NEW op \in Operations, NEW id \in 0..MaxSessionId,
           NEW status \in Statuses, Return(op, id, status)
    PROVE  reply' \in Reply
BY DEF Return, Reply

LEMMA ZeroId == 0 \in 0..MaxSessionId
BY SizeAssumption

(* An ID that is free before the trap loads its engine is free after.       *)
LEMMA StillFree ==
    ASSUME NEW c, NEW id \in SessionIds,
           \/ c = control /\ id \notin Reserved(control)
           \/ Cleared(c)
    PROVE  id \notin Reserved(c)
BY DEF Cleared, Reserved, Blank, SessionIds

LEMMA InitConsistent == Init => Consistent
<1> SUFFICES ASSUME Init PROVE Consistent
  OBVIOUS
<1>1. engine = NoEngine /\ control = ZeroedSlots
  BY DEF Init, ZeroedSlots
<1>2. SlotsOK(engine, control)
  BY <1>1, NoEngineType, ZeroedSlotsOK
<1>3. /\ openCount \in 0..MaxOpens /\ nextSessionId \in 0..MaxSessionId
      /\ armStatus \in ArmStatuses
  BY SizeAssumption DEF Init, ArmStatuses
<1>4. reply \in Reply
  BY ZeroId DEF Init, Reply, Operations, Statuses
<1> QED
  BY <1>2, <1>3, <1>4 DEF Consistent

(* Traps that end before they touch a slot leave what Prepare left.         *)
LEMMA SharingConsistent ==
    ASSUME Consistent, LibOpen \/ LibCloseShared
    PROVE  Consistent'
<1>1. openCount' \in 0..MaxOpens
  BY SizeAssumption DEF Consistent, LibOpen, LibCloseShared
<1>2. /\ nextSessionId' \in 0..MaxSessionId /\ armStatus' \in ArmStatuses
      /\ engine' = engine /\ control' = control
  BY DEF Consistent, LibOpen, LibCloseShared
<1>3. reply' \in Reply
  BY ZeroId, ReplyType DEF LibOpen, LibCloseShared, Operations, Statuses
<1>4. SlotsOK(engine', control')
  BY <1>2 DEF Consistent
<1> QED
  BY <1>1, <1>2, <1>3, <1>4 DEF Consistent

LEMMA UnloadingConsistent ==
    ASSUME Consistent, LibCloseLast \/ PurgeCache
    PROVE  Consistent'
<1>1. openCount' \in 0..MaxOpens /\ nextSessionId' \in 0..MaxSessionId
  BY SizeAssumption DEF Consistent, LibCloseLast, PurgeCache
<1>2. armStatus' \in ArmStatuses
  BY DEF Consistent, LibCloseLast, PurgeCache, ArmStatuses
<1>3. reply' \in Reply
  BY ZeroId, ReplyType DEF LibCloseLast, PurgeCache, Operations, Statuses
<1>4. engine' = NoEngine /\ control' = ZeroedSlots
  BY UnloadedSlots DEF Consistent, LibCloseLast, PurgeCache
<1>5. SlotsOK(engine', control')
  BY <1>4, NoEngineType, ZeroedSlotsOK
<1> QED
  BY <1>1, <1>2, <1>3, <1>5 DEF Consistent

LEMMA FirstOfFree ==
    ASSUME NEW c, FreeSlots(c) # {}
    PROVE  /\ FirstOf(FreeSlots(c)) \in Slots /\ ~IsLive(c[FirstOf(FreeSlots(c))])
           /\ \A t \in FreeSlots(c) : FirstOf(FreeSlots(c)) <= t
<1>1. FreeSlots(c) \subseteq Nat
  BY SizeAssumption DEF FreeSlots, Slots
<1>2. \E x \in FreeSlots(c) : \A y \in FreeSlots(c) : x <= y
  BY <1>1, LeastNatural
<1>3. /\ FirstOf(FreeSlots(c)) \in FreeSlots(c)
      /\ \A t \in FreeSlots(c) : FirstOf(FreeSlots(c)) <= t
  BY <1>2 DEF FirstOf
<1> QED
  BY <1>3 DEF FreeSlots

(* A slot that took a free ID, with the status of the call in its profile.  *)
LEMMA TakenOK ==
    ASSUME NEW e, NEW c, SlotsOK(e, c), e.loaded,
           NEW slot \in Slots, NEW id, id \notin Reserved(c),
           NEW d, SlotOK(d, e.protocol), TakesId(d, id),
           NEW status \in Statuses
    PROVE  /\ SlotsOK(e, [c EXCEPT ![slot] = d])
           /\ SlotsOK(e, [c EXCEPT ![slot] = RecordStatus(d, status)])
<1> DEFINE n == RecordStatus(d, status)
<1>1. /\ SlotOK(n, e.protocol) /\ n.phase = d.phase /\ n.id = d.id
      /\ SameProfileId(n.profile, d.profile)
  BY RecordStatusOK
<1> HIDE DEF n
<1>2. TakesId(n, id)
  BY <1>1 DEF TakesId, IsLive, OwnProfile, SameProfileId
<1>3. SlotsOK(e, [c EXCEPT ![slot] = d])
  BY UpdateOK
<1>4. SlotsOK(e, [c EXCEPT ![slot] = n])
  BY <1>1, <1>2, UpdateOK
<1> QED
  BY <1>3, <1>4 DEF n

(* A call on a live session that leaves its slot in order.                  *)
LEMMA SlotRanOK ==
    ASSUME NEW c, NEW e, SlotsOK(e, c),
           NEW slot \in Slots, IsLive(c[slot]),
           NEW d, SlotOK(d, e.protocol), KeepsIds(d, c[slot]),
           NEW status \in Statuses
    PROVE  SlotsOK(e, [c EXCEPT ![slot] = RecordStatus(d, status)])
<1> DEFINE n == RecordStatus(d, status)
<1>1. /\ SlotOK(n, e.protocol) /\ n.phase = d.phase /\ n.id = d.id
      /\ SameProfileId(n.profile, d.profile)
  BY RecordStatusOK
<1>2. e.loaded
  BY LiveMeansLoaded
<1> HIDE DEF n
<1>3. KeepsIds(n, c[slot])
  BY <1>1 DEF KeepsIds, IsLive, SameProfileId
<1>4. SlotsOK(e, [c EXCEPT ![slot] = n])
  BY <1>1, <1>2, <1>3, UpdateOK
<1> QED
  BY <1>4 DEF n

-----------------------------------------------------------------------------
(* Opening and exchanging.                                                  *)

(* What the traps know of the engine and the slots Prepare left.            *)
Prepared(prep) ==
    /\ SlotsOK(prep.engine, prep.control)
    /\ prep.status \in Statuses
    /\ prep.ready => prep.engine.loaded

LEMMA OpenRejectedOK ==
    ASSUME NEW prep, Prepared(prep), NEW op \in Operations,
           OpenRejected(op, prep)
    PROVE  SlotsOK(prep.engine, control') /\ reply' \in Reply
<1>1. (IF prep.ready THEN "Busy" ELSE prep.status) \in Statuses
  BY DEF Prepared, Statuses
<1> QED
  BY <1>1, ZeroId, ReplyType DEF OpenRejected, Prepared

LEMMA ChosenSlot ==
    ASSUME NEW prep, Prepared(prep), prep.ready, FreeSlots(prep.control) # {}
    PROVE  LET slot == FirstOf(FreeSlots(prep.control))
               c    == Acquire(prep.control[slot]) IN
           /\ slot \in Slots
           /\ prep.engine.loaded /\ prep.engine.protocol \in Protocols
           /\ SlotOK(c, prep.engine.protocol) /\ ~IsLive(c)
<1> DEFINE slot == FirstOf(FreeSlots(prep.control))
<1>1. slot \in Slots /\ ~IsLive(prep.control[slot])
  BY FirstOfFree
<1> HIDE DEF slot
<1>2. SlotOK(prep.control[slot], prep.engine.protocol)
  BY <1>1 DEF Prepared, SlotsOK
<1>3. prep.engine.loaded /\ prep.engine.protocol \in Protocols
  BY DEF Prepared, SlotsOK, Engine
<1>4. /\ SlotOK(Acquire(prep.control[slot]), prep.engine.protocol)
      /\ ~IsLive(Acquire(prep.control[slot]))
  BY <1>1, <1>2, AcquireOK
<1> QED
  BY <1>1, <1>3, <1>4 DEF slot

LEMMA OpenSetupFailedOK ==
    ASSUME NEW prep, Prepared(prep), NEW op \in Operations,
           NEW r \in Requests, NEW options,
           NEW id \in SessionIds, id \notin Reserved(prep.control),
           OpenSetupFailed(op, prep, r, options, id)
    PROVE  SlotsOK(prep.engine, control') /\ reply' \in Reply
<1> DEFINE slot == FirstOf(FreeSlots(prep.control))
           p == prep.engine.protocol
           c == Acquire(prep.control[slot])
           d == OpenSetupFails(c, r, options, p, id)
<1>1. prep.ready /\ FreeSlots(prep.control) # {}
  BY DEF OpenSetupFailed
<1>2. /\ slot \in Slots /\ prep.engine.loaded /\ p \in Protocols
      /\ SlotOK(c, p) /\ ~IsLive(c)
  BY <1>1, ChosenSlot
<1>3. r \in Request
  BY InputAssumption
<1>4. SlotOK(d, p) /\ TakesId(d, id)
  <2> HIDE DEF c, p
  <2> QED
    BY <1>2, <1>3, OpenSetupFailsOK
<1>5. PICK status \in SetupFaults :
        /\ control' = [prep.control EXCEPT ![slot] = RecordStatus(d, status)]
        /\ Return(op, 0, status)
  BY DEF OpenSetupFailed
<1>6. status \in Statuses
  BY DEF SetupFaults, Statuses
<1> HIDE DEF slot, d
<1>7. SlotsOK(prep.engine, control')
  BY <1>2, <1>4, <1>5, <1>6, TakenOK DEF Prepared
<1> QED
  BY <1>5, <1>6, <1>7, ZeroId, ReplyType

LEMMA SessionStartedOK ==
    ASSUME NEW prep, Prepared(prep), NEW r \in Requests, NEW options,
           NEW id \in SessionIds, id \notin Reserved(prep.control),
           SessionStarted(prep, r, options, id)
    PROVE  SlotsOK(prep.engine, control') /\ reply' \in Reply
<1> DEFINE slot == FirstOf(FreeSlots(prep.control))
           p == prep.engine.protocol
           c == Acquire(prep.control[slot])
<1>1. prep.ready /\ FreeSlots(prep.control) # {}
  BY DEF SessionStarted
<1>2. /\ slot \in Slots /\ prep.engine.loaded /\ p \in Protocols
      /\ SlotOK(c, p) /\ ~IsLive(c)
  BY <1>1, ChosenSlot
<1>3. r \in Request
  BY InputAssumption
<1>4. PICK accepted \in BOOLEAN, handshake \in RunnableHandshakes :
        LET ran == OpenSession(c, r, options, p, id, accepted, handshake) IN
        /\ control' = [prep.control EXCEPT
             ![slot] = RecordStatus(ran.control, ran.status)]
        /\ Return("Open", id, ran.status)
  BY DEF SessionStarted
<1> DEFINE ran == OpenSession(c, r, options, p, id, accepted, handshake)
<1>5. /\ SlotOK(ran.control, p) /\ TakesId(ran.control, id)
      /\ ran.status \in Statuses
  <2> HIDE DEF c, p
  <2> QED
    BY <1>2, <1>3, OpenSessionOK
<1>6. /\ control' = [prep.control EXCEPT
           ![slot] = RecordStatus(ran.control, ran.status)]
      /\ Return("Open", id, ran.status)
  BY <1>4
<1> HIDE DEF slot, ran
<1>7. SlotsOK(prep.engine, control')
  BY <1>2, <1>5, <1>6, TakenOK DEF Prepared
<1>8. id \in 0..MaxSessionId /\ "Open" \in Operations
  BY DEF SessionIds, Operations
<1> QED
  BY <1>5, <1>6, <1>7, <1>8, ReplyType

LEMMA ExchangedOK ==
    ASSUME NEW prep, Prepared(prep), NEW r \in Requests,
           NEW id \in SessionIds, id \notin Reserved(prep.control),
           Exchanged(prep, r, id)
    PROVE  SlotsOK(prep.engine, control') /\ reply' \in Reply
<1> DEFINE slot == FirstOf(FreeSlots(prep.control))
           p == prep.engine.protocol
           c == Acquire(prep.control[slot])
<1>1. prep.ready /\ FreeSlots(prep.control) # {}
  BY DEF Exchanged
<1>2. /\ slot \in Slots /\ prep.engine.loaded /\ p \in Protocols
      /\ SlotOK(c, p) /\ ~IsLive(c)
  BY <1>1, ChosenSlot
<1>3. r \in Request
  BY InputAssumption
<1>4. PICK accepted \in BOOLEAN, kept \in BOOLEAN,
           handshake \in RunnableHandshakes, transfer \in TransferResults :
        LET ran  == OpenSession(c, r, ExchangeOptions, p, id, accepted,
                                handshake)
            shut == CloseSaving(ran.control, p, kept)
        IN  IF ran.status # "Ok"
            THEN /\ control' = [prep.control EXCEPT ![slot] = ran.control]
                 /\ Return("Exchange", 0, ran.status)
            ELSE /\ control' = [prep.control EXCEPT ![slot] = shut]
                 /\ Return("Exchange", 0, transfer)
  BY DEF Exchanged
<1> DEFINE ran == OpenSession(c, r, ExchangeOptions, p, id, accepted, handshake)
           shut == CloseSaving(ran.control, p, kept)
<1>5. /\ SlotOK(ran.control, p) /\ TakesId(ran.control, id)
      /\ ran.status \in Statuses
  <2> HIDE DEF c, p
  <2> QED
    BY <1>2, <1>3, OpenSessionOK
<1>6. transfer \in Statuses /\ "Ok" \in Statuses
  BY DEF TransferResults, Statuses
<1>7. \/ /\ control' = [prep.control EXCEPT ![slot] = ran.control]
         /\ Return("Exchange", 0, ran.status)
      \/ /\ control' = [prep.control EXCEPT ![slot] = shut]
         /\ Return("Exchange", 0, transfer)
  BY <1>4
<1>8. SlotOK(shut, p) /\ TakesId(shut, id)
  <2> HIDE DEF ran
  <2> QED
    BY <1>2, <1>5, CloseSavingOK DEF TakesId, OwnProfile, SameProfileId
<1> HIDE DEF slot, ran, shut
<1>9. SlotsOK(prep.engine, control')
  <2>1. SlotsOK(prep.engine, [prep.control EXCEPT ![slot] = ran.control])
    BY <1>2, <1>5, <1>6, TakenOK DEF Prepared
  <2>2. SlotsOK(prep.engine, [prep.control EXCEPT ![slot] = shut])
    BY <1>2, <1>6, <1>8, TakenOK DEF Prepared
  <2> QED
    BY <1>7, <2>1, <2>2
<1>10. "Exchange" \in Operations
  BY DEF Operations
<1>11. \E status \in Statuses : Return("Exchange", 0, status)
  BY <1>5, <1>6, <1>7
<1>12. reply' \in Reply
  BY <1>10, <1>11, ZeroId, ReplyType
<1> QED
  BY <1>9, <1>12

(* The engine and the slots an open starts from, and the ID it gets.        *)
LEMMA OpeningPrepared ==
    ASSUME Consistent, NEW protocol \in Installed,
           NEW load \in Loads(protocol), NEW id,
           id = NextSessionId(nextSessionId, control)
    PROVE  LET prep == Prepare(engine, control, protocol, armStatus, load) IN
           /\ Prepared(prep)
           /\ id \in SessionIds /\ id \notin Reserved(prep.control)
<1> DEFINE prep == Prepare(engine, control, protocol, armStatus, load)
<1>1. protocol \in Protocols
  BY InputAssumption
<1>2. /\ Prepared(prep)
      /\ prep.control = control \/ Cleared(prep.control)
  BY <1>1, LoadsType, PrepareOK DEF Consistent, Prepared
<1>3. id \in SessionIds \ Reserved(control)
  BY NextSessionIdFree DEF Consistent
<1> HIDE DEF prep
<1>4. id \notin Reserved(prep.control)
  BY <1>2, <1>3, StillFree
<1> QED
  BY <1>2, <1>3, <1>4 DEF prep

LEMMA SessionOpenConsistent ==
    ASSUME Consistent, SessionOpen
    PROVE  Consistent'
<1>1. PICK protocol \in Installed, r \in Requests, options \in OptionSets :
      \E load \in Loads(protocol) :
        LET prep == Prepare(engine, control, protocol, armStatus, load) IN
        /\ engine' = prep.engine
        /\ \/ OpenRejected("Open", prep)
           \/ OpenSetupFailed("Open", prep, r, options, nextSessionId')
           \/ SessionStarted(prep, r, options, nextSessionId')
  BY DEF SessionOpen, SessionOpenOn
<1>2. PICK load \in Loads(protocol) :
        LET prep == Prepare(engine, control, protocol, armStatus, load) IN
        /\ engine' = prep.engine
        /\ \/ OpenRejected("Open", prep)
           \/ OpenSetupFailed("Open", prep, r, options, nextSessionId')
           \/ SessionStarted(prep, r, options, nextSessionId')
  BY <1>1
<1> DEFINE prep == Prepare(engine, control, protocol, armStatus, load)
           id == nextSessionId'
<1>3. id = NextSessionId(nextSessionId, control)
  BY DEF SessionOpen
<1>4. Prepared(prep) /\ id \in SessionIds /\ id \notin Reserved(prep.control)
  BY <1>3, OpeningPrepared
<1>5. /\ engine' = prep.engine
      /\ \/ OpenRejected("Open", prep)
         \/ OpenSetupFailed("Open", prep, r, options, id)
         \/ SessionStarted(prep, r, options, id)
  BY <1>2
<1>6. "Open" \in Operations
  BY DEF Operations
<1> HIDE DEF prep
<1>7. SlotsOK(engine', control') /\ reply' \in Reply
  BY <1>4, <1>5, <1>6, OpenRejectedOK, OpenSetupFailedOK, SessionStartedOK
<1>8. openCount' \in 0..MaxOpens /\ armStatus' \in ArmStatuses
  BY DEF SessionOpen, Consistent
<1>9. nextSessionId' \in 0..MaxSessionId
  BY <1>4 DEF SessionIds
<1> QED
  BY <1>7, <1>8, <1>9 DEF Consistent

LEMMA ExchangeConsistent ==
    ASSUME Consistent, Exchange
    PROVE  Consistent'
<1>1. PICK protocol \in Installed, r \in Requests :
      \E load \in Loads(protocol) :
        LET prep == Prepare(engine, control, protocol, armStatus, load) IN
        /\ engine' = prep.engine
        /\ \/ OpenRejected("Exchange", prep)
           \/ OpenSetupFailed("Exchange", prep, r, ExchangeOptions,
                              nextSessionId')
           \/ Exchanged(prep, r, nextSessionId')
  BY DEF Exchange, ExchangeOn
<1>2. PICK load \in Loads(protocol) :
        LET prep == Prepare(engine, control, protocol, armStatus, load) IN
        /\ engine' = prep.engine
        /\ \/ OpenRejected("Exchange", prep)
           \/ OpenSetupFailed("Exchange", prep, r, ExchangeOptions,
                              nextSessionId')
           \/ Exchanged(prep, r, nextSessionId')
  BY <1>1
<1> DEFINE prep == Prepare(engine, control, protocol, armStatus, load)
           id == nextSessionId'
<1>3. id = NextSessionId(nextSessionId, control)
  BY DEF Exchange
<1>4. Prepared(prep) /\ id \in SessionIds /\ id \notin Reserved(prep.control)
  BY <1>3, OpeningPrepared
<1>5. /\ engine' = prep.engine
      /\ \/ OpenRejected("Exchange", prep)
         \/ OpenSetupFailed("Exchange", prep, r, ExchangeOptions, id)
         \/ Exchanged(prep, r, id)
  BY <1>2
<1>6. "Exchange" \in Operations
  BY DEF Operations
<1> HIDE DEF prep
<1>7. SlotsOK(engine', control') /\ reply' \in Reply
  BY <1>4, <1>5, <1>6, OpenRejectedOK, OpenSetupFailedOK, ExchangedOK
<1>8. openCount' \in 0..MaxOpens /\ armStatus' \in ArmStatuses
  BY DEF Exchange, Consistent
<1>9. nextSessionId' \in 0..MaxSessionId
  BY <1>4 DEF SessionIds
<1> QED
  BY <1>7, <1>8, <1>9 DEF Consistent

-----------------------------------------------------------------------------
(* Calls on a session ID.                                                   *)

(* A slot still holds an ID after Prepare only if Prepare changed nothing.  *)
LEMMA CallPrepared ==
    ASSUME Consistent, NEW load \in Loads(engine.protocol)
    PROVE  LET prep == Prepare(engine, control, engine.protocol, armStatus,
                               load) IN
           /\ Prepared(prep)
           /\ \A id : Holder(prep.control, id) # {} =>
                prep.engine = engine /\ prep.control = control
<1> DEFINE prep == Prepare(engine, control, engine.protocol, armStatus, load)
<1>1. engine.protocol \in Protocols
  BY DEF Consistent, SlotsOK, Engine
<1>2. /\ Prepared(prep)
      /\ \/ prep.engine = engine /\ prep.control = control
         \/ Cleared(prep.control)
  BY <1>1, LoadsType, PrepareOK DEF Consistent, Prepared
<1> HIDE DEF prep
<1>3. \A id : Holder(prep.control, id) # {} => ~Cleared(prep.control)
  BY DEF Holder, Cleared
<1> QED
  BY <1>2, <1>3 DEF prep

LEMMA NoSuchSessionOK ==
    ASSUME NEW prep, Prepared(prep), NEW op \in Operations,
           NEW id \in SessionIds, NoSuchSession(op, id, prep)
    PROVE  SlotsOK(prep.engine, control') /\ reply' \in Reply
BY ReplyType DEF NoSuchSession, Prepared, SessionIds

(* The slot a call finds, and what running the call on it comes to.         *)
LEMMA FoundSlot ==
    ASSUME Consistent, NEW id \in SessionIds,
           NEW slot \in Holder(control, id)
    PROVE  /\ slot \in Slots /\ IsLive(control[slot])
           /\ engine.loaded /\ engine.protocol \in Protocols
           /\ SlotOK(control[slot], engine.protocol)
           /\ KeepsIds(control[slot], control[slot])
BY LiveMeansLoaded DEF Holder, Consistent, SlotsOK, Engine, KeepsIds

LEMMA CallRan ==
    ASSUME Consistent, NEW op \in Operations, NEW id \in SessionIds,
           NEW slot \in Holder(control, id), NEW d,
           SlotOK(d, engine.protocol), KeepsIds(d, control[slot]),
           NEW status \in Statuses, SlotRan(op, id, slot, d, status)
    PROVE  SlotsOK(engine, control') /\ reply' \in Reply
<1>1. SlotsOK(engine, control')
  BY FoundSlot, SlotRanOK DEF SlotRan, Consistent
<1>2. reply' \in Reply
  BY ReplyType DEF SlotRan, SessionIds
<1> QED
  BY <1>1, <1>2

LEMMA SessionHandshakeConsistent ==
    ASSUME Consistent, NEW id \in SessionIds, SessionHandshake(id)
    PROVE  Consistent'
<1>1. PICK load \in Loads(engine.protocol) :
        LET prep == Prepare(engine, control, engine.protocol, armStatus, load)
        IN  /\ engine' = prep.engine
            /\ \/ NoSuchSession("Handshake", id, prep)
               \/ \E slot \in Holder(prep.control, id),
                     handshake \in RunnableHandshakes :
                    LET c   == prep.control[slot]
                        ran == ContinueHandshake(c, TRUE, handshake)
                    IN  IF c.phase = "opening"
                        THEN SlotRan("Handshake", id, slot, ran.control,
                                     ran.status)
                        ELSE SlotRan("Handshake", id, slot, c, "BadParameter")
  BY DEF SessionHandshake
<1> DEFINE prep == Prepare(engine, control, engine.protocol, armStatus, load)
<1>2. /\ Prepared(prep)
      /\ Holder(prep.control, id) # {} =>
           prep.engine = engine /\ prep.control = control
  BY CallPrepared
<1>3. engine' = prep.engine
  BY <1>1
<1>4. "Handshake" \in Operations /\ "BadParameter" \in Statuses
  BY DEF Operations, Statuses
<1>5. SlotsOK(engine', control') /\ reply' \in Reply
  <2>1. CASE NoSuchSession("Handshake", id, prep)
    <3> HIDE DEF prep
    <3> QED
      BY <1>2, <1>3, <1>4, <2>1, NoSuchSessionOK
  <2>2. CASE \E slot \in Holder(prep.control, id),
                handshake \in RunnableHandshakes :
               LET c   == prep.control[slot]
                   ran == ContinueHandshake(c, TRUE, handshake)
               IN  IF c.phase = "opening"
                   THEN SlotRan("Handshake", id, slot, ran.control, ran.status)
                   ELSE SlotRan("Handshake", id, slot, c, "BadParameter")
    <3> HIDE DEF prep
    <3>1. prep.engine = engine /\ prep.control = control
      BY <1>2, <2>2
    <3>2. PICK slot \in Holder(control, id), handshake \in RunnableHandshakes :
            LET c   == control[slot]
                ran == ContinueHandshake(c, TRUE, handshake)
            IN  IF c.phase = "opening"
                THEN SlotRan("Handshake", id, slot, ran.control, ran.status)
                ELSE SlotRan("Handshake", id, slot, c, "BadParameter")
      BY <2>2, <3>1
    <3> DEFINE ran == ContinueHandshake(control[slot], TRUE, handshake)
    <3>3. /\ SlotOK(control[slot], engine.protocol)
          /\ KeepsIds(control[slot], control[slot])
          /\ IsLive(control[slot])
      BY FoundSlot
    <3>4. /\ SlotOK(ran.control, engine.protocol)
          /\ KeepsIds(ran.control, control[slot])
          /\ ran.status \in Statuses
      BY <3>3, ContinueHandshakeOK
    <3>5. \/ SlotRan("Handshake", id, slot, ran.control, ran.status)
          \/ SlotRan("Handshake", id, slot, control[slot], "BadParameter")
      BY <3>2
    <3> HIDE DEF ran
    <3> QED
      BY <1>3, <1>4, <3>1, <3>3, <3>4, <3>5, CallRan
  <2> QED
    BY <1>1, <2>1, <2>2
<1> HIDE DEF prep
<1> QED
  BY <1>5 DEF SessionHandshake, Consistent

LEMMA SessionIoConsistent ==
    ASSUME Consistent, NEW id \in SessionIds, NEW op \in {"Write", "Read"},
           SessionIo(op, id)
    PROVE  Consistent'
<1>1. PICK load \in Loads(engine.protocol) :
        LET prep == Prepare(engine, control, engine.protocol, armStatus, load)
        IN  /\ engine' = prep.engine
            /\ \/ NoSuchSession(op, id, prep)
               \/ \E slot \in Holder(prep.control, id),
                     status \in IoResults(op) :
                    IF prep.control[slot].phase = "active"
                    THEN SlotRan(op, id, slot, prep.control[slot], status)
                    ELSE SlotRan(op, id, slot, prep.control[slot],
                                 "BadParameter")
  BY DEF SessionIo
<1> DEFINE prep == Prepare(engine, control, engine.protocol, armStatus, load)
<1>2. /\ Prepared(prep)
      /\ Holder(prep.control, id) # {} =>
           prep.engine = engine /\ prep.control = control
  BY CallPrepared
<1>3. engine' = prep.engine
  BY <1>1
<1>4. op \in Operations /\ IoResults(op) \cup {"BadParameter"} \subseteq Statuses
  BY DEF Operations, Statuses, IoResults
<1>5. SlotsOK(engine', control') /\ reply' \in Reply
  <2>1. CASE NoSuchSession(op, id, prep)
    <3> HIDE DEF prep
    <3> QED
      BY <1>2, <1>3, <1>4, <2>1, NoSuchSessionOK
  <2>2. CASE \E slot \in Holder(prep.control, id), status \in IoResults(op) :
               IF prep.control[slot].phase = "active"
               THEN SlotRan(op, id, slot, prep.control[slot], status)
               ELSE SlotRan(op, id, slot, prep.control[slot], "BadParameter")
    <3> HIDE DEF prep
    <3>1. prep.engine = engine /\ prep.control = control
      BY <1>2, <2>2
    <3>2. PICK slot \in Holder(control, id), status \in Statuses :
            SlotRan(op, id, slot, control[slot], status)
      BY <1>4, <2>2, <3>1
    <3> QED
      BY <1>3, <1>4, <3>1, <3>2, FoundSlot, CallRan
  <2> QED
    BY <1>1, <2>1, <2>2
<1> HIDE DEF prep
<1> QED
  BY <1>5 DEF SessionIo, Consistent

LEMMA SessionCloseConsistent ==
    ASSUME Consistent, NEW id \in SessionIds, SessionClose(id)
    PROVE  Consistent'
<1>1. "Close" \in Operations /\ {"Ok", "BadParameter"} \subseteq Statuses
  BY DEF Operations, Statuses
<1>2. SlotsOK(engine, control') /\ reply' \in Reply
  <2>1. CASE control' = control /\ Return("Close", id, "BadParameter")
    BY <1>1, <2>1, ReplyType DEF Consistent, SessionIds
  <2>2. CASE \E slot \in Holder(control, id), kept \in BOOLEAN :
               IF control[slot].phase = "active"
               THEN SlotRan("Close", id, slot,
                       CloseSaving(control[slot], engine.protocol, kept), "Ok")
               ELSE SlotRan("Close", id, slot, control[slot], "BadParameter")
    <3>1. PICK slot \in Holder(control, id), kept \in BOOLEAN :
               IF control[slot].phase = "active"
               THEN SlotRan("Close", id, slot,
                       CloseSaving(control[slot], engine.protocol, kept), "Ok")
               ELSE SlotRan("Close", id, slot, control[slot], "BadParameter")
      BY <2>2
    <3> DEFINE d == CloseSaving(control[slot], engine.protocol, kept)
    <3>2. /\ SlotOK(control[slot], engine.protocol)
          /\ KeepsIds(control[slot], control[slot])
          /\ engine.protocol \in Protocols
      BY FoundSlot
    <3>3. SlotOK(d, engine.protocol) /\ KeepsIds(d, control[slot])
      BY <3>2, CloseSavingOK DEF KeepsIds, SameProfileId
    <3>4. \/ SlotRan("Close", id, slot, d, "Ok")
          \/ SlotRan("Close", id, slot, control[slot], "BadParameter")
      BY <3>1
    <3> HIDE DEF d
    <3> QED
      BY <1>1, <3>2, <3>3, <3>4, CallRan
  <2> QED
    BY <2>1, <2>2 DEF SessionClose
<1> QED
  BY <1>2 DEF SessionClose, Consistent

LEMMA SessionCancelConsistent ==
    ASSUME Consistent, NEW id \in SessionIds, SessionCancel(id)
    PROVE  Consistent'
<1>1. "Cancel" \in Operations /\ {"Cancelled", "BadParameter"} \subseteq Statuses
  BY DEF Operations, Statuses
<1>2. SlotsOK(engine, control') /\ reply' \in Reply
  <2>1. CASE control' = control /\ Return("Cancel", id, "BadParameter")
    BY <1>1, <2>1, ReplyType DEF Consistent, SessionIds
  <2>2. CASE \E slot \in Holder(control, id) :
               SlotRan("Cancel", id, slot, CloseDiscarding(control[slot]),
                       "Cancelled")
    <3>1. PICK slot \in Holder(control, id) :
               SlotRan("Cancel", id, slot, CloseDiscarding(control[slot]),
                       "Cancelled")
      BY <2>2
    <3> DEFINE d == CloseDiscarding(control[slot])
    <3>2. SlotOK(control[slot], engine.protocol)
      BY FoundSlot
    <3>3. SlotOK(d, engine.protocol) /\ KeepsIds(d, control[slot])
      BY <3>2, CloseDiscardingOK DEF KeepsIds, SameProfileId
    <3> HIDE DEF d
    <3> QED
      BY <1>1, <3>1, <3>3, CallRan DEF d
  <2> QED
    BY <2>1, <2>2 DEF SessionCancel
<1> QED
  BY <1>2 DEF SessionCancel, Consistent

-----------------------------------------------------------------------------
(* The self-test.                                                           *)

LEMMA RunOfflineSelfTestOK ==
    ASSUME NEW e, NEW c, SlotsOK(e, c),
           NEW protocol \in Protocols, NEW arm \in ArmStatuses, NEW load,
           load \in ArmStatuses \cup Statuses
             \/ (e.loaded /\ e.protocol = protocol),
           NEW right
    PROVE  LET test == RunOfflineSelfTest(e, c, protocol, arm, load, right) IN
           /\ SlotsOK(test.engine, test.control)
           /\ test.status \in Statuses /\ test.armStatus \in ArmStatuses
<1> DEFINE prep == Prepare(e, c, protocol, arm, load)
           verdict == IF prep.engine.armStatus = "Passed" /\ ~right
                      THEN "Failed" ELSE prep.engine.armStatus
           status == IF verdict = "Passed" THEN "Ok" ELSE "SelfTestFailed"
           after == [prep.engine EXCEPT !.armStatus = verdict,
                        !.hook = @ /\ verdict = "Passed"]
           slot == RecordStatus(prep.control[0], status)
           test == RunOfflineSelfTest(e, c, protocol, arm, load, right)
<1>1. Prepared(prep)
  BY PrepareOK DEF Prepared
<1>2. CASE ~prep.ready
  <2>1. test = [engine |-> prep.engine, control |-> prep.control,
                status |-> prep.status, armStatus |-> "Unavailable"]
    BY <1>2 DEF RunOfflineSelfTest
  <2> QED
    BY <1>1, <2>1 DEF Prepared, ArmStatuses
<1>3. CASE prep.ready /\ AnyLive(prep.control)
  <2>1. test = [engine |-> prep.engine, control |-> prep.control,
                status |-> "Busy", armStatus |-> "Unavailable"]
    BY <1>3 DEF RunOfflineSelfTest
  <2> QED
    BY <1>1, <2>1 DEF Prepared, ArmStatuses, Statuses
<1>4. CASE prep.ready /\ ~AnyLive(prep.control)
  <2>1. test = [engine |-> after,
                control |-> [prep.control EXCEPT ![0] = slot],
                status |-> status, armStatus |-> verdict]
    BY <1>4 DEF RunOfflineSelfTest
  <2> HIDE DEF prep
  <2>2. /\ prep.engine \in Engine /\ prep.engine.loaded
        /\ prep.control \in [Slots -> Control]
        /\ SlotOK(prep.control[0], prep.engine.protocol)
    BY <1>1, <1>4, FirstSlot DEF Prepared, SlotsOK
  <2>3. verdict \in ArmStatuses /\ status \in Statuses
    BY <2>2 DEF Engine, ArmStatuses, Statuses
  <2>4. /\ after \in Engine /\ after.loaded
        /\ after.protocol = prep.engine.protocol
    <3> HIDE DEF verdict
    <3> QED
      BY <2>2, <2>3 DEF Engine
  <2>5. /\ SlotOK(slot, prep.engine.protocol)
        /\ KeepsIds(slot, prep.control[0])
    <3> DEFINE c0 == prep.control[0]
               p0 == prep.engine.protocol
    <3>1. SlotOK(c0, p0) /\ status \in Statuses
      BY <2>2, <2>3
    <3> HIDE DEF status, c0, p0
    <3>2. /\ SlotOK(RecordStatus(c0, status), p0)
          /\ RecordStatus(c0, status).phase = c0.phase
          /\ RecordStatus(c0, status).id = c0.id
          /\ SameProfileId(RecordStatus(c0, status).profile, c0.profile)
      BY <3>1, RecordStatusOK
    <3>3. KeepsIds(RecordStatus(c0, status), c0)
      BY <3>2 DEF KeepsIds, SameProfileId, IsLive
    <3> QED
      BY <3>2, <3>3 DEF c0, p0
  <2> HIDE DEF slot, after, status, verdict
  <2>6. SlotsOK(prep.engine, [prep.control EXCEPT ![0] = slot])
    BY <1>1, <2>2, <2>5, FirstSlot, UpdateOK DEF Prepared
  <2>7. SlotsOK(after, [prep.control EXCEPT ![0] = slot])
    BY <2>4, <2>6 DEF SlotsOK
  <2> QED
    BY <2>1, <2>3, <2>7
<1> QED
  BY <1>2, <1>3, <1>4

LEMMA TestedConsistent ==
    ASSUME Consistent, NEW test, Tested(test), SlotsOK(test.engine, test.control),
           test.status \in Statuses, test.armStatus \in ArmStatuses,
           UNCHANGED <<openCount, nextSessionId>>
    PROVE  Consistent'
<1>1. reply' \in Reply
  BY ZeroId, ReplyType DEF Tested, Operations
<1> QED
  BY <1>1 DEF Tested, Consistent

LEMMA RunSelfTestConsistent ==
    ASSUME Consistent, RunSelfTest
    PROVE  Consistent'
<1> DEFINE Test(protocol, load, right) ==
               RunOfflineSelfTest(engine, control, protocol, armStatus,
                                  load, right)
<1>1. UNCHANGED <<openCount, nextSessionId>>
  BY DEF RunSelfTest
<1>2. "tls12" \in Protocols /\ "tls13" \in Protocols
  BY DEF Protocols
<1>3. ASSUME NEW protocol \in Protocols, NEW load \in Loads(protocol),
             NEW right
      PROVE  LET test == Test(protocol, load, right) IN
             /\ SlotsOK(test.engine, test.control)
             /\ test.status \in Statuses /\ test.armStatus \in ArmStatuses
  BY LoadsType, RunOfflineSelfTestOK DEF Consistent
<1>4. CASE "tls12" \notin Installed
  <2>1. PICK load \in Loads("tls13"), right \in BOOLEAN :
          Tested(Test("tls13", load, right))
    BY <1>4 DEF RunSelfTest
  <2> DEFINE test == Test("tls13", load, right)
  <2>2. /\ SlotsOK(test.engine, test.control)
        /\ test.status \in Statuses /\ test.armStatus \in ArmStatuses
    BY <1>2, <1>3
  <2>3. Tested(test)
    BY <2>1
  <2> HIDE DEF test
  <2> QED
    BY <1>1, <2>2, <2>3, TestedConsistent
<1>5. CASE "tls12" \in Installed
  <2>1. PICK load \in Loads("tls12"), right \in BOOLEAN :
          LET first == Test("tls12", load, right) IN
          IF "tls13" \in Installed /\ first.status = "Ok"
          THEN \E next \in LoadFaults \cup Verdicts, also \in BOOLEAN :
                  Tested(RunOfflineSelfTest(first.engine, first.control,
                             "tls13", first.armStatus, next, also))
          ELSE Tested(first)
    BY <1>5 DEF RunSelfTest
  <2> DEFINE first == Test("tls12", load, right)
  <2>2. /\ SlotsOK(first.engine, first.control)
        /\ first.status \in Statuses /\ first.armStatus \in ArmStatuses
    BY <1>2, <1>3
  <2>3. \/ Tested(first)
        \/ \E next \in LoadFaults \cup Verdicts, also \in BOOLEAN :
              Tested(RunOfflineSelfTest(first.engine, first.control,
                         "tls13", first.armStatus, next, also))
    BY <2>1
  <2> HIDE DEF first
  <2>4. CASE Tested(first)
    BY <1>1, <2>2, <2>4, TestedConsistent
  <2>5. CASE \E next \in LoadFaults \cup Verdicts, also \in BOOLEAN :
                Tested(RunOfflineSelfTest(first.engine, first.control,
                           "tls13", first.armStatus, next, also))
    <3>1. PICK next \in LoadFaults \cup Verdicts, also \in BOOLEAN :
                Tested(RunOfflineSelfTest(first.engine, first.control,
                           "tls13", first.armStatus, next, also))
      BY <2>5
    <3> DEFINE test == RunOfflineSelfTest(first.engine, first.control,
                           "tls13", first.armStatus, next, also)
    <3>2. next \in ArmStatuses \cup Statuses
      BY DEF LoadFaults, Verdicts, ArmStatuses, Statuses
    <3>3. /\ SlotsOK(test.engine, test.control)
          /\ test.status \in Statuses /\ test.armStatus \in ArmStatuses
      BY <1>2, <2>2, <3>2, RunOfflineSelfTestOK
    <3>4. Tested(test)
      BY <3>1
    <3> HIDE DEF test
    <3> QED
      BY <1>1, <3>3, <3>4, TestedConsistent
  <2> QED
    BY <2>3, <2>4, <2>5
<1> QED
  BY <1>4, <1>5

-----------------------------------------------------------------------------
(* The theorems.                                                            *)

LEMMA StepConsistent == Consistent /\ [Next]_vars => Consistent'
<1> SUFFICES ASSUME Consistent, [Next]_vars PROVE Consistent'
  OBVIOUS
<1>1. CASE LibOpen \/ LibCloseShared
  BY <1>1, SharingConsistent
<1>2. CASE LibCloseLast \/ PurgeCache
  BY <1>2, UnloadingConsistent
<1>3. CASE SessionOpen
  BY <1>3, SessionOpenConsistent
<1>4. CASE Exchange
  BY <1>4, ExchangeConsistent
<1>5. CASE RunSelfTest
  BY <1>5, RunSelfTestConsistent
<1>6. ASSUME NEW id \in SessionIds, SessionHandshake(id)
      PROVE  Consistent'
  BY <1>6, SessionHandshakeConsistent
<1>7. ASSUME NEW id \in SessionIds, SessionIo("Write", id) \/ SessionIo("Read", id)
      PROVE  Consistent'
  BY <1>7, SessionIoConsistent
<1>8. ASSUME NEW id \in SessionIds, SessionClose(id)
      PROVE  Consistent'
  BY <1>8, SessionCloseConsistent
<1>9. ASSUME NEW id \in SessionIds, SessionCancel(id)
      PROVE  Consistent'
  BY <1>9, SessionCancelConsistent
<1>10. CASE UNCHANGED vars
  BY <1>10 DEF vars, Consistent
<1> QED
  BY <1>1, <1>2, <1>3, <1>4, <1>5, <1>6, <1>7, <1>8, <1>9, <1>10 DEF Next

(* The inductive invariant: whatever the traps do in whatever order, every  *)
(* slot's caches are what their labels say, IDs are apart, and nothing is   *)
(* left of an engine that is gone.                                          *)
THEOREM AlwaysConsistent == Spec => []Consistent
<1>1. Init => Consistent
  BY InitConsistent
<1>2. Consistent /\ [Next]_vars => Consistent'
  BY StepConsistent
<1> QED
  BY <1>1, <1>2, PTL DEF Spec

(* Type correctness of the library and of every slot.                       *)
THEOREM TypeCorrect == Spec => []TypeOK
<1>1. Consistent => TypeOK
  BY DEF Consistent, TypeOK, SlotsOK
<1> QED
  BY <1>1, AlwaysConsistent, PTL

(* NextSessionId's promise: a session ID never leads to two things, however *)
(* often the generator has wrapped.                                         *)
THEOREM IdsStayUnambiguous == Spec => []IdsUnambiguous
<1>1. Consistent => IdsUnambiguous
  BY DEF Consistent, SlotsOK, SlotOK, SlotShape, IdsUnambiguous
<1> QED
  BY <1>1, AlwaysConsistent, PTL

(* ConfigureContext, OpenSession and SaveResumeSession: a session never     *)
(* runs on another request's trust or offers another peer's ticket.         *)
THEOREM ReuseIsExact == Spec => []ExactReuse
<1>1. Consistent => ExactReuse
  BY DEF Consistent, SlotsOK, SlotOK, SlotShape, SlotExact, ExactReuse
<1> QED
  BY <1>1, AlwaysConsistent, PTL

(* CloseSession, palmTlsEngineShutdown and the failure paths of OpenSession:*)
(* every object is freed once, and none is left behind.                     *)
THEOREM HeapStaysBalanced == Spec => []HeapBalanced
<1>1. Consistent => HeapBalanced
  BY DEF Consistent, SlotsOK, SlotOK, HeapBalanced
<1> QED
  BY <1>1, AlwaysConsistent, PTL

-----------------------------------------------------------------------------
(* Native math and the self-test's verdict.                                 *)

(* An engine that stays stays without the hook, and a new one gets none.    *)
LEMMA PrepareKeepsHookOff ==
    ASSUME NEW e, NEW c, NEW protocol, NEW arm, NEW load,
           arm = "Failed" => ~e.hook
    PROVE  arm = "Failed" =>
             ~Prepare(e, c, protocol, arm, load).engine.hook
BY DEF Prepare, LoadEngine, LoadedEngine, NoEngine

(* A self-test that comes out wrong takes the hook off the engine.          *)
LEMMA SelfTestKeepsHookOff ==
    ASSUME NEW e, NEW c, NEW protocol, NEW arm, NEW load, NEW right,
           SlotsOK(Prepare(e, c, protocol, arm, load).engine,
                   Prepare(e, c, protocol, arm, load).control)
    PROVE  LET test == RunOfflineSelfTest(e, c, protocol, arm, load, right) IN
           test.armStatus = "Failed" => ~test.engine.hook
<1> DEFINE prep == Prepare(e, c, protocol, arm, load)
           verdict == IF prep.engine.armStatus = "Passed" /\ ~right
                      THEN "Failed" ELSE prep.engine.armStatus
           after == [prep.engine EXCEPT !.armStatus = verdict,
                        !.hook = @ /\ verdict = "Passed"]
           test == RunOfflineSelfTest(e, c, protocol, arm, load, right)
<1>1. CASE ~prep.ready \/ AnyLive(prep.control)
  BY <1>1 DEF RunOfflineSelfTest
<1>2. CASE prep.ready /\ ~AnyLive(prep.control)
  <2>1. test.engine = after /\ test.armStatus = verdict
    BY <1>2 DEF RunOfflineSelfTest
  <2>2. prep.engine \in Engine
    BY DEF SlotsOK
  <2> HIDE DEF prep, verdict, test
  <2>3. verdict = "Failed" => ~after.hook
    BY <2>2 DEF Engine
  <2> QED
    BY <2>1, <2>3 DEF test
<1> QED
  BY <1>1, <1>2

LEMMA StepArmFallback ==
    ASSUME Consistent, ArmFallback, [Next]_vars
    PROVE  ArmFallback'
<1> DEFINE Prep(protocol, load) ==
               Prepare(engine, control, protocol, armStatus, load)
           Test(protocol, load, right) ==
               RunOfflineSelfTest(engine, control, protocol, armStatus,
                                  load, right)
<1>1. CASE UNCHANGED <<armStatus, engine>>
  BY <1>1 DEF ArmFallback
<1>2. CASE engine' = NoEngine
  BY <1>2 DEF ArmFallback, NoEngine
<1>3. ASSUME armStatus' = armStatus,
             \E protocol, load : engine' = Prep(protocol, load).engine
      PROVE  ArmFallback'
  BY <1>3, PrepareKeepsHookOff DEF ArmFallback
<1>4. CASE RunSelfTest
  <2>1. ASSUME NEW protocol \in Protocols, NEW load \in Loads(protocol),
               NEW right
        PROVE  LET test == Test(protocol, load, right) IN
               /\ SlotsOK(test.engine, test.control)
               /\ test.armStatus \in ArmStatuses
               /\ test.armStatus = "Failed" => ~test.engine.hook
    BY LoadsType, PrepareOK, RunOfflineSelfTestOK, SelfTestKeepsHookOff
       DEF Consistent
  <2>2. "tls12" \in Protocols /\ "tls13" \in Protocols
    BY DEF Protocols
  <2>3. CASE "tls12" \notin Installed
    <3>1. PICK load \in Loads("tls13"), right \in BOOLEAN :
            Tested(Test("tls13", load, right))
      BY <1>4, <2>3 DEF RunSelfTest
    <3> DEFINE test == Test("tls13", load, right)
    <3>2. Tested(test) /\ (test.armStatus = "Failed" => ~test.engine.hook)
      BY <2>1, <2>2, <3>1
    <3> HIDE DEF test
    <3> QED
      BY <3>2 DEF Tested, ArmFallback
  <2>4. CASE "tls12" \in Installed
    <3>1. PICK load \in Loads("tls12"), right \in BOOLEAN :
            LET first == Test("tls12", load, right) IN
            IF "tls13" \in Installed /\ first.status = "Ok"
            THEN \E next \in LoadFaults \cup Verdicts, also \in BOOLEAN :
                    Tested(RunOfflineSelfTest(first.engine, first.control,
                               "tls13", first.armStatus, next, also))
            ELSE Tested(first)
      BY <1>4, <2>4 DEF RunSelfTest
    <3> DEFINE first == Test("tls12", load, right)
    <3>2. /\ SlotsOK(first.engine, first.control)
          /\ first.armStatus \in ArmStatuses
          /\ first.armStatus = "Failed" => ~first.engine.hook
      BY <2>1, <2>2
    <3>3. \/ Tested(first)
          \/ \E next \in LoadFaults \cup Verdicts, also \in BOOLEAN :
                Tested(RunOfflineSelfTest(first.engine, first.control,
                           "tls13", first.armStatus, next, also))
      BY <3>1
    <3> HIDE DEF first
    <3>4. CASE Tested(first)
      BY <3>2, <3>4 DEF Tested, ArmFallback
    <3>5. CASE \E next \in LoadFaults \cup Verdicts, also \in BOOLEAN :
                  Tested(RunOfflineSelfTest(first.engine, first.control,
                             "tls13", first.armStatus, next, also))
      <4>1. PICK next \in LoadFaults \cup Verdicts, also \in BOOLEAN :
              Tested(RunOfflineSelfTest(first.engine, first.control,
                         "tls13", first.armStatus, next, also))
        BY <3>5
      <4> DEFINE test == RunOfflineSelfTest(first.engine, first.control,
                             "tls13", first.armStatus, next, also)
      <4>2. next \in ArmStatuses \cup Statuses
        BY DEF LoadFaults, Verdicts, ArmStatuses, Statuses
      <4>3. test.armStatus = "Failed" => ~test.engine.hook
        BY <2>2, <3>2, <4>2, PrepareOK, SelfTestKeepsHookOff
      <4>4. Tested(test)
        BY <4>1
      <4> HIDE DEF test
      <4> QED
        BY <4>3, <4>4 DEF Tested, ArmFallback
    <3> QED
      BY <3>3, <3>4, <3>5
  <2> QED
    BY <2>3, <2>4
<1>5. CASE SessionOpen \/ Exchange
  BY <1>3, <1>5 DEF SessionOpen, Exchange, SessionOpenOn, ExchangeOn
<1>6. ASSUME NEW id \in SessionIds,
             \/ SessionHandshake(id)
             \/ SessionIo("Write", id) \/ SessionIo("Read", id)
      PROVE  ArmFallback'
  BY <1>3, <1>6 DEF SessionHandshake, SessionIo
<1>7. ASSUME NEW id \in SessionIds, SessionClose(id) \/ SessionCancel(id)
      PROVE  ArmFallback'
  BY <1>1, <1>7 DEF SessionClose, SessionCancel
<1>8. CASE LibOpen \/ LibCloseShared
  BY <1>1, <1>8 DEF LibOpen, LibCloseShared
<1>9. CASE LibCloseLast \/ PurgeCache
  BY <1>2, <1>9 DEF LibCloseLast, PurgeCache
<1>10. CASE UNCHANGED vars
  BY <1>1, <1>10 DEF vars
<1> QED
  BY <1>4, <1>5, <1>6, <1>7, <1>8, <1>9, <1>10 DEF Next

(* A verdict against native math that the library holds binds the engine,   *)
(* also one loaded after the test (LoadEngine passes DISABLE_ARM on).       *)
THEOREM VerdictBinds == Spec => []ArmFallback
<1>1. Init => ArmFallback
  BY DEF Init, ArmFallback
<1>2. Consistent /\ ArmFallback /\ [Next]_vars => ArmFallback'
  BY StepArmFallback
<1> QED
  BY <1>1, <1>2, AlwaysConsistent, PTL DEF Spec
=============================================================================
