------------------------ MODULE RotationCacheProofs -------------------------
(* Theorems about RotationCache, for every value of its constants. *)
EXTENDS RotationCache, FiniteSetTheorems, TLAPS

(* A rotation has at most MaxCopies slots per ad. *)
LEMMA SlotsFinite ==
  ASSUME NEW rot
  PROVE  /\ IsFiniteSet(Slots(rot))
         /\ Size(rot) \in 0 .. NumAds * MaxCopies
<1> DEFINE all == Ads \X (1 .. MaxCopies)
<1>1. IsFiniteSet(Ads) /\ Cardinality(Ads) = NumAds
  BY NumAdsAssumption, FS_Interval DEF Ads
<1>2. IsFiniteSet(1 .. MaxCopies) /\ Cardinality(1 .. MaxCopies) = MaxCopies
  BY MaxCopiesAssumption, FS_Interval
<1>3. IsFiniteSet(all) /\ Cardinality(all) = NumAds * MaxCopies
  BY <1>1, <1>2, FS_Product
<1>4. Slots(rot) \subseteq all
  BY DEF Slots
<1>5. IsFiniteSet(Slots(rot)) /\ Cardinality(Slots(rot)) <= NumAds * MaxCopies
  BY <1>3, <1>4, FS_Subset
<1>6. Cardinality(Slots(rot)) \in Nat
  BY <1>5, FS_CardinalityType
<1> QED BY <1>3, <1>5, <1>6, FS_CardinalityType DEF Size

(* An index into the array is a natural number. *)
LEMMA IndexType ==
  ASSUME NEW rot, NEW s
  PROVE  Index(rot, s) \in Nat
<1> DEFINE before == {t \in Slots(rot) : Precedes(t, s)}
<1>1. IsFiniteSet(before)
  BY SlotsFinite, FS_Subset
<1> QED BY <1>1, FS_CardinalityType DEF Index

(* nextAd leaves the cursor within the longest array there can be. *)
LEMMA CursorAfterInRange ==
  ASSUME NEW rot, NEW dl, NEW t, NEW src, NEW cur \in 0 .. NumAds * MaxCopies
  PROVE  CursorAfter(rot, dl, t, src, cur) \in 0 .. NumAds * MaxCopies
<1> DEFINE n == Size(rot)
           max == NumAds * MaxCopies
           first == CHOOSE s \in Chosen(rot, dl, t, src, cur) : TRUE
           d == Distance(rot, cur, first)
<1>1. n \in 0 .. max /\ max \in Nat
  BY SlotsFinite, NumAdsAssumption, MaxCopiesAssumption
<1>2. CASE n = 0
  BY <1>2 DEF CursorAfter
<1>3. CASE n # 0
  <2>1. \A x \in Nat : x % n \in 0 .. n - 1
    BY <1>1, <1>3
  <2>2. cur \in Nat
    BY <1>1
  <2>3. Index(rot, first) + n - (cur % n) \in Nat
    <3>1. cur % n \in 0 .. n - 1
      BY <2>1, <2>2
    <3>2. Index(rot, first) \in Nat
      BY IndexType
    <3> HIDE DEF n, first
    <3> QED BY <3>1, <3>2, <1>1
  <2>4. d \in 0 .. n - 1
    BY <2>1, <2>3 DEF Distance
  <2>5. cur + 1 + d \in Nat
    <3> HIDE DEF d, n
    <3> QED BY <2>2, <2>4, <1>1
  <2>6. CursorAfter(rot, dl, t, src, cur) \in {(cur + 1 + d) % n, cur % n}
    BY <1>3 DEF CursorAfter
  <2>7. CursorAfter(rot, dl, t, src, cur) \in 0 .. n - 1
    BY <2>1, <2>2, <2>5, <2>6
  <2> HIDE DEF n, max
  <2> QED BY <2>7, <1>1 DEF max
<1> QED BY <1>2, <1>3

-----------------------------------------------------------------------------
(* Type correctness *)

(* The record of no load, and below that of an idle handler and of a load
   just begun, have the types TypeOK gives them. *)
LEMMA NoLoadType == NoLoad \in Loads
BY MaxTimeAssumption, MaxCopiesAssumption DEF NoLoad, Loads, EmptyRotation, Rotations, Time, Barred

(* The record of an idle handler. *)
LEMMA IdleOpType == IdleOp \in Ops
BY DEF IdleOp, Ops, Kinds

(* The record of a load that has just issued its queries. *)
LEMMA StartedLoadType ==
  ASSUME TypeOK
  PROVE  StartedLoad \in Loads
BY NoLoadType, MaxTimeAssumption DEF TypeOK, StartedLoad, NoLoad, Loads

(* A cold process has the right types. *)
LEMMA InitType == Init => TypeOK
<1> SUFFICES ASSUME Init PROVE TypeOK
  OBVIOUS
<1>1. NumAds * MaxCopies \in Nat
  BY NumAdsAssumption, MaxCopiesAssumption
<1>2. EmptyRotation \in Rotations
  BY MaxCopiesAssumption DEF EmptyRotation, Rotations
<1> QED
  BY <1>1, <1>2, NoLoadType, IdleOpType, MaxTimeAssumption
  DEF Init, TypeOK, Time, Barred

(* What every handler's first step does to the bookkeeping variables. *)
LEMMA BeginType ==
  ASSUME TypeOK, NEW h \in Handlers, NEW kind \in Kinds,
         NEW ids \in SUBSET Sites, NEW cut \in SUBSET Sites,
         NEW admitted \in SUBSET Sites, Begin(h, kind, ids, cut, admitted)
  PROVE  /\ op' \in [Handlers -> Ops]
         /\ load' \in Loads
         /\ shut' \in SUBSET Sites
         /\ writes' \in Nat
         /\ UNCHANGED <<rotation, deadline, siteByDomain, refreshedAt, cursor, now>>
<1>1. Admit(admitted) \in [Handlers -> Ops]
  BY DEF TypeOK, Admit, Ops
<1>2. [IdleOp EXCEPT !.pc = "committed", !.kind = kind, !.ids = ids,
                     !.cut = cut] \in Ops
  BY IdleOpType DEF Ops, Kinds
<1>3. op' \in [Handlers -> Ops]
  BY <1>1, <1>2 DEF Begin
<1>4. load' \in Loads
  BY DEF Begin, TypeOK, Loads
<1> QED BY <1>3, <1>4 DEF Begin, TypeOK, cacheVars

(* So does what invalidate leaves once it has evicted its sites. *)
LEMMA EvictAndReloadType ==
  ASSUME TypeOK, NEW h \in Handlers, EvictAndReload(h)
  PROVE  /\ rotation' \in Rotations
         /\ siteByDomain' \in [Sites -> Time]
         /\ load' \in Loads
         /\ op' \in [Handlers -> Ops]
         /\ shut' \in SUBSET Sites
<1>1. rotation' \in Rotations
  BY MaxCopiesAssumption DEF EvictAndReload, TypeOK, Rotations, Without
<1>2. siteByDomain' \in [Sites -> Time]
  BY MaxTimeAssumption DEF EvictAndReload, TypeOK, Time, Barred
<1>3. load' \in Loads
  BY StartedLoadType DEF EvictAndReload, ForceRefresh, TypeOK
<1>4. op' \in [Handlers -> Ops]
  BY DEF EvictAndReload, TypeOK, Ops
<1>5. shut' \in SUBSET Sites
  BY DEF EvictAndReload, TypeOK, Ops
<1> QED BY <1>1, <1>2, <1>3, <1>4, <1>5

(* Every step keeps the types: one step of the proof per action. *)
LEMMA NextType == TypeOK /\ [Next]_vars => TypeOK'
<1> SUFFICES ASSUME TypeOK, [Next]_vars PROVE TypeOK'
  OBVIOUS
<1> USE DEF TypeOK
<1>1. ASSUME NEW h \in Handlers, Write(h) PROVE TypeOK'
  <2>1. ASSUME NEW kind \in Kinds, NEW S \in SUBSET Sites, NEW row \in Time,
               WriteSites(h, S, row, kind)
        PROVE  TypeOK'
    <3>1. siteRow' \in [Sites -> Time] /\ adRow' \in Rotations
      BY <2>1 DEF WriteSites
    <3> DEFINE ids == IF kind = "named" THEN S ELSE {}
               cut == IF row = Barred THEN S ELSE {}
               admitted == IF row = Barred THEN {} ELSE S
    <3>2. Begin(h, kind, ids, cut, admitted)
      BY <2>1 DEF WriteSites
    <3>3. ids \in SUBSET Sites /\ cut \in SUBSET Sites /\ admitted \in SUBSET Sites
      OBVIOUS
    <3> HIDE DEF ids, cut, admitted
    <3> QED BY <3>1, <3>2, <3>3, BeginType
  <2>2. ASSUME NEW kind \in Kinds, NEW a \in Ads, NEW c \in 0 .. MaxCopies,
               WriteAd(h, a, c, kind)
        PROVE  TypeOK'
    <3>1. siteRow' \in [Sites -> Time] /\ adRow' \in Rotations
      BY <2>2 DEF WriteAd, Rotations
    <3> DEFINE ids == IF kind = "named" THEN {SiteOf[a]} ELSE {}
    <3>2. Begin(h, kind, ids, {}, {})
      BY <2>2 DEF WriteAd
    <3>3. ids \in SUBSET Sites /\ {} \in SUBSET Sites
      BY SiteOfAssumption
    <3> HIDE DEF ids
    <3> QED BY <3>1, <3>2, <3>3, BeginType
  <2>3. ASSUME NEW kind \in Kinds, NEW S \in SUBSET Sites, NoWrite(h, S, kind)
        PROVE  TypeOK'
    <3> DEFINE ids == IF kind = "named" THEN S ELSE {}
    <3>1. Begin(h, kind, ids, {}, {}) /\ UNCHANGED <<siteRow, adRow>>
      BY <2>3 DEF NoWrite, dbVars
    <3>2. ids \in SUBSET Sites /\ {} \in SUBSET Sites
      OBVIOUS
    <3> HIDE DEF ids
    <3> QED BY <3>1, <3>2, BeginType
  <2> QED BY <1>1, <2>1, <2>2, <2>3 DEF Write
<1>2. ASSUME NEW h \in Handlers, Invalidate(h) PROVE TypeOK'
  <2>1. CASE MustWait
    <3>1. op' \in [Handlers -> Ops]
      BY <1>2, <2>1 DEF Invalidate, Ops
    <3> QED BY <1>2, <2>1, <3>1 DEF Invalidate, dbVars
  <2>2. CASE ~MustWait
    BY <1>2, <2>2, EvictAndReloadType DEF Invalidate, dbVars
  <2> QED BY <2>1, <2>2
<1>3. ASSUME NEW h \in Handlers, Resume(h) PROVE TypeOK'
  BY <1>3, EvictAndReloadType DEF Resume, dbVars
<1>4. ASSUME NEW h \in Handlers, RebuildNow(h) PROVE TypeOK'
  <2>1. op' \in [Handlers -> Ops]
    BY <1>4 DEF RebuildNow, Ops
  <2>2. load' \in Loads
    BY <1>4, StartedLoadType DEF RebuildNow, ForceRefresh
  <2> QED BY <1>4, <2>1, <2>2 DEF RebuildNow, dbVars, cacheVars
<1>5. CASE Timer
  BY <1>5, StartedLoadType DEF Timer, dbVars, cacheVars
<1>6. CASE ReadAds
  <2>1. [a \in Ads |-> IF Selected(a) THEN adRow[a] ELSE 0] \in Rotations
    BY MaxCopiesAssumption DEF Rotations
  <2>2. [a \in Ads |-> IF Selected(a) /\ adRow[a] > 0
                         THEN siteRow[SiteOf[a]] ELSE 0] \in [Ads -> Time]
    BY SiteOfAssumption, MaxTimeAssumption DEF Time
  <2>3. load' \in Loads
    BY <1>6, <2>1, <2>2 DEF ReadAds, Loads
  <2> QED BY <1>6, <2>3 DEF ReadAds, dbVars, cacheVars
<1>7. CASE ReadSites
  BY <1>7 DEF ReadSites, Loads, dbVars, cacheVars
<1>8. CASE Swap
  <2>1. load' \in Loads
    BY <1>8 DEF Swap, Loads
  <2>2. op' \in [Handlers -> Ops]
    <3>1. ASSUME NEW h \in Handlers
          PROVE  [op[h] EXCEPT !.covered = @ \/ h \in load.covers] \in Ops
      <4>1. op[h] \in Ops
        OBVIOUS
      <4> QED BY <4>1 DEF Ops
    <3> QED BY <1>8, <3>1 DEF Swap
  <2>3. cursor' \in 0 .. NumAds * MaxCopies
    <3> DEFINE n == Size(load.copies)
               max == NumAds * MaxCopies
    <3>1. n \in 0 .. max /\ max \in Nat
      BY SlotsFinite, NumAdsAssumption, MaxCopiesAssumption
    <3>2. cursor' = IF n = 0 THEN 0 ELSE cursor % n
      BY <1>8 DEF Swap
    <3>3. cursor \in 0 .. max
      OBVIOUS
    <3> HIDE DEF n, max
    <3>4. cursor' \in 0 .. max
      BY <3>1, <3>2, <3>3
    <3> QED BY <3>4 DEF max
  <2>4. rotation' \in Rotations /\ deadline' \in [Ads -> Time]
        /\ siteByDomain' \in [Sites -> Time]
    BY <1>8 DEF Swap, Loads
  <2> QED BY <1>8, <2>1, <2>2, <2>3, <2>4 DEF Swap, dbVars
<1>9. CASE Fail
  BY <1>9 DEF Fail, Loads, dbVars, cacheVars
<1>10. CASE Clear
  <2>1. ASSUME NEW h \in Handlers PROVE Released(h) \in Ops
    <3>1. op[h] \in Ops /\ load.ok \in BOOLEAN
      BY DEF Loads
    <3>2. CASE op[h].pc = "waiting"
      BY <3>1, <3>2 DEF Released, Ops
    <3>3. CASE op[h].pc = "loading"
      BY <3>1, <3>3 DEF Released, Ops
    <3>4. CASE op[h].pc \notin {"waiting", "loading"}
      BY <3>1, <3>4 DEF Released
    <3> QED BY <3>2, <3>3, <3>4
  <2>2. op' \in [Handlers -> Ops]
    BY <1>10, <2>1 DEF Clear
  <2> QED BY <1>10, <2>2, NoLoadType DEF Clear, dbVars, cacheVars
<1>11. ASSUME NEW src \in Sites, Serve(src) PROVE TypeOK'
  <2>1. cursor' \in 0 .. NumAds * MaxCopies
    BY <1>11, CursorAfterInRange DEF Serve
  <2> QED BY <1>11, <2>1 DEF Serve, dbVars
<1>12. CASE Tick
  BY <1>12, MaxTimeAssumption DEF Tick, Time, dbVars, cacheVars
<1>13. CASE Age
  BY <1>13 DEF Age, dbVars
<1>14. CASE UNCHANGED vars
  BY <1>14 DEF vars, dbVars, cacheVars
<1> QED
  BY <1>1, <1>2, <1>3, <1>4, <1>5, <1>6, <1>7, <1>8, <1>9, <1>10, <1>11, <1>12,
     <1>13, <1>14 DEF Next, Handle

(* The state of the cache, its loads and its handlers is well-formed: in     *)
(* particular the shared cursor never leaves the longest possible array.     *)
THEOREM TypeCorrect == Spec => []TypeOK
BY InitType, NextType, PTL DEF Spec

-----------------------------------------------------------------------------
(* Sites cut off stay out *)

Barring(s) == siteRow[s] = Barred
LoadClean(s) ==
  /\ \A a \in Ads : SiteOf[a] = s => load.copies[a] = 0
  /\ load.sites[s] = Barred
CacheClean(s) ==
  /\ \A a \in Ads : SiteOf[a] = s => rotation[a] = 0
  /\ siteByDomain[s] = Barred

(* The inductive invariant: the database bars the sites a handler has cut    *)
(* off for as long as it remembers them; once it has awaited the load in     *)
(* flight no load can hold them, and once it has evicted them neither can    *)
(* the cache.                                                                *)
CutOffInv ==
  /\ load.phase = "none" => \A s \in Sites : LoadClean(s)
  /\ \A h \in Handlers : op[h].kind = "named" => op[h].cut \subseteq op[h].ids
  /\ \A h \in Handlers : \A s \in op[h].cut : Barring(s)
  /\ \A h \in Handlers : op[h].pc = "resumed" => \A s \in op[h].cut : LoadClean(s)
  /\ \A s \in shut : Barring(s) /\ LoadClean(s) /\ CacheClean(s)

(* A cold process has cut nobody off. *)
LEMMA CutOffInit == Init => CutOffInv
BY DEF Init, CutOffInv, NoLoad, IdleOp, LoadClean, EmptyRotation

(* A load that has just begun holds no ads and no sites. *)
LEMMA StartedClean ==
  /\ \A a \in Ads : StartedLoad.copies[a] = 0
  /\ \A s \in Sites : StartedLoad.sites[s] = Barred
BY DEF StartedLoad, NoLoad, EmptyRotation

(* Beginning a handler, with the row it wrote. *)
LEMMA CutOffBegin ==
  ASSUME TypeOK, CutOffInv, NEW h \in Handlers, NEW kind \in Kinds,
         NEW ids \in SUBSET Sites, NEW cut \in SUBSET Sites,
         NEW admitted \in SUBSET Sites, Begin(h, kind, ids, cut, admitted),
         kind = "named" => cut \subseteq ids,
         \A s \in cut : siteRow'[s] = Barred,
         \A s \in Sites \ admitted : Barring(s) => siteRow'[s] = Barred,
         cut \cap admitted = {}
  PROVE  CutOffInv'
<1>1. /\ load'.phase = load.phase /\ load'.copies = load.copies
      /\ load'.sites = load.sites
  BY DEF Begin, TypeOK, Loads
<1>2. \A s \in Sites : (LoadClean(s) <=> LoadClean(s)')
  BY <1>1 DEF LoadClean
<1>3. \A s \in Sites : (CacheClean(s) <=> CacheClean(s)')
  BY DEF CacheClean, Begin, cacheVars
<1>4. ASSUME NEW g \in Handlers, g # h
      PROVE  /\ op'[g].pc = op[g].pc /\ op'[g].kind = op[g].kind
             /\ op'[g].ids = op[g].ids /\ op'[g].cut = op[g].cut \ admitted
             /\ op[g].cut \subseteq Sites
  BY <1>4 DEF Begin, Admit, TypeOK, Ops
<1>5. /\ op'[h].pc = "committed" /\ op'[h].kind = kind
      /\ op'[h].ids = ids /\ op'[h].cut = cut
  BY DEF Begin, Admit, IdleOp
<1>6. shut' = shut \ admitted /\ shut \subseteq Sites
  BY DEF Begin, TypeOK
<1>7. (load.phase = "none" => \A s \in Sites : LoadClean(s))'
  BY <1>1, <1>2 DEF CutOffInv
<1>8. (\A g \in Handlers : op[g].kind = "named" => op[g].cut \subseteq op[g].ids)'
  BY <1>4, <1>5 DEF CutOffInv
<1>9. (\A g \in Handlers : \A s \in op[g].cut : Barring(s))'
  BY <1>4, <1>5 DEF CutOffInv, Barring
<1>10. (\A g \in Handlers :
          op[g].pc = "resumed" => \A s \in op[g].cut : LoadClean(s))'
  BY <1>2, <1>4, <1>5 DEF CutOffInv
<1>11. (\A s \in shut : Barring(s) /\ LoadClean(s) /\ CacheClean(s))'
  BY <1>2, <1>3, <1>6 DEF CutOffInv, Barring
<1> QED BY <1>7, <1>8, <1>9, <1>10, <1>11 DEF CutOffInv

(* Evicting, by a handler that has no load of the past to fear. *)
LEMMA CutOffEvict ==
  ASSUME TypeOK, CutOffInv, NEW h \in Handlers, EvictAndReload(h),
         UNCHANGED siteRow, \A s \in op[h].cut : LoadClean(s)
  PROVE  CutOffInv'
<1>1. load' \in {load, StartedLoad} /\ load'.phase # "none"
  BY DEF EvictAndReload, ForceRefresh, Loading, StartedLoad, NoLoad
<1>2. \A s \in Sites : LoadClean(s) => LoadClean(s)'
  BY <1>1, StartedClean DEF LoadClean
<1>3. \A s \in Sites : CacheClean(s) => CacheClean(s)'
  BY DEF EvictAndReload, CacheClean, Without, Barred
<1>4. \A s \in op[h].ids : CacheClean(s)'
  BY DEF EvictAndReload, CacheClean, Without, TypeOK, Ops
<1>5. \A g \in Handlers : /\ op'[g].kind = op[g].kind /\ op'[g].ids = op[g].ids
                          /\ op'[g].cut = op[g].cut /\ op[g].cut \subseteq Sites
                          /\ op'[g].pc = "resumed" => op[g].pc = "resumed"
  BY DEF EvictAndReload, TypeOK, Ops
<1>6. ASSUME NEW s \in shut' PROVE (Barring(s) /\ LoadClean(s) /\ CacheClean(s))'
  <2>1. s \in shut \/ (op[h].kind = "named" /\ s \in op[h].cut)
    BY <1>6 DEF EvictAndReload
  <2>2. CASE s \in shut
    BY <1>2, <1>3, <2>2 DEF CutOffInv, Barring, TypeOK
  <2>3. CASE op[h].kind = "named" /\ s \in op[h].cut
    <3>1. s \in op[h].ids /\ s \in Sites
      BY <2>3, <1>5 DEF CutOffInv
    <3> QED BY <2>3, <3>1, <1>2, <1>4 DEF CutOffInv, Barring
  <2> QED BY <2>1, <2>2, <2>3
<1> QED BY <1>1, <1>2, <1>5, <1>6 DEF CutOffInv, Barring

(* A query returns: rows the database bars do not enter the load. *)
LEMMA CutOffRead ==
  ASSUME TypeOK, CutOffInv, load'.phase # "none",
         UNCHANGED <<siteRow, rotation, siteByDomain, op, shut>>,
         \A s \in Sites : Barring(s) /\ LoadClean(s) => LoadClean(s)'
  PROVE  CutOffInv'
<1>1. /\ \A g \in Handlers : op[g].cut \subseteq Sites
      /\ shut \subseteq Sites
  BY DEF TypeOK, Ops
<1>2. \A s \in Sites : (Barring(s) <=> Barring(s)') /\ (CacheClean(s) <=> CacheClean(s)')
  BY DEF Barring, CacheClean
<1>3. (\A h \in Handlers : op[h].kind = "named" => op[h].cut \subseteq op[h].ids)'
  BY DEF CutOffInv
<1>4. (\A h \in Handlers : \A s \in op[h].cut : Barring(s))'
  BY <1>1, <1>2 DEF CutOffInv
<1>5. (\A h \in Handlers : op[h].pc = "resumed" => \A s \in op[h].cut : LoadClean(s))'
  <2> SUFFICES ASSUME NEW h \in Handlers, op[h].pc = "resumed", NEW s \in op[h].cut
               PROVE  LoadClean(s)'
    OBVIOUS
  <2>1. s \in Sites /\ Barring(s) /\ LoadClean(s)
    BY <1>1 DEF CutOffInv
  <2> QED BY <2>1
<1>6. (\A s \in shut : Barring(s) /\ LoadClean(s) /\ CacheClean(s))'
  <2> SUFFICES ASSUME NEW s \in shut
               PROVE  (Barring(s) /\ LoadClean(s) /\ CacheClean(s))'
    OBVIOUS
  <2>1. s \in Sites /\ Barring(s) /\ LoadClean(s) /\ CacheClean(s)
    BY <1>1 DEF CutOffInv
  <2> QED BY <2>1, <1>2
<1> QED BY <1>3, <1>4, <1>5, <1>6 DEF CutOffInv

(* Every step keeps the invariant: one step of the proof per action. *)
LEMMA CutOffNext == TypeOK /\ CutOffInv /\ [Next]_vars => CutOffInv'
<1> SUFFICES ASSUME TypeOK, CutOffInv, [Next]_vars PROVE CutOffInv'
  OBVIOUS
<1>1. ASSUME NEW h \in Handlers, Write(h) PROVE CutOffInv'
  <2>1. ASSUME NEW kind \in Kinds, NEW S \in SUBSET Sites, NEW row \in Time,
               WriteSites(h, S, row, kind)
        PROVE  CutOffInv'
    <3> DEFINE ids == IF kind = "named" THEN S ELSE {}
               cut == IF row = Barred THEN S ELSE {}
               admitted == IF row = Barred THEN {} ELSE S
    <3>1. Begin(h, kind, ids, cut, admitted)
      BY <2>1 DEF WriteSites
    <3>2. /\ ids \in SUBSET Sites /\ cut \in SUBSET Sites
          /\ admitted \in SUBSET Sites /\ cut \cap admitted = {}
          /\ kind = "named" => cut \subseteq ids
      OBVIOUS
    <3>3. /\ \A s \in cut : siteRow'[s] = Barred
          /\ \A s \in Sites \ admitted : Barring(s) => siteRow'[s] = Barred
      BY <2>1 DEF WriteSites, Barring
    <3> HIDE DEF ids, cut, admitted
    <3> QED BY <3>1, <3>2, <3>3, CutOffBegin
  <2>2. ASSUME NEW kind \in Kinds, NEW ids \in SUBSET Sites,
               Begin(h, kind, ids, {}, {}), siteRow' = siteRow
        PROVE  CutOffInv'
    <3> DEFINE none == {}
    <3>1. /\ none \in SUBSET Sites /\ none \cap none = {}
          /\ none \subseteq ids /\ \A s \in none : siteRow'[s] = Barred
          /\ \A s \in Sites \ none : Barring(s) => siteRow'[s] = Barred
      BY <2>2 DEF Barring
    <3>2. Begin(h, kind, ids, none, none)
      BY <2>2
    <3> HIDE DEF none
    <3> QED BY <3>1, <3>2, CutOffBegin
  <2>3. ASSUME NEW kind \in Kinds, NEW a \in Ads, NEW c \in 0 .. MaxCopies,
               WriteAd(h, a, c, kind)
        PROVE  CutOffInv'
    <3> DEFINE ids == IF kind = "named" THEN {SiteOf[a]} ELSE {}
    <3>1. Begin(h, kind, ids, {}, {}) /\ siteRow' = siteRow
      BY <2>3 DEF WriteAd
    <3>2. ids \in SUBSET Sites
      BY SiteOfAssumption
    <3> HIDE DEF ids
    <3> QED BY <3>1, <3>2, <2>2
  <2>4. ASSUME NEW kind \in Kinds, NEW S \in SUBSET Sites, NoWrite(h, S, kind)
        PROVE  CutOffInv'
    <3> DEFINE ids == IF kind = "named" THEN S ELSE {}
    <3>1. Begin(h, kind, ids, {}, {}) /\ siteRow' = siteRow
      BY <2>4 DEF NoWrite, dbVars
    <3>2. ids \in SUBSET Sites
      OBVIOUS
    <3> HIDE DEF ids
    <3> QED BY <3>1, <3>2, <2>2
  <2> QED BY <1>1, <2>1, <2>3, <2>4 DEF Write
<1>2. ASSUME NEW h \in Handlers, Invalidate(h) PROVE CutOffInv'
  <2>1. CASE MustWait
    <3>1. \A g \in Handlers :
            /\ op'[g].kind = op[g].kind /\ op'[g].ids = op[g].ids
            /\ op'[g].cut = op[g].cut
            /\ op'[g].pc = "resumed" => op[g].pc = "resumed"
      BY <1>2, <2>1 DEF Invalidate, TypeOK, Ops
    <3>2. UNCHANGED <<siteRow, load, shut, rotation, siteByDomain>>
      BY <1>2, <2>1 DEF Invalidate, dbVars
    <3> QED BY <3>1, <3>2 DEF CutOffInv, Barring, LoadClean, CacheClean
  <2>2. CASE ~MustWait
    <3>1. EvictAndReload(h) /\ UNCHANGED siteRow
      BY <1>2, <2>2 DEF Invalidate, dbVars
    <3>2. \A s \in op[h].cut : LoadClean(s)
      BY <2>2 DEF MustWait, Loading, CutOffInv, TypeOK, Ops
    <3> QED BY <3>1, <3>2, CutOffEvict
  <2> QED BY <2>1, <2>2
<1>3. ASSUME NEW h \in Handlers, Resume(h) PROVE CutOffInv'
  <2>1. EvictAndReload(h) /\ UNCHANGED siteRow /\ \A s \in op[h].cut : LoadClean(s)
    BY <1>3 DEF Resume, dbVars, CutOffInv
  <2> QED BY <2>1, CutOffEvict
(* A load that starts holds nothing yet. *)
<1>4. ASSUME ForceRefresh, UNCHANGED <<siteRow, shut, rotation, siteByDomain>>,
             \A g \in Handlers :
               /\ op'[g].kind = op[g].kind /\ op'[g].ids = op[g].ids
               /\ op'[g].cut = op[g].cut
               /\ op'[g].pc = "resumed" => op[g].pc = "resumed"
      PROVE  CutOffInv'
  <2>1. load' \in {load, StartedLoad} /\ load'.phase # "none"
    BY <1>4 DEF ForceRefresh, Loading, StartedLoad, NoLoad
  <2>2. \A s \in Sites : LoadClean(s) => LoadClean(s)'
    BY <2>1, StartedClean DEF LoadClean
  <2>3. \A g \in Handlers : op[g].cut \subseteq Sites
    BY DEF TypeOK, Ops
  <2>4. shut \subseteq Sites
    BY DEF TypeOK
  <2> QED BY <1>4, <2>1, <2>2, <2>3, <2>4 DEF CutOffInv, Barring, CacheClean
<1>5. ASSUME NEW h \in Handlers, RebuildNow(h) PROVE CutOffInv'
  <2>1. \A g \in Handlers :
          /\ op'[g].kind = op[g].kind /\ op'[g].ids = op[g].ids
          /\ op'[g].cut = op[g].cut
          /\ op'[g].pc = "resumed" => op[g].pc = "resumed"
    BY <1>5 DEF RebuildNow, TypeOK, Ops
  <2> QED BY <1>4, <1>5, <2>1 DEF RebuildNow, dbVars, cacheVars
<1>6. CASE Timer
  BY <1>4, <1>6 DEF Timer, ForceRefresh, dbVars, cacheVars
<1>7. CASE ReadAds
  <2>1. ASSUME NEW s \in Sites, Barring(s), LoadClean(s) PROVE LoadClean(s)'
    <3>1. \A a \in Ads : SiteOf[a] = s => ~Selected(a)
      BY <2>1 DEF Selected, Barring, Barred, TypeOK, Loads, Time
    <3>2. load'.sites = load.sites
      BY <1>7 DEF ReadAds, TypeOK, Loads
    <3>3. \A a \in Ads : load'.copies[a] = IF Selected(a) THEN adRow[a] ELSE 0
      BY <1>7 DEF ReadAds, TypeOK, Loads
    <3> QED BY <2>1, <3>1, <3>2, <3>3 DEF LoadClean
  <2>2. load'.phase # "none"
    BY <1>7 DEF ReadAds, TypeOK, Loads
  <2>3. UNCHANGED <<siteRow, rotation, siteByDomain, op, shut>>
    BY <1>7 DEF ReadAds, dbVars, cacheVars
  <2> QED BY <2>1, <2>2, <2>3, CutOffRead
<1>8. CASE ReadSites
  <2>1. ASSUME NEW s \in Sites, Barring(s), LoadClean(s) PROVE LoadClean(s)'
    <3>1. load'.sites = siteRow /\ load'.copies = load.copies
      BY <1>8 DEF ReadSites, TypeOK, Loads
    <3> QED BY <2>1, <3>1 DEF LoadClean, Barring
  <2>2. load'.phase # "none"
    BY <1>8 DEF ReadSites, TypeOK, Loads
  <2>3. UNCHANGED <<siteRow, rotation, siteByDomain, op, shut>>
    BY <1>8 DEF ReadSites, dbVars, cacheVars
  <2> QED BY <2>1, <2>2, <2>3, CutOffRead
<1>9. CASE Swap
  <2>1. /\ load'.phase = "settled" /\ load'.copies = load.copies
        /\ load'.sites = load.sites
    BY <1>9 DEF Swap, TypeOK, Loads
  <2>2. \A s \in Sites : LoadClean(s) => LoadClean(s)' /\ CacheClean(s)'
    BY <1>9, <2>1 DEF Swap, LoadClean, CacheClean
  <2>3. \A g \in Handlers :
          /\ op'[g].kind = op[g].kind /\ op'[g].ids = op[g].ids
          /\ op'[g].cut = op[g].cut /\ op'[g].pc = op[g].pc
          /\ op[g].cut \subseteq Sites
    BY <1>9 DEF Swap, TypeOK, Ops
  <2>4. shut \subseteq Sites /\ UNCHANGED <<siteRow, shut>>
    BY <1>9 DEF TypeOK, Swap, dbVars
  <2> QED BY <2>1, <2>2, <2>3, <2>4 DEF CutOffInv, Barring
<1>10. CASE Fail
  <2>1. /\ load'.phase = "settled" /\ load'.copies = load.copies
        /\ load'.sites = load.sites
    BY <1>10 DEF Fail, TypeOK, Loads
  <2>2. UNCHANGED <<siteRow, rotation, siteByDomain, op, shut>>
    BY <1>10 DEF Fail, dbVars, cacheVars
  <2> QED BY <2>1, <2>2 DEF CutOffInv, Barring, LoadClean, CacheClean
<1>11. CASE Clear
  <2>1. \A s \in Sites : LoadClean(s)'
    BY <1>11 DEF Clear, LoadClean, NoLoad, EmptyRotation
  <2>2. \A g \in Handlers :
          /\ op'[g].kind = op[g].kind /\ op'[g].ids = op[g].ids
          /\ op'[g].cut = op[g].cut /\ op[g].cut \subseteq Sites
    BY <1>11 DEF Clear, Released, TypeOK, Ops
  <2>3. shut \subseteq Sites /\ UNCHANGED <<siteRow, shut, rotation, siteByDomain>>
    BY <1>11 DEF TypeOK, Clear, dbVars, cacheVars
  <2> QED BY <2>1, <2>2, <2>3 DEF CutOffInv, Barring, CacheClean
<1>12. ASSUME UNCHANGED <<siteRow, load, op, shut, rotation, siteByDomain>>
       PROVE  CutOffInv'
  BY <1>12 DEF CutOffInv, Barring, LoadClean, CacheClean
<1>13. ASSUME NEW src \in Sites, Serve(src) PROVE CutOffInv'
  BY <1>12, <1>13 DEF Serve, dbVars
<1>14. CASE Tick
  BY <1>12, <1>14 DEF Tick, dbVars, cacheVars
<1>15. CASE Age
  BY <1>12, <1>15 DEF Age, dbVars
<1>16. CASE UNCHANGED vars
  BY <1>12, <1>16 DEF vars, dbVars, cacheVars
<1> QED
  BY <1>1, <1>2, <1>3, <1>5, <1>6, <1>7, <1>8, <1>9, <1>10, <1>11, <1>13, <1>14,
     <1>15, <1>16 DEF Next, Handle

(* What the invariant keeps out of the arrays, nextAd cannot return. *)
LEMMA CutOffImplies == TypeOK /\ CutOffInv => CutOffSitesStayOut
<1> SUFFICES ASSUME TypeOK, CutOffInv, NEW src \in Sites
             PROVE  /\ \A a \in Served(src) : SiteOf[a] \notin shut
                    /\ src \in shut => Served(src) = {}
  BY DEF CutOffSitesStayOut
<1>1. ASSUME NEW a \in Served(src) PROVE SiteOf[a] \notin shut
  <2>1. PICK s \in Slots(rotation) : s[1] = a
    BY DEF Served, Chosen, Eligible, Foreign, Unexpired
  <2>2. a \in Ads /\ rotation[a] # 0
    BY <2>1 DEF Slots, TypeOK, Rotations
  <2> QED BY <2>2 DEF CutOffInv, CacheClean
<1>2. ASSUME src \in shut PROVE Served(src) = {}
  <2>1. ~SourceMayServe(src)
    BY <1>2 DEF CutOffInv, CacheClean, SourceMayServe, Barred, TypeOK, Time
  <2> QED BY <2>1 DEF Served
<1> QED BY <1>1, <1>2

(* A named invalidation is lasting: from the moment it has evicted the sites *)
(* its write cut off, however its reload ends and whatever load was in       *)
(* flight when it was called, the cache hands out none of their ads and      *)
(* serves them none until a later write admits them.                         *)
THEOREM CutOffSafe == Spec => []CutOffSitesStayOut
BY InitType, NextType, CutOffInit, CutOffNext, CutOffImplies, PTL DEF Spec

-----------------------------------------------------------------------------
(* What a handler that has returned knows *)

(* Why the joined load is one that covers the write: a handler resumed after *)
(* the load it waited for finds none, or one that began after its write.     *)
CoverInv ==
  /\ \A h \in Handlers :
       op[h].pc = "loading" =>
         Loading /\ (op[h].kind # "rebuild" => h \in load.covers)
  /\ \A h \in Handlers :
       op[h].pc = "resumed" /\ Loading => h \in load.covers
  /\ \A h \in load.covers :
       load.phase = "settled" /\ load.ok => op[h].covered
  /\ InvalidateCoversWrite

(* A cold process has no load and no handler. *)
LEMMA CoverInit == Init => CoverInv
BY DEF Init, CoverInv, InvalidateCoversWrite, Loading, NoLoad, IdleOp

(* A load that starts now covers every handler that has committed. *)
LEMMA StartedCovers ==
  /\ StartedLoad.phase = "reading"
  /\ \A h \in Handlers :
       op[h].pc \notin {"idle", "done"} => h \in StartedLoad.covers
  /\ StartedLoad.covers \subseteq Handlers
BY DEF StartedLoad, NoLoad

(* Joining or starting a load. *)
LEMMA CoverRefresh ==
  ASSUME TypeOK, CoverInv, ForceRefresh,
         \A g \in Handlers :
           /\ op'[g].kind = op[g].kind /\ op'[g].covered = op[g].covered
           /\ op'[g].ok = op[g].ok
           /\ op'[g].pc # op[g].pc =>
                /\ op'[g].pc = "loading" /\ op[g].pc \notin {"idle", "done"}
                /\ op[g].kind # "rebuild" => op[g].pc = "resumed" \/ ~Loading
  PROVE  CoverInv'
<1>1. CASE Loading
  <2>1. load' = load
    BY <1>1 DEF ForceRefresh
  <2>2. load.covers \subseteq Handlers
    BY DEF TypeOK, Loads
  <2>3. (\A h \in Handlers :
           op[h].pc = "loading" =>
             Loading /\ (op[h].kind # "rebuild" => h \in load.covers))'
    BY <1>1, <2>1 DEF CoverInv, Loading
  <2>4. (\A h \in Handlers :
           op[h].pc = "resumed" /\ Loading => h \in load.covers)'
    BY <1>1, <2>1 DEF CoverInv, Loading
  <2>5. (\A h \in load.covers :
           load.phase = "settled" /\ load.ok => op[h].covered)'
    BY <2>1, <2>2 DEF CoverInv
  <2>6. InvalidateCoversWrite'
    BY DEF CoverInv, InvalidateCoversWrite
  <2> QED BY <2>3, <2>4, <2>5, <2>6 DEF CoverInv
<1>2. CASE ~Loading
  <2>1. load' = StartedLoad
    BY <1>2 DEF ForceRefresh
  <2>2. load'.phase = "reading" /\ Loading'
    BY <2>1, StartedCovers DEF Loading
  <2>3. \A h \in Handlers : op'[h].pc \in {"loading", "resumed"} => h \in load'.covers
    BY <2>1, StartedCovers
  <2>4. InvalidateCoversWrite'
    BY DEF CoverInv, InvalidateCoversWrite
  <2> QED BY <2>2, <2>3, <2>4 DEF CoverInv
<1> QED BY <1>1, <1>2

(* Steps that change nothing of the handlers nor what a load covers. *)
LEMMA CoverKept ==
  ASSUME CoverInv, op' = op, load'.covers = load.covers,
         Loading' <=> Loading,
         load'.phase = "settled" /\ load'.ok => load.phase = "settled" /\ load.ok
  PROVE  CoverInv'
BY DEF CoverInv, InvalidateCoversWrite

(* A handler that commits a write begins uncovered by the load in flight. *)
LEMMA CoverBegin ==
  ASSUME TypeOK, CoverInv, NEW h \in Handlers, NEW kind, NEW ids, NEW cut,
         NEW admitted, Begin(h, kind, ids, cut, admitted)
  PROVE  CoverInv'
<1>1. \A g \in Handlers : g # h =>
        /\ op'[g].pc = op[g].pc /\ op'[g].kind = op[g].kind
        /\ op'[g].ok = op[g].ok /\ op'[g].covered = op[g].covered
  BY DEF Begin, Admit, TypeOK, Ops
<1>2. op'[h].pc = "committed"
  BY DEF Begin, Admit, IdleOp
<1>3. /\ load'.covers = load.covers \ {h} /\ load'.phase = load.phase
      /\ load'.ok = load.ok /\ load.covers \subseteq Handlers
  BY DEF Begin, TypeOK, Loads
<1>4. (\A g \in Handlers :
         op[g].pc = "loading" =>
           Loading /\ (op[g].kind # "rebuild" => g \in load.covers))'
  BY <1>1, <1>2, <1>3 DEF CoverInv, Loading
<1>5. (\A g \in Handlers :
         op[g].pc = "resumed" /\ Loading => g \in load.covers)'
  BY <1>1, <1>2, <1>3 DEF CoverInv, Loading
<1>6. (\A g \in load.covers :
         load.phase = "settled" /\ load.ok => op[g].covered)'
  BY <1>1, <1>3 DEF CoverInv
<1>7. InvalidateCoversWrite'
  BY <1>1, <1>2 DEF CoverInv, InvalidateCoversWrite
<1> QED BY <1>4, <1>5, <1>6, <1>7 DEF CoverInv

(* Every step keeps the invariant: one step of the proof per action. *)
LEMMA CoverNext == TypeOK /\ CoverInv /\ [Next]_vars => CoverInv'
<1> SUFFICES ASSUME TypeOK, CoverInv, [Next]_vars PROVE CoverInv'
  OBVIOUS
<1>1. ASSUME NEW h \in Handlers, Write(h) PROVE CoverInv'
  <2>1. PICK kind, ids, cut, admitted : Begin(h, kind, ids, cut, admitted)
    BY <1>1 DEF Write, WriteSites, WriteAd, NoWrite
  <2> QED BY <2>1, CoverBegin
<1>2. ASSUME NEW h \in Handlers, Invalidate(h) PROVE CoverInv'
  <2>1. CASE MustWait
    <3>1. /\ \A g \in Handlers :
               /\ op'[g].pc = op[g].pc \/ op'[g].pc = "waiting"
               /\ op'[g].kind = op[g].kind /\ op'[g].ok = op[g].ok
               /\ op'[g].covered = op[g].covered
          /\ load' = load /\ load.covers \subseteq Handlers
      BY <1>2, <2>1 DEF Invalidate, TypeOK, Ops, Loads
    <3> QED BY <3>1 DEF CoverInv, InvalidateCoversWrite, Loading
  <2>2. CASE ~MustWait
    <3>1. ForceRefresh /\ op' = [op EXCEPT ![h].pc = "loading"]
      BY <1>2, <2>2 DEF Invalidate, EvictAndReload
    <3>2. \A g \in Handlers :
            /\ op'[g].kind = op[g].kind /\ op'[g].covered = op[g].covered
            /\ op'[g].ok = op[g].ok
            /\ op'[g].pc # op[g].pc =>
                 /\ op'[g].pc = "loading" /\ op[g].pc = "committed"
      BY <1>2, <3>1 DEF Invalidate, TypeOK, Ops
    <3>3. ~Loading
      BY <2>2 DEF MustWait
    <3> QED BY <3>1, <3>2, <3>3, CoverRefresh
  <2> QED BY <2>1, <2>2
<1>3. ASSUME NEW h \in Handlers, Resume(h) PROVE CoverInv'
  <2>1. ForceRefresh /\ op' = [op EXCEPT ![h].pc = "loading"]
    BY <1>3 DEF Resume, EvictAndReload
  <2>2. \A g \in Handlers :
          /\ op'[g].kind = op[g].kind /\ op'[g].covered = op[g].covered
          /\ op'[g].ok = op[g].ok
          /\ op'[g].pc # op[g].pc =>
               op'[g].pc = "loading" /\ op[g].pc = "resumed"
    BY <1>3, <2>1 DEF Resume, TypeOK, Ops
  <2> QED BY <2>1, <2>2, CoverRefresh
<1>4. ASSUME NEW h \in Handlers, RebuildNow(h) PROVE CoverInv'
  <2>1. ForceRefresh /\ op' = [op EXCEPT ![h].pc = "loading"]
    BY <1>4 DEF RebuildNow
  <2>2. \A g \in Handlers :
          /\ op'[g].kind = op[g].kind /\ op'[g].covered = op[g].covered
          /\ op'[g].ok = op[g].ok
          /\ op'[g].pc # op[g].pc =>
               /\ op'[g].pc = "loading" /\ op[g].pc = "committed"
               /\ op[g].kind = "rebuild"
    BY <1>4, <2>1 DEF RebuildNow, TypeOK, Ops
  <2> QED BY <2>1, <2>2, CoverRefresh
<1>5. CASE Timer
  <2>1. ForceRefresh /\ op' = op
    BY <1>5 DEF Timer, ForceRefresh
  <2> QED BY <2>1, CoverRefresh
<1>6. CASE ReadAds \/ ReadSites
  <2>1. /\ op' = op /\ load'.covers = load.covers
        /\ load'.phase = load.phase /\ load'.ok = load.ok
    BY <1>6 DEF ReadAds, ReadSites, TypeOK, Loads
  <2> QED BY <2>1, CoverKept DEF Loading
<1>7. CASE Swap
  <2>1. /\ load'.covers = load.covers /\ load.covers \subseteq Handlers
        /\ Loading /\ Loading'
    BY <1>7 DEF Swap, TypeOK, Loads, Loading
  <2>2. \A g \in Handlers :
          /\ op'[g].pc = op[g].pc /\ op'[g].kind = op[g].kind
          /\ op'[g].ok = op[g].ok
          /\ op[g].covered => op'[g].covered
          /\ g \in load.covers => op'[g].covered
    BY <1>7 DEF Swap, TypeOK, Ops
  <2> QED BY <2>1, <2>2 DEF CoverInv, InvalidateCoversWrite
<1>8. CASE Fail
  <2>1. /\ op' = op /\ load'.covers = load.covers /\ ~load'.ok
        /\ Loading /\ Loading'
    BY <1>8 DEF Fail, TypeOK, Loads, Loading
  <2> QED BY <2>1, CoverKept
<1>9. CASE Clear
  <2>1. ~Loading' /\ load'.covers = {} /\ load.phase = "settled"
    BY <1>9 DEF Clear, NoLoad, Loading
  <2>2. \A g \in Handlers :
          /\ op'[g].pc \notin {"loading", "waiting"}
          /\ op'[g].kind = op[g].kind /\ op'[g].covered = op[g].covered
          /\ op[g].pc # "loading" /\ op'[g].pc = "done" =>
               op[g].pc = "done" /\ op'[g].ok = op[g].ok
          /\ op[g].pc = "loading" => op'[g].ok = load.ok
    BY <1>9 DEF Clear, Released, TypeOK, Ops
  <2>3. InvalidateCoversWrite'
    BY <2>1, <2>2 DEF CoverInv, InvalidateCoversWrite
  <2> QED BY <2>1, <2>2, <2>3 DEF CoverInv
<1>10. ASSUME op' = op, load' = load PROVE CoverInv'
  BY <1>10 DEF CoverInv, InvalidateCoversWrite, Loading
<1>11. ASSUME NEW src \in Sites, Serve(src) PROVE CoverInv'
  BY <1>10, <1>11 DEF Serve
<1>12. CASE Tick \/ Age \/ UNCHANGED vars
  BY <1>10, <1>12 DEF Tick, Age, vars
<1> QED
  BY <1>1, <1>2, <1>3, <1>4, <1>5, <1>6, <1>7, <1>8, <1>9, <1>11, <1>12
  DEF Next, Handle

(* An invalidate that returns without an error has covered its write: a load *)
(* that began after the commit has been swapped in, however many handlers    *)
(* wait for, start and join loads at the same time.                          *)
THEOREM InvalidateCovers == Spec => []InvalidateCoversWrite
<1>1. Init => TypeOK /\ CoverInv
  BY InitType, CoverInit
<1>2. TypeOK /\ CoverInv /\ [Next]_vars => TypeOK' /\ CoverInv'
  BY NextType, CoverNext
<1>3. CoverInv => InvalidateCoversWrite
  BY DEF CoverInv
<1> QED BY <1>1, <1>2, <1>3, PTL DEF Spec
=============================================================================
