--------------------------- MODULE RotationCache ----------------------------
(***************************************************************************)
(* The in-memory rotation cache of the ad server                           *)
(* (src/services/rotationCache.ts), the database rows it is built from,    *)
(* the request handlers that write those rows and then call                *)
(* rotationCache.invalidate or rebuildNow, the periodic refresh timer, and *)
(* ad serving (src/services/serveService.ts).                              *)
(*                                                                         *)
(* The process is single-threaded: an action is the code between two       *)
(* awaits.  A handler's write commits in the database before its           *)
(* continuation runs, so the commit and the call of invalidate are two     *)
(* steps.  serveCommunityAd's one await (of the already resolved snapshot) *)
(* is a microtask hop in which no other task runs, so a serve is one step. *)
(***************************************************************************)
EXTENDS Rotation

CONSTANTS
  Handlers,   \* request handlers in progress at the same time
  MaxTime,    \* bound of the deadlines
  MaxNow,     \* bound of the clock they are compared with
  MaxWrites   \* bound on the writes the handlers make

ASSUME MaxTimeAssumption == MaxTime \in Nat /\ MaxNow \in 0 .. MaxTime
ASSUME MaxWritesAssumption == MaxWrites \in Nat

VARIABLES
  siteRow,      \* DB: per site, its networkAccessUntil; Barred (0) if it has
                \*     none, or is not optedIn, ACTIVE and in TRIAL or ACTIVE
  adRow,        \* DB: per ad, its copies if its status is ACTIVE, else 0
  rotation,     \* state.ads, as copies per ad
  deadline,     \* the networkAccessUntil cached with each ad
  siteByDomain, \* state.siteByDomain; a missing entry is Barred
  refreshedAt,  \* state.refreshedAt: 0, less than a TTL ago, or longer ago
  cursor,       \* state.cursor
  load,         \* state.loading and what its queries have returned
  op,           \* the handler running in each slot
  now,          \* Date.now()
  writes,       \* number of handlers begun so far (bound only)
  shut          \* history: sites cut off by a named invalidation that has
                \* evicted them, and not admitted again since

dbVars == <<siteRow, adRow>>
cacheVars == <<rotation, deadline, siteByDomain, refreshedAt, cursor>>
vars == <<dbVars, cacheVars, load, op, now, writes, shut>>

Time == 0 .. MaxTime
Barred == 0
Kinds == {"named", "blanket", "rebuild"}

Loads ==
  [phase : {"none", "reading", "settled"},
   at : Time,                    \* the `now` its query compares deadlines with
   gotAds : BOOLEAN, copies : Rotations, until : [Ads -> Time],
   gotSites : BOOLEAN, sites : [Sites -> Time],
   ok : BOOLEAN,                 \* fulfilled or rejected, once settled
   covers : SUBSET Handlers]     \* history: writes committed before it began

Ops ==
  [pc : {"idle", "committed", "waiting", "resumed", "loading", "done"},
   kind : Kinds,
   ids : SUBSET Sites,           \* the ids given to invalidate
   ok : BOOLEAN,                 \* did the handler return without an error
   cut : SUBSET Sites,           \* history: sites its write made ineligible,
                                 \* and no later write made eligible
   covered : BOOLEAN]            \* history: a load that began after the write
                                 \* has been swapped in

TypeOK ==
  /\ siteRow \in [Sites -> Time]
  /\ adRow \in Rotations
  /\ rotation \in Rotations
  /\ deadline \in [Ads -> Time]
  /\ siteByDomain \in [Sites -> Time]
  /\ refreshedAt \in {"never", "fresh", "expired"}
  /\ cursor \in 0 .. NumAds * MaxCopies
  /\ load \in Loads
  /\ op \in [Handlers -> Ops]
  /\ now \in Time
  /\ writes \in Nat
  /\ shut \in SUBSET Sites

NoLoad ==
  [phase |-> "none", at |-> 0,
   gotAds |-> FALSE, copies |-> EmptyRotation, until |-> [a \in Ads |-> 0],
   gotSites |-> FALSE, sites |-> [s \in Sites |-> Barred],
   ok |-> FALSE, covers |-> {}]

IdleOp ==
  [pc |-> "idle", kind |-> "blanket", ids |-> {}, ok |-> FALSE,
   cut |-> {}, covered |-> FALSE]

(* A cold process over any database content. *)
Init ==
  /\ siteRow \in [Sites -> Time]
  /\ adRow \in Rotations
  /\ rotation = EmptyRotation
  /\ deadline = [a \in Ads |-> 0]
  /\ siteByDomain = [s \in Sites |-> Barred]
  /\ refreshedAt = "never"
  /\ cursor = 0
  /\ load = NoLoad
  /\ op = [h \in Handlers |-> IdleOp]
  /\ now = 0
  /\ writes = 0
  /\ shut = {}

-----------------------------------------------------------------------------
(* Loading: refreshRotationCache and doRefresh *)

Loading == load.phase # "none"

(* doRefresh is called: its first statements run, both queries are issued. *)
StartedLoad ==
  [NoLoad EXCEPT !.phase = "reading", !.at = now,
     !.covers = {h \in Handlers : op[h].pc \notin {"idle", "done"}}]

(* refreshRotationCache({ force: true }): join the load in flight, if any. *)
ForceRefresh == load' = IF Loading THEN load ELSE StartedLoad

(* Mutant: warm() reloads only a cache that is marked stale. *)
TimerWhenMarked ==
  /\ refreshedAt = "never"
  /\ ~Loading
  /\ load' = StartedLoad
  /\ UNCHANGED <<dbVars, cacheVars, op, now, writes, shut>>

(* The periodic warm(): no force, so a fresh cache is left alone. *)
Timer ==
  /\ refreshedAt # "fresh"
  /\ ~Loading
  /\ load' = StartedLoad
  /\ UNCHANGED <<dbVars, cacheVars, op, now, writes, shut>>

(* An ad is selected if it is ACTIVE and its site may use the network. *)
Selected(a) == siteRow[SiteOf[a]] > load.at

(* The two queries of Promise.all return in either order, each reading the  *)
(* rows committed at that moment.                                           *)
ReadAds ==
  /\ load.phase = "reading"
  /\ ~load.gotAds
  /\ load' = [load EXCEPT
       !.gotAds = TRUE,
       !.copies = [a \in Ads |-> IF Selected(a) THEN adRow[a] ELSE 0],
       !.until = [a \in Ads |-> IF Selected(a) /\ adRow[a] > 0
                                  THEN siteRow[SiteOf[a]] ELSE 0]]
  /\ UNCHANGED <<dbVars, cacheVars, op, now, writes, shut>>

ReadSites ==
  /\ load.phase = "reading"
  /\ ~load.gotSites
  /\ load' = [load EXCEPT !.gotSites = TRUE, !.sites = siteRow]
  /\ UNCHANGED <<dbVars, cacheVars, op, now, writes, shut>>

(* Both queries are back: the new structures replace the live state. *)
Swap ==
  /\ load.phase = "reading"
  /\ load.gotAds /\ load.gotSites
  /\ rotation' = load.copies
  /\ deadline' = load.until
  /\ siteByDomain' = load.sites
  /\ cursor' = IF Size(load.copies) = 0 THEN 0 ELSE cursor % Size(load.copies)
  /\ refreshedAt' = "fresh"
  /\ load' = [load EXCEPT !.phase = "settled", !.ok = TRUE]
  /\ op' = [h \in Handlers |->
              [op[h] EXCEPT !.covered = @ \/ h \in load.covers]]
  /\ UNCHANGED <<dbVars, now, writes, shut>>

(* A query rejects: the previous cache is kept and the error is rethrown. *)
Fail ==
  /\ load.phase = "reading"
  /\ load' = [load EXCEPT !.phase = "settled", !.ok = FALSE]
  /\ UNCHANGED <<dbVars, cacheVars, op, now, writes, shut>>

(* What the load's end is to a handler: a waiting invalidate is resumed and  *)
(* ignores how the load ended; a handler that awaits the reload itself       *)
(* returns, or fails with the load's error.                                  *)
Released(h) ==
  CASE op[h].pc = "waiting" -> [op[h] EXCEPT !.pc = "resumed"]
    [] op[h].pc = "loading" -> [op[h] EXCEPT !.pc = "done", !.ok = load.ok]
    [] OTHER -> op[h]

(* Mutant: then() instead of finally(), a rejected load is never cleared. *)
ClearOnSuccess ==
  /\ load.phase = "settled"
  /\ load.ok
  /\ load' = NoLoad
  /\ op' = [h \in Handlers |-> Released(h)]
  /\ UNCHANGED <<dbVars, cacheVars, now, writes, shut>>

(* finally: loading is cleared, and whoever awaits the promise goes on. *)
Clear ==
  /\ load.phase = "settled"
  /\ load' = NoLoad
  /\ op' = [h \in Handlers |-> Released(h)]
  /\ UNCHANGED <<dbVars, cacheVars, now, writes, shut>>

-----------------------------------------------------------------------------
(* Handlers: a committed write, then invalidate or rebuildNow *)

Admit(S) == [h \in Handlers |-> [op[h] EXCEPT !.cut = @ \ S]]

Begin(h, kind, ids, cut, admitted) ==
  /\ op[h].pc \in {"idle", "done"}
  /\ writes < MaxWrites
  /\ writes' = writes + 1
  /\ op' = [Admit(admitted) EXCEPT
       ![h] = [IdleOp EXCEPT !.pc = "committed", !.kind = kind, !.ids = ids,
                             !.cut = cut]]
  /\ load' = [load EXCEPT !.covers = @ \ {h}]
  /\ shut' = shut \ admitted
  /\ UNCHANGED <<cacheVars, now>>

(* One transaction gives the sites S this deadline: suspend, revoke, forceOptOut, *)
(* grantPro, extendTrial, startTrial and the Stripe handlers name the sites  *)
(* they changed (named); setOptIn, registerSite, activateLicense and         *)
(* expireDueEntitlements call invalidate() (blanket); the soft-launch seed   *)
(* calls rebuildNow (rebuild).                                               *)
WriteSites(h, S, row, kind) ==
  /\ siteRow' = [s \in Sites |-> IF s \in S THEN row ELSE siteRow[s]]
  /\ adRow' = adRow
  /\ Begin(h, kind, IF kind = "named" THEN S ELSE {},
           IF row = Barred THEN S ELSE {}, IF row = Barred THEN {} ELSE S)

(* setAdStatus names the ad's site; upsertSiteAd calls invalidate(). *)
WriteAd(h, a, copies, kind) ==
  /\ adRow' = [adRow EXCEPT ![a] = copies]
  /\ siteRow' = siteRow
  /\ Begin(h, kind, IF kind = "named" THEN {SiteOf[a]} ELSE {}, {}, {})

(* A handler that writes nothing: POST /admin/cache/rebuild, and a Stripe    *)
(* event delivered again, which repeats the invalidation of its sites.       *)
NoWrite(h, S, kind) ==
  /\ kind # "blanket"
  /\ UNCHANGED dbVars
  /\ Begin(h, kind, IF kind = "named" THEN S ELSE {}, {}, {})

(* Mutant: the await of a load in flight is dropped. *)
MustNotWait == FALSE

MustWait == Loading

(* The rest of invalidate after its await, up to the await of the reload. *)
EvictAndReload(h) ==
  /\ rotation' = Without(rotation, op[h].ids)
  /\ siteByDomain' =
       [s \in Sites |-> IF s \in op[h].ids THEN Barred ELSE siteByDomain[s]]
  /\ ForceRefresh
  /\ op' = [op EXCEPT ![h].pc = "loading"]
  /\ shut' = IF op[h].kind = "named" THEN shut \cup op[h].cut ELSE shut

(* invalidate is called: the cache is marked stale, a load in flight is     *)
(* awaited before anything is evicted.                                      *)
Invalidate(h) ==
  /\ op[h].pc = "committed"
  /\ op[h].kind # "rebuild"
  /\ refreshedAt' = "never"
  /\ IF MustWait
       THEN /\ op' = [op EXCEPT ![h].pc = "waiting"]
            /\ UNCHANGED <<rotation, siteByDomain, load, shut>>
       ELSE EvictAndReload(h)
  /\ UNCHANGED <<dbVars, deadline, cursor, now, writes>>

Resume(h) ==
  /\ op[h].pc = "resumed"
  /\ EvictAndReload(h)
  /\ UNCHANGED <<dbVars, deadline, refreshedAt, cursor, now, writes>>

RebuildNow(h) ==
  /\ op[h].pc = "committed"
  /\ op[h].kind = "rebuild"
  /\ ForceRefresh
  /\ op' = [op EXCEPT ![h].pc = "loading"]
  /\ UNCHANGED <<dbVars, cacheVars, now, writes, shut>>

-----------------------------------------------------------------------------
(* Serving, and time *)

(* serveCommunityAd's checks of the cached row of the requesting site. *)
SourceMayServe(src) == siteByDomain[src] > now

(* The ad the site src would be answered with now; none: 204. *)
Served(src) ==
  {s[1] : s \in {c \in Chosen(rotation, deadline, now, src, cursor) :
                   SourceMayServe(src)}}

(* What is kept of an answer is the cursor: nextAd advances it, also when it *)
(* finds nothing; a source that may not serve does not reach nextAd.         *)
Serve(src) ==
  /\ SourceMayServe(src)
  /\ cursor' = CursorAfter(rotation, deadline, now, src, cursor)
  /\ UNCHANGED <<dbVars, rotation, deadline, siteByDomain, refreshedAt, load,
                 op, now, writes, shut>>

Tick ==
  /\ now < MaxNow
  /\ now' = now + 1
  /\ UNCHANGED <<dbVars, cacheVars, load, op, writes, shut>>

(* More than rotationCacheTtlMs since the last swap. *)
Age ==
  /\ refreshedAt = "fresh"
  /\ refreshedAt' = "expired"
  /\ UNCHANGED <<dbVars, rotation, deadline, siteByDomain, cursor, load, op,
                 now, writes, shut>>

-----------------------------------------------------------------------------
Write(h) ==
  \E kind \in Kinds :
    \/ \E S \in SUBSET Sites \ {{}}, row \in Time : WriteSites(h, S, row, kind)
    \/ \E a \in Ads, c \in 0 .. MaxCopies : WriteAd(h, a, c, kind)
    \/ \E S \in SUBSET Sites : NoWrite(h, S, kind)

Handle(h) == Invalidate(h) \/ Resume(h) \/ RebuildNow(h)

Next ==
  \/ \E h \in Handlers : Write(h) \/ Handle(h)
  \/ Timer \/ ReadAds \/ ReadSites \/ Swap \/ Fail \/ Clear
  \/ \E src \in Sites : Serve(src)
  \/ Tick \/ Age

Spec == Init /\ [][Next]_vars

(* Queries return, resumed continuations run and the timers fire; the        *)
(* database does not fail for ever.                                          *)
Fairness ==
  /\ WF_vars(ReadAds) /\ WF_vars(ReadSites) /\ WF_vars(Swap) /\ WF_vars(Clear)
  /\ WF_vars(Timer) /\ WF_vars(Age)
  /\ \A h \in Handlers : WF_vars(Handle(h))
  /\ <>[][~Fail]_vars

FairSpec == Spec /\ Fairness

-----------------------------------------------------------------------------
(* Properties *)

(* Once invalidate(ids), called after a write that cut a site off, has       *)
(* evicted the site, none of its ads is served and it is served none, until  *)
(* a later write admits it again: not from the old rotation, and not from a  *)
(* load whose queries ran before the write, whatever fails afterwards        *)
(* (rotationCache.ts:65-78).                                                 *)
CutOffSitesStayOut ==
  \A src \in Sites :
    /\ \A a \in Served(src) : SiteOf[a] \notin shut
    /\ src \in shut => Served(src) = {}

(* A handler that returns without an error after invalidate has had its      *)
(* write read by a load and swapped in, even when it joined a load in flight *)
(* (rotationCache.ts:68, 77).                                                *)
InvalidateCoversWrite ==
  \A h \in Handlers :
    op[h].pc = "done" /\ op[h].ok /\ op[h].kind # "rebuild" => op[h].covered

(* A write invalidates the cache immediately: when its handler has returned, *)
(* with or without an error, an ad of a site it cut off is not served.       *)
WritesInvalidateImmediately ==
  \A h \in Handlers, src \in Sites :
    op[h].pc = "done" /\ op[h].kind # "rebuild" =>
      \A a \in Served(src) : SiteOf[a] \notin op[h].cut

(* What nextAd may hand out is what the database says may be handed out. *)
Servable(a) == rotation[a] > 0 /\ deadline[a] > now
Offered(a) == /\ adRow[a] > 0
              /\ siteRow[SiteOf[a]] > now
CacheMatchesDatabase ==
  /\ \A a \in Ads : Servable(a) <=> Offered(a)
  /\ \A a \in Ads : Servable(a) => rotation[a] = adRow[a]
  /\ \A s \in Sites : SourceMayServe(s) <=> siteRow[s] > now

(* However loads fail, invalidations race and refreshes are lost, when the   *)
(* writes stop the cache comes to agree with the database and stays so.      *)
CacheConverges == <>[]CacheMatchesDatabase

(* No invalidate or rebuildNow waits for ever on a load of another. *)
HandlersReturn ==
  \A h \in Handlers : op[h].pc = "committed" ~> op[h].pc \in {"idle", "done"}
=============================================================================
