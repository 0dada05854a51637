# A verification model of the ad network

This directory holds TLA+ modules, TLC configurations and TLAPS proofs about
the code of this repository: the ad server (`src/`, a single Node process over
MySQL), the WordPress plugin (`wp-advertising/`) and the admin client
(`wp-advertising-admin/`). Paths below are relative to the repository's root.

1. The system: components, state, interactions, what is hard
2. What is modelled: modules and their correspondence to the code
3. The runs: what each checks, its bounds, its fairness
4. What is proved, and how
5. Where the code and its documents disagree
6. What is not modelled, and the plan

## 1. The system

### Components

| Component | State | Operations | Correct when |
|---|---|---|---|
| Rotation cache `src/services/rotationCache.ts` | `ads` (weighted copies), `siteByDomain`, `adById`, `refreshedAt`, `cursor`, `loading` | `warm` (timer), `invalidate`, `rebuildNow`, `nextAd`, a load with two concurrent queries | a site cut off stays out; a returned invalidation is in effect; the cache converges to the database; the turns of the ads are fair |
| Ad serving `src/services/serveService.ts` | the cursor, the event queue | `GET /community/serve` | serves only to and from sites with network access |
| Event queue `src/services/eventQueue.ts` | `queue`, `flushing`, the counters of `status()` | `push`, timed, full-batch and draining flushes, requeue after a failure | bounded; each event is counted once or reported dropped; nothing stays for ever |
| Server lifecycle `src/server.ts` | `shuttingDown`, timers | start, shutdown on a signal or an uncaught error, forced exit | queued events are flushed before a clean exit |
| Entitlement lifecycle `entitlementService.ts`, `licenseActivationService.ts`, `adminService.ts`, `siteService.ts`, `softLaunchSeed.ts` | rows of `CommunitySite`, `License`, `LicenseActivation` | opt in and out, trial, validation, activation, expiry sweep, extension, grant, suspension, revocation, demonstration sites | one trial per site; a trial overwrites nothing; activations bounded; lapsed access is marked |
| Registration and ads `siteService.ts`, `adService.ts` | rows of `CommunitySite`, `CommunityAd`, `BlockedDomain` | register, submit an ad, moderate | a lost race can be retried; one ad per site but for races |
| Stripe billing `stripeEventHandlers.ts`, `stripeWebhook.ts` | `License`, `StripeEvent`, customer locks | webhooks, reconciliation, grace of a failed payment | the rows follow Stripe whatever the order and number of deliveries; one grace per delinquency |
| Checkout and settings `checkoutService.ts`, `billingConfigService.ts` | `BillingConfig`, Stripe's idempotency keys | save, import, checkout | a key names one request; an import undoes nothing |
| Rate limiter `middleware/rateLimit.ts` | map of buckets | one check per request, sweep | at most `max` requests per window; the map is bounded |
| Forum `forumService.ts`, `forumSeed.ts`, `communityAuthService.ts`, `communitySession.ts` | users, sessions, posts, comments | register, log in and out, seed, post, comment, moderate, bar | bars and locks take hold; flags hold; the seed is there once and whole |
| Admin client `wp-advertising-admin/src` | two cookies in the browser | log in and out, pages, buttons | redirections end |
| Plugin's ad form `assets/admin.js`, development reload `devReload.ts` | timers and requests in a browser | search, select, refresh; poll, reload | the last term is searched for; a page catches up |
| Plugin: community ad cache `class-wpa-repository.php` | WordPress options: the cached record, the refresh lock (or an object cache's entry) | fresh, stale and cold reads, refresh under a lock with theft, back-off, deferral to cron | one refresh at a time; a lock left behind does not stop refreshes |
| Plugin: license `class-wpa-license.php` | WordPress options: status, deadline, next check, the community switch | activate, validate, checkout, trial, cron | the site comes to hold what the server holds |
| Plugin: events, placements, installer, rendering | WordPress tables | impressions and clicks, reports, forms, schema | one event per window |
| Reading pages, routing, configuration, scripts | none of their own | queries and rendering | |

### How they interact

* Request handlers write rows and then call `rotationCache.invalidate(ids?)`:
  with the ids of the sites changed (suspend, revoke, force opt-out, grant,
  extend, start of a trial, Stripe), or without (opt in and out, registration,
  license activation, expiry sweep, ad upsert). The soft-launch seed and
  `POST /admin/cache/rebuild` call `rebuildNow`.
* `GET /community/serve` reads the cache only, advances its cursor and pushes
  an impression to the event queue; event routes push, `POST
  /admin/events/flush` drains.
* Shutdown stops the server, then the timers, then drains the event queue.
* The plugin asks `/community/serve` under its refresh lock and keeps the
  answer; the license client asks `/entitlements/*`.
* Stripe calls the webhook; a reconciliation reads subscriptions back. Both
  end in `rotationCache.invalidate` with the sites concerned, after the commit.
* The plugin registers a site, asks for a trial, activates a license and opts
  in; a purchase may create the site, its license and its activation instead.
* The operator acts through the admin client, whose server turns each page and
  button into one call of the ad server with the token of the session cookie.

### What is hard

The server runs one thread, so the only interleavings are at `await`s, and
they are where its difficulty lies: a load's two queries read rows at different
moments and are swapped in much later; an invalidation may have to wait for a
load that is older than the write it is for; any load may fail and keep the
previous cache; flushes fail half way, requeue in front of new pushes, or commit
and lose the answer; a draining flush meets one in flight. Request
handlers read a row, decide, and write it some queries later; two transactions
of Stripe synchronisations lock each other's sites; a server starts while
another is still serving. In the browsers, several tabs share cookies and
answers come in any order. `PROJECT.json`
lists the hazards one by one with the line at which each bites and the
properties that would catch it, or says why none does.

## 2. What is modelled

| Module | Models | Role |
|---|---|---|
| `Rotation` | the weighted array as data, `nextAd`'s choice | operators and constants, no state |
| `RotationCache` | `rotationCache.ts`, `serveService.ts`, the writes of all handlers | the cache against the database |
| `NextAd` | the loop of `nextAd` over array indices, the array's construction | shows that `Rotation` says what the loop does |
| `EventLedger` | what the event queue promises | abstract specification |
| `EventQueue` | `eventQueue.ts`, its callers, shutdown of `server.ts` | implements `EventLedger` |
| `Access` | the rows of sites and licenses, and the conditions on them | operators shared by `Entitlements` and `BillingSync` |
| `Entitlements` | trials, validation, activation, opting, the operator, the sweep | query by query |
| `BillingLedger` | what synchronising promises | abstract specification |
| `BillingSync` | `stripeEventHandlers.ts` from the webhook to its answer | implements `BillingLedger` |
| `Grace` | `billingWindow` and the questions to Stripe before it | one subscription over time |
| `Registration` | `registerSite`, the site a purchase creates, `upsertSiteAd`, `setAdStatus` | unique keys against lookups |
| `Checkout` | settings and checkout sessions | one row, and Stripe's keys |
| `Forum` | accounts, sessions, posts, moderation | looks and writes |
| `Startup` | `server.ts` up to `listen`, `forumSeed.ts`, restarts | two servers, one database |
| `RateLimit` | `rateLimit.ts` | buckets over time |
| `AdminClient` | `wp-advertising-admin/src` | one browser, several tabs |
| `AdminScript`, `DevReload` | `assets/admin.js`, `devReload.ts` | a page's timers and requests |
| `PluginCache` | the cached ad of `class-wpa-repository.php` and its lock | several PHP processes, one options table |
| `PluginLicense` | the stored entitlement of `class-wpa-license.php` | several PHP processes, option by option |
| `*Proofs` | | theorems |
| `MCRotationCache`, `MCEventQueue`, `MCEntitlements`, `MCGrace`, `MCBilling` | | instances for TLC |
| `Requests`, `Edges` | | six and seven parts that share no state, one at a time, with the assumptions on their constants |
| `MCRequests`, `MCEdges` | | instances of those two for TLC |

### Rotation and RotationCache

An action is the code between two awaits. `refreshRotationCache` and `doRefresh`
are `Timer` / `ForceRefresh` (which begin a load or join one), `ReadAds`,
`ReadSites` (the two queries of `Promise.all`, in either order, each seeing the
rows committed then), `Swap` (the synchronous replacement of the live state),
`Fail` (the catch: the previous cache is kept) and `Clear` (the `finally`, and
the continuations of those who awaited the promise). A handler's commit is
`Write(h)`; its call of `invalidate` is a step of its own, `Invalidate(h)`,
because the commit happens in the database while the process goes on. Where a
load is in flight, `invalidate` marks the cache stale and waits (`Resume(h)` is
the rest). `RebuildNow(h)` joins a load in flight, as the code does.

Abstractions: a site's row is its `networkAccessUntil`, 0 (`Barred`) where it has
none or fails one of the row's other conditions (opted in, ACTIVE, TRIAL or ACTIVE
network status); an ad's row is its number of copies, 0 unless ACTIVE.
The deadline is compared with a clock `now`. Dates are small naturals. An ad is
named by its rank in creation order, so the array is determined by the number
of copies of each ad: `rotation` is a function, and a slot `<<a, c>>` is the
c-th copy of ad a. `Chosen` and `CursorAfter` say what `nextAd` returns
from it; that this is what the loop does is checked by `NextAd` and proved (`LoopIsTheRotation`, `ArrayIsARotation`); its state
is the array itself with the clamp of weights, the modular cursor that an
eviction may leave beyond the end, and the first self-ad as fallback; `Attempt` is
one pass of its loop. Any write
may follow any other: the rules that limit them (no trial twice, and so on)
are the subject of `Entitlements` and `BillingSync`, and what is shown of the cache
holds for every sequence of writes. `shut`, `cut`, `covers`, `covered` and `ok` are
history that no action reads, except where one of them is copied into another.

`refreshedAt` keeps the three cases its readers tell apart: 0, within the TTL,
older. Serving is one step, for its single `await` is of a resolved promise.

### EventLedger and EventQueue

Events are numbered as they are accepted. `Accept` and `Refuse` are the two
outcomes of `push` (the former starts a flush when it completes a batch),
`Timer` is the interval's flush, `AdminFlush(a)` the admin route's; all go
through `FlushEvents`, whose early return (a flush in flight, an empty queue) is
`NothingToDo`. `writeBatch` is two steps, `Commit` in the database and the
answer: `Flushed`, which starts the next batch of a drain at once as the
recursion does, or `Failed`, which requeues what there is room for and drops the
rest. `Failed` may follow `Commit`: then the answer was lost, and the events
are recorded twice; the bound `MaxLostAcks` limits that. `Terminate`, `Closed`,
`Exit` and `ForceExit` are the shutdown. Once `server.close` has called back no
request is running, so nothing is pushed any more (`Serving`).

`EventLedger` is the promise when no answer is lost: an accepted event is
recorded once, in order of acceptance, or lost, and those lost together are
consecutive. `pending` is refined by batch and queue before the commit and by
the queue after it.

Abstractions: an event is its number, and the rollup rows `writeBatch`
upserts are the sequence of events counted in them.

### Access and Entitlements

A site's row is `networkStatus`, whether `networkTrialStartedAt` is set,
`networkAccessUntil` and `optedIn`; a license's `status` and `expiresAt`. A
request holds a slot of `Requests` and remembers what it has read (`row`, `at`,
`until`); each awaited query is a step. `Authenticate` reads the row and
the clock; `MarkExpired` writes EXPIRED from it, which may by then be stale;
`AllocateTrial` is the update that compares the row with what was read
(`Unchanged`), `TrialConflict` its P2025, `AnswerConflict` the second look.
`ReadLicense`, `FindExisting`, `CountActivations`, `UpsertActivation` and `AdmitActivated` are
the queries of `activateLicense`. The operator's single updates (`Suspend`,
`Revoke`, `OptOut`, `ResetActivations`), the soft-launch seed's (`SeedSite`)
and the site's own opting out, which writes what `OptOut` writes, are one
step each. The sweep is two updates that compare
with one instant (`SweepLicenses`, `SweepSites`). `Synchronise` is a
whole synchronisation, opened by `BillingSync`. The invalidations that end
handlers are `RotationCache`'s subject; `lastSeenAt` and the like are left out.

### Grace

Stripe (external) renews with a draft invoice, opens it, tries payment, is
paid or gives up; `FetchSubscription` and `WriteLicense` are the two
questions of a synchronisation (subscription with its latest invoice; last paid invoice)
with the write of the license. Terms follow `billingWindow`: `Terminal`,
`Failing`, `Grace`, `Expiry`, `WindowStatus`. Days, periods and seconds are small
naturals. `first`, `promised` and `forgot` are history: when the first unpaid renewal
was finalised (the latest, as long as no failure is recorded), the deadline first given for it, and
whether a synchronisation has dropped that deadline since.

### BillingLedger and BillingSync

A subscription's states are numbered, and an event reports one. `Begin`
is the start of a webhook (`Deliver`, any event at any time, any number of
times) or a reconciliation; `TakeLock` takes the customer's lock
in a transaction, finds the receipt or asks Stripe for the state of now; `WriteLicense`
updates or creates the license (and, a first time, its activation, which holds
the site's row shared); `SyncSite` locks the next site in the order of ids and
writes what its valid licenses amount to; `Commit`, then `Answer`: the reload
of the cache and the 200. `Fail` is an error before the commit, rolled
back, or a failed reload after it; `AbortVictim` the database's end to a deadlock; `Crash`
ends every synchronisation. `BillingLedger` promises that the recorded
state of a license never goes back and that a receipt is given once, for a
state as recent as its event. The clock stands in this module.

### Registration, Checkout, Forum

`Registration` has the rows in order of creation; `UniqueViolated` is the
constraint of the schema on URL and domain; a request that hits it stays
`failed` until it is answered 500. `Checkout` has the one row of
settings, the look at Stripe before each write (`VerifyPlan`, `VerifyPrice`) and the
idempotency key; what Stripe has seen is `opened`. A request brings a site (or none), a URL and an e-mail;
what is sent (`Parameters`) and what is hashed (`ConfigHash`, the tuple of the hashed fields: no two hashes
agree by chance) are two lists, as in the code. The plugin's route sends the URL of the site's row, the public
form takes any `siteId` with any URL. `Forum` splits
each handler at its queries: the account is looked at, then the post, then the row is
written; `sinceBar` and `sinceLock` count what was written after a bar or a lock.
A session cookie names its account until it is cleared.

### Startup, RateLimit

`Startup` follows `server.ts` from the probe (`Retries` attempts) through the
import and the seed to `listen`, with a platform that starts an ended process
again, `MaxRestarts` times, kills it, and overlaps two of them; the
operator's request runs the same seed. `item` holds the titles a seed
has created. `RateLimit` measures time in units of which `Window` make a window;
`left` is what a bucket has to go (-1: past), `passed` the requests let through at each age.

### AdminClient, AdminScript, DevReload

The first has the cookies of one browser and its tabs: a request carries
the cookies of when it was sent and its answer sets those of now. The pages
are classes of pages: login, overview, a list (falls back on itself), a
site, billing. The second has the debounce timer, the requests in flight and the
list of results; the third the poll of `/__dev/revision` against restarts and
files that are being replaced.

### PluginCache and PluginLicense

PHP processes share rows of the options table and nothing else, so each query
is a step and a process may be killed at any of them (`Die`). In `PluginCache` a
visit finds the cached ad fresh (nothing happens), stale (`VisitStale`: it is
shown, and refreshed by who gets the lock) or useless (`VisitCold`: the visitor
waits for the server); `Cron` primes it. `Insert`, `LookAtLock`, `DeleteLock` and
`Reinsert` are the atomic insert and the theft of a lock that has outlived its
TTL; with an object cache (`persistent`) the lock expires by itself. After the
page is sent the process refreshes (`Refresh`), or, where PHP cannot
go on (`fpm`), releases the lock and schedules cron (`Defer`); the shortcode does neither
and keeps the lock (`Leave`). `Serve`, `NothingToServe` (204) and `Fail` are the
answers; a failure writes the record back as the process read it, with a
back-off. Ages, `not_after` and back-offs are relative, so time needs no
bound. `disorder` is history: a lock was outlived, and those who met it are
not all done.

`PluginLicense` keeps four options. `Cron`, `Visit`, `Buy` and `TurnOn` begin a question to
the server, whose row (`server`, external) may `Change` at any time;
`Answer`, `Fail`, `Granted` and `Denied` decide which options to write, and `WriteStatus`,
`WriteUntil`, `WriteDue` and `SwitchOff` write them one by one in the order of
`store_entitlement` and `clear_entitlement`. WordPress answers a process's
later reads from its memory and skips a write it believes done: `seen` is that belief.
The registration and its credentials are taken as given, and the call
that tells the server of an opt-out is left out.

## 3. The runs

The largest have about half a million distinct states.

| Run | Result | Shows |
|---|---|---|
| `CacheSafety` | holds | two handlers, loads that read, swap and fail: a site that a named invalidation cut off and evicted stays out of service until readmitted (`CutOffSitesStayOut`) |
| `CacheLiveness` | holds | every handler returns (`HandlersReturn`), an invalidation that returned without an error has had its write loaded (`InvalidateCoversWrite`), and the cache comes to agree with the database (`CacheConverges`) |
| `Events` | holds | types and the bound of the queue, `StatusAccounts`, `DropsOnlyWhenFull`, `ImplementsLedger` (until an answer is lost), one recount per lost answer at most (`RecountsAreLostAcks`), every accepted event settled (`EventsSettle`) |
| `Trials` | holds | one trial per site, ever (`OneTrialPerSite`); it overwrites neither a sanction nor live access (`TrialsOverwriteNothing`); lapsed access is marked (`LapsedAccessIsMarked`) |
| `GraceWindow` | holds | no access past what was paid, or the first unpaid renewal, plus the grace, however many renewals follow unpaid; the latest counts once the deadline was forgotten (`NoUnpaidPeriod`); the deadline of the grace moves only when a synchronisation has forgotten it (`GraceMovesOnlyWhenForgotten`); an ended subscription is recorded so (`EndedIsExpired`) |
| `Sync` | holds | `ImplementsLedger`; a shared site follows both licenses (`SiteFollowsLicenses`); a sanction survives (`SanctionsSurviveBilling`); only a first synchronisation can deadlock (`CyclesHaveAFirstSync`); what is answered is in effect (`AnsweredIsInEffect`) |
| `Requests` | holds | six parts: the limit of activations is passed only by racing requests (`OverLimitIsConcurrent`), as is one ad per site (`DuplicateAdsAreConcurrent`); a lost registration can be retried (`LostRacesCanRetry`); bars, locks and flags (`BarsTakeHold`, `FlagsHold`); keys and settings (`KeysNameOneRequest`, `OperatorSettingsStay`); `nextAd` (`LoopMeetsRotation`, `OutsidersWaitOneLap`) |
| `Edges` | holds | seven parts: bursts and refusals (`BurstsAreBounded`, `RefusalsEnd`); the seed is whole and servers listen (`SeedsComplete`, `ServersListen`); `RedirectionsEnd`; `LastTermIsSearched`; `PagesCatchUp`; the plugin's lock (`OneRefresher`, `RefreshesGoOn`); its entitlement (`EntitlementsArrive`) |
| `CacheWrites` | violated | `WritesInvalidateImmediately`, section 5.1 |
| `EventsShutdown` | violated | `ShutdownFlushes`, 5.2 |
| `GraceRestarts` | violated | `GraceIsFixed`, 5.3 |
| `LateActivation` | violated | `AdmittedOnValidLicenses`, 5.4 |

### Bounds

* Cache: two sites and one ad give a site with an ad, and a site that only asks;
  two handlers are what it takes for one to join, or wait for, the load
  another has begun, and two writes for a cut-off and a later readmission, or
  two racing cut-offs. `MaxNow = 1` lets a deadline pass between two
  loads. The runs start with both sites eligible, so that every write matters. What
  two handlers and one ad cannot show is proved for any number of each.
  Handlers are symmetric in `CacheSafety`, which has no liveness, and its `VIEW`
  leaves out the fields `covers`, `covered` and `ok`, history that no action
  decides by and that only `InvalidateCoversWrite` reads.
* `NextAd`: three ads of three sites, up to two copies each, and two sources of which
  one owns no ad; weights 0 and 3 are the default and beyond the limit.
  `missed` is capped at the longest array, more than any bound it is compared with.
* Event queue: limit 3 and batches of 2, so that a batch fills before the
  queue does and a failed batch finds room for all, one or none of its
  events; 5 pushes overflow it; two failures requeue what was
  requeued, and one of them may be a lost answer.
* Entitlements: in `Trials` two requests, of any of six operations, race for one
  site that may also be a demonstration site, with the operator's single updates, a license that is
  synchronised, the sweep, and instants before, at and after the deadlines.
  `ExploredOverlaps` bounds what is explored: two requests overlap when one is for a trial and the
  other for a trial or its extension; once there is a license, requests run one
  at a time. A behaviour that leaves this region is not followed further, for
  `LapsedAccessIsMarked` no more than for the other two properties.
  `Requests` has three sites and two slots for one license that allows one activation, so that
  the limit is passed by a race and would be passed further by a third request.
  Its `VIEW` leaves out the rows of the sites there, on which neither the steps of
  an activation nor its property depend.
* `Grace`: periods of 2 and a grace of 1 in 6 instants give three renewals: paid,
  failed and failed again, so that a second unpaid renewal is finalised when the deadline of the first
  stands or has passed. `GraceRestarts` needs one instant more.
* `BillingSync`: two customers, one subscription each, share two sites, so
  that transactions meet on sites and not on the customer lock, and can wait for each
  other; one subscription changes twice, so that an old event arrives after a
  newer state was recorded. One failure or crash.
* `Registration`: a blog and a shop share a domain, another site does not;
  two requests. Ads: one site, up to four ads.
* `Checkout`: two prices, two graces, and five customers (`MCCustomers`): one without a site, and four that
  differ in the site, the URL or the e-mail alone, so that leaving any of them out of the key is a
  collision. Two sessions, whose keys are compared; there the behaviour ends, and the plan is not switched off
  after the first (`SessionsLeft`). Two half-hours: a key of another half-hour is another key, and what
  goes on into the second half-hour goes on alone (`AloneInLastWindow`).
* `Forum`: one account, one post, two requests, and the operator at any time.
* `RateLimit`: three clients for a map of two, two requests in a window of two units,
  a sweep every three. `Startup`: two servers, three titles, two
  probes, one restart, one outage. `AdminClient`: two tabs, two tokens in turn.
  `AdminScript`: four changes of the field among a short and two long terms. `DevReload`:
  three edits or restarts.
* `PluginCache`: two processes, the least number that can steal one lock from each other, with or without an object
  cache and a PHP that goes on after the page; an ad is fresh at age 0, stale at 1, useless at 2,
  and a lock is outlived at 2, so that each is met before, at and after its limit. An ad may be shown as
  long as one likes or for one unit; a back-off lasts one.
* `PluginLicense`: two processes, of which one can store an older answer last or die between two
  options; the server's row is active, suspended or refused, with access for one
  unit or none.

The two requests, servers and synchronisations of the runs above are
symmetric where a run says `SYMMETRY`; none of those runs states liveness.

Deadlock is not checked where the system stops by itself: the event queue's
process ends, and some parts of `Requests` and `Edges` run out of bounded
sessions, ads, restarts or edits.

### Fairness

* Cache: a query returns or rejects, continuations run, and the timers fire (`WF` of
  `ReadAds`, `ReadSites`, `Swap`, `Clear`, `Timer`, `Age` and of each handler's
  own steps): this is the event loop and `setInterval`. `<>[][~Fail]_vars` says
  that the database does not fail for ever; without it no cache could
  converge. No fairness is assumed of `Write`, `Serve` or `Tick`.
* Event queue: the database answers and the flush timer and the timer of
  the forced exit fire. Failures are bounded by `MaxFailures`, which is
  the same assumption. The forced exit's timer is unref'd but the process
  is kept alive by what it waits for. `Closed` and `Exit` are not fair: a
  keep-alive connection may hold `server.close` for ever.
* Entitlements: the sweep's timer fires and its updates succeed in the end
  (`entitlementService.ts:199-215`); requests need not go on.
* Grace: a synchronisation is begun again and again, for Stripe redelivers
  what was not answered 200, and is not always aborted (`SF` of `WriteLicense`, for `Abort` may intervene).
* Edges: each part's property has that part's fairness as its premise, for a
  behaviour runs one part. Time passes, timers fire, queries and requests end by an answer or an
  error, an outage of the database ends, an editor finishes its save and the watcher restarts
  the process. `RefusalsEnd` is about a client that goes on asking. `RedirectionsEnd` supposes that the ad server does not fail
  for ever: while it fails, the overview sends the browser to `/login`, which sends
  it back, for the session is still there.
* Plugin: processes go on or end, and WP-Cron comes to run its event again and again, every few minutes for the ad and
  every hour for the entitlement (`SF` of `Cron`, for a visit may hold the lock or
  the process slot just then). `RefreshesGoOn` and `EntitlementsArrive` suppose that failures, deaths and changes at the
  server stop at last; the former also that visits do not for ever take the lock only to
  defer or leave it.

## 4. What is proved

TLAPS checks these for every value of the constants: any numbers of sites, ads, copies, handlers,
requests, licenses, subscriptions, events and instants, any limits and bounds.

| Theorem | States |
|---|---|
| `RotationCacheProofs!TypeCorrect` | `Spec => []TypeOK`: in particular the cursor stays within the longest rotation |
| `RotationCacheProofs!CutOffSafe` | `Spec => []CutOffSitesStayOut` |
| `RotationCacheProofs!InvalidateCovers` | `Spec => []InvalidateCoversWrite` |
| `EventQueueProofs!QueueBounded` | `Spec => []TypeOK`: in particular the queue never exceeds its limit |
| `EventQueueProofs!StatusIsExact` | `Spec => []StatusAccounts` |
| `EventQueueProofs!RecountsNeedLostAcks` | `Spec => []RecountsAreLostAcks` |
| `EventQueueProofs!QueueDropsOnlyWhenFull` | `Spec => DropsOnlyWhenFull` |
| `EventQueueProofs!QueueImplementsLedger` | `Spec => ImplementsLedger` if `MaxLostAcks = 0` |
| `EntitlementsProofs!TypeCorrect` | `Spec => []TypeOK` |
| `EntitlementsProofs!TrialsAreOne` | `Spec => []OneTrialPerSite` |
| `EntitlementsProofs!TrialsAreSafe` | `Spec => TrialsOverwriteNothing` |
| `EntitlementsProofs!LimitsAreKept` | `Spec => []OverLimitIsConcurrent` |
| `BillingSyncProofs!TypeCorrect` | `Spec => []TypeOK` |
| `BillingSyncProofs!SyncImplementsLedger` | `Spec => ImplementsLedger` |
| `BillingSyncProofs!AnswersAreInEffect` | `Spec => []AnsweredIsInEffect` |
| `BillingSyncProofs!SanctionsSurvive` | `Spec => SanctionsSurviveBilling` |
| `BillingSyncProofs!SitesFollowLicenses` | `Spec => []SiteFollowsLicenses` |
| `BillingSyncProofs!NoCycleWithoutFirst` | `Spec => []CyclesHaveAFirstSync` |
| `GraceProofs!TypeCorrect` | `Spec => []TypeOK` |
| `GraceProofs!NoUnpaid` | `Spec => []NoUnpaidPeriod` |
| `GraceProofs!GraceStays` | `Spec => GraceMovesOnlyWhenForgotten` |
| `ForumProofs!BarsHold` | `Spec => []BarsTakeHold` |
| `ForumProofs!FlagsAreHeld` | `Spec => FlagsHold` |
| `RequestsProofs!ActivationLimits` | `PartsSpec => []OverLimitIsConcurrent` |
| `RequestsProofs!RacesCanBeRetried` | `PartsSpec => []LostRacesCanRetry` |
| `RequestsProofs!DuplicatesAreFew` | `PartsSpec => []DuplicateAdsAreConcurrent` |
| `RequestsProofs!KeysAreSafe` | `PartsSpec => []KeysNameOneRequest` |
| `RequestsProofs!SettingsStay` | `PartsSpec => OperatorSettingsStay` |
| `RequestsProofs!OutsidersSoonServed` | `PartsSpec => []OutsidersWaitOneLap` |
| `RequestsProofs!LoopIsTheRotation` | `PartsSpec => []LoopMeetsRotation` |
| `RequestsProofs!ArrayIsARotation` | `PartsSpec => [][RotationStep]_<<AsRotation, Deadlines, cursor>>`: each step of `NextAd` serves from, evicts from or swaps the rotation as `RotationCache` does |
| `EdgesProofs!BurstsStayBounded` | `Spec => []BurstsAreBounded` |
| `EdgesProofs!SeedsAreComplete` | `Spec => []SeedsComplete` |
| `EdgesProofs!RefreshersAreAlone` | `Spec => []OneRefresher` |

The assumptions are those on the constants, the `ASSUME`s of `Rotation`, `RotationCache`,
`EventQueue`, `Entitlements`, `BillingSync`, `Grace`, `Requests` and `Edges` (numbers are naturals, limits are positive,
each ad, license and subscription has its site, the drainers are distinct, sites and requests are
finite sets, there is a URL, an ad may have a copy); `ForumProofs` assumes that there are an account and a post
(`SomeOfEach`) and, for `BarsHold`, finitely many requests. TLC evaluates the
`ASSUME`s in the runs of each module. Nothing is assumed of weights, TTLs and the lengths of arrays but that they are naturals.

*CutOffSafe.* The property speaks of what `nextAd` would return, which says
nothing about the load in flight. The invariant `CutOffInv` adds it: the
database bars each site a handler remembers to have cut off; a handler that
has awaited a load finds none, or one begun since, and so finds nothing of its sites in
`load`; a site in `shut` is in neither the load, nor the rotation, nor
`siteByDomain`. The interesting step is a read: it can bring a site back only
if its row admits it, and no row in `shut` does.

*InvalidateCovers.* `CoverInv`: a handler that awaits a load after `invalidate`
is among those its load covers, because a handler resumed by the end of one load
can only find a load begun since; a load that has settled well covers
what it was begun after.

*StatusIsExact* and *QueueBounded* are proved together, as `AccountInv`: the
amount requeued is bounded by the room, so the bound and the sum hold each
other up. *QueueImplementsLedger* maps each action: an accepted push is `Accept`
(whether or not it starts a flush, which moves events from queue to batch
and leaves their concatenation alone), `Commit` is `Record` of the
batch, `Failed` is `Lose` of the batch's tail, the two exits are `End`; all others
leave the ledger unchanged.

*QueueDropsOnlyWhenFull* looks at each step: a push drops only at the bound, and a failed
flush requeues as much as there is room for. *RecountsNeedLostAcks* needs `RecountInv`: an event is in memory once, under a
number already given out, and what was recorded of it, plus one if it still waits to be, is
at most one more than the lost answers. That it is in memory once survives a requeue because the
batch and the queue never share an event.

*TrialsAreOne, TrialsAreSafe.* `TrialInv` adds to the types and the property that a
site that was given a trial says so in its row (`TrialIsRecorded`, which no write undoes) and that what a request
has read of the clock is not ahead of it (`ReadsArePast`), so that access that was
dead when it was read is dead when the update compares.

*LimitsAreKept, ActivationLimits.* A place found free is counted as taken although no other
request sees it yet: `Claims(l)` are the sites a license has or is about to
have, and they never exceed the limit by more than the requests less one (`LimitInv`). The
request that finds the last place sees all claims but those of the other requests, which is where finiteness is used.
`ActivationLimits` is that theorem for the part of `Requests`: it instantiates `EntitlementsProofs`, proves its
assumptions from those of `Requests` (`EntitlementsAssumed`), and shows that the two instances
have the same steps.

*The billing theorems.* `BillingInv` is `RowsOK`, `VersionInv` (Stripe is ahead of the license, the
license of the cache; a receipt vouches for what the license records and an answer for
what the cache has loaded) and `SyncInv`: each synchronisation is sound by itself (what it has asked for is no
newer than Stripe, and, while it holds the customer lock, no older than the
license), and two of them are kept apart by the customer lock and by the locks of the sites. The
refinement maps `Commit` to the ledger's `Record`, everything else to a change at Stripe or
to a stutter. *SitesFollowLicenses* adds `FollowInv`: what a transaction has computed for a site it has locked is
what the rows still say, those of its own license as it will commit them (`Fresh`). The
locks carry the proof: whoever would change a row another has computed from needs the lock of the site, or
writes a license that is active on none of the locked sites. *NoCycleWithoutFirst* takes, of a set of synchronisations
that wait for each other, the greatest site that one of them waits for; who holds it, unless it is a first synchronisation, has only greater sites still to wait for.

*NoUnpaid, GraceStays.* `IInv`: Stripe's instants are ordered (`StripeInv`), what a synchronisation has read is no
later than what Stripe holds (`FetchInv`), the first unpaid renewal is no later than the latest and is
the latest until a deadline is promised (`FirstInv`), neither date of the license passes what
is paid, or the renewal that counts (`Anchor`), by more than the grace (`LicenseInv`), and
while nothing was forgotten the license has the promised deadline or the subscription has
ended (`PromiseInv`). The last two need each other: a synchronisation that meets a later unpaid renewal stays
within the bound of the first because the license still has the promised deadline. The two exceptions of
`NoUnpaidPeriod` are the code's: what was never recorded before the next renewal cannot be kept to, and
what was forgotten starts anew (5.3).

*KeysAreSafe.* The hash is taken of a list of its own, without the site, the reference and the metadata.
`KeysInOrder` is an invariant of what Stripe has seen: a session with a key is a site's, its return pages are on
the URL of its metadata, its reference is its site, and the key has that site and the hash of that list.
`HashDetermines` then gives back what is not hashed: the site from the key, the URL from the return pages.
*SettingsStay* holds of each step.

*RacesCanBeRetried.* What a registration has found has its domain, and one that
failed on a unique column has had its domain taken (`RegistrationInv`); no later step changes a row's domain.
*DuplicatesAreFew.* The ads of a site and the requests that found none and are about to write one are together no more than
the requests (`AdsInv`).

*OutsidersSoonServed.* `LapInv`: an entry that can be shown, of a site that does not ask, has been passed over no more often
than the cursor has come nearer to it. The loop ends at that entry or nearer to it than it began (`LoopPasses`): that is an
induction over its passes, for which `LoopRuns` shows that the recursive function the loop is written as
exists, and `IntervalInduction` takes a subset of `0 .. n` in place of the predicate that the provers cannot take. Evictions
and reloads start the count anew.

*LoopIsTheRotation.* `Rotation` numbers a slot by how many slots precede it, the code by its index in an array. `ArrayInv` ties
them: the entries of the array are the slots of some rotation, each once and in order, and the copies of an ad share one
deadline. It is needed because `LoopMeetsRotation` says nothing of an array whose copies are interleaved, which no
reachable array is, but which the property alone would not exclude from the induction. The invariant is kept because a load
and an eviction join sequences (`FlattenedLists`: what is joined lists the pieces' elements in order), and it gives what is
compared: positions are counts (`SlotsCounted`), and the distance of the cursor to both is the same (`AheadIsDistance`). For the
loop, `Searched` says after `i` attempts which `i` entries are known not to qualify (`LoopSearches`).
*ArrayIsARotation* is the refinement behind the two ways of modelling the cache: under the mapping `AsRotation`, `Deadlines`,
every step on the array is the serving, the eviction (of one site; of several, one after another) or the swap
of `RotationCache`, or leaves all three alone. What a load read and when is
`RotationCache`'s own.

*BurstsStayBounded.* The requests let through in the time of one window are those since a client's bucket was opened and
those before (`BurstInv`): the bucket counts the former, and the latter are of one earlier bucket. A sweep
forgets only buckets whose window is over.
*SeedsAreComplete.* As long as no seed was broken off, one of the seeds in progress has created all the posts there are and goes on
(`SomeSeedLeads`), for each takes the titles in order and gives up where it meets another's.
*RefreshersAreAlone.* Until a lock is outlived, nobody is about to delete it, and who refreshes holds it (`LockInv`).

*BarsHold.* Each request that had looked before the bar can write once:
counted contributions and requests under way past the bar are together never more
than the requests (`BarInv`); a step adds no request to those, and one that counts takes its
own away, which is where finiteness is used. *FlagsAreHeld* is about single steps, but
needs the types of what a request has read.

Only model-checked: liveness under fairness (`CacheConverges`, `HandlersReturn`, `EventsSettle`,
`LapsedAccessIsMarked`, `EndedIsExpired` and the temporal properties of `Edges`), and with it `ENABLED`, which the prover
does not handle. Every safety invariant and every action property that a passing run checks is a theorem.

## 5. Where the code and its documents disagree

1. Opting out invalidates without naming the site; when the reload fails, its
   ads stay in service until a later load succeeds (`siteService.ts:138`,
   `rotationCache.ts:242-247`). README.md:141: "writes invalidate
   immediately". Run `CacheWrites`.
2. `shutdown` says it is flushing events, but `flush()` returns at once
   when a timed flush is in flight, and what is queued behind it is lost
   (`server.ts:63, 76`, `eventQueue.ts:83`). Run `EventsShutdown`.
3. docs/billing.md:25: "Failed renewal grace has a fixed deadline; retries do not
   extend it". A synchronisation that sees the next renewal before it was first attempted
   writes `graceUntil = null`, and its failure starts a new grace
   (`stripeEventHandlers.ts:32-38, 103`). Run `GraceRestarts`.
4. docs/billing.md:25: "Cancellation and expiry remove access". An activation that read its license
   before a cancellation was synchronised admits the site after it, until the old deadline
   (`licenseActivationService.ts:40, 59-66`). Run `LateActivation`.

Also seen while modelling, and not a run of their own:

* The cache. `rebuildNow` joins a load in flight, whose queries may have run before the
  rows it was called for (`rotationCache.ts:148`; README.md:187, "Force rotation cache
  rebuild"). All sources share the cursor, so an ad can be passed over by
  others for ever (README.md:251, round-robin). README.md:250 says the cache is populated on the first
  request, but `getSnapshot` never loads. The timer's period is the TTL, and `warm` skips a
  cache that is a little younger, so a refresh may come a period late (`rotationCache.ts:55`).
* `POST /admin/events/flush` may answer 200 with events unflushed, for the reason of 5.2
  (`openapi/community-api.yaml:150`).
* Entitlements. Racing activations pass a license's limit. `markExpiredIfNeeded` may overwrite a renewal
  committed since its read. A suspension or a revocation of a site is lifted by an
  activation and by the soft-launch seed. A license that is SUSPENDED is set ACTIVE by its next billing event, against
  the comment at `stripeEventHandlers.ts:105-106`. A site may come to have two ads.
* Seeding. A crash between two posts leaves a partial seed that no later start completes;
  `publicStatusService.ts:55` asks for 7 posts and the seed makes 5.
* A registration that loses a race on the unique columns is answered 500.
* The admin client redirects between `/` and `/login` while the ad server fails; a late 401 for an old token clears the session
  another tab has opened since.
* `assets/admin.js` lets an old answer overwrite newer results. A development reload may land on an error
  page, which no longer polls.
* The plugin. `shortcode_community_ad` (`class-wpa-public-endpoints.php:332`) takes the refresh
  lock and neither refreshes nor defers, so the lock stays until its TTL. A background
  refresh that fails writes its old record over one stored meanwhile
  (`class-wpa-repository.php:735-746`). Two processes that find the same lock outlived may both refresh
  (`711-717`). A site whose stored status is suspended or revoked is not asked for by
  cron, only on an administrator's visit (`class-wpa-plugin.php:81`); an
  older answer stored last stands until the next check.

## 6. What is not modelled, and the plan

`PROJECT.json` gives each component its status. Not modelled, and why:

* Pages, read-only queries, the website and its router: they change no state. HTTP wiring, validation
  and configuration keep none.
* The rollup rows of `writeBatch`: the sequence of counted events stands for them. `lastSeenAt`, heartbeats and
  the answers' contents are data. `validate` with a checkout session is a synchronisation
  (`BillingSync`) followed by a second read of the row.
* Stripe's side of a call, and its subscriptions of other applications, which are ignored.
* Of the plugin: local events, placements and reports, the installer, the renderer, the
  admin pages; the registration and the credentials it stores. In the browser: the media dialog and the tabs, which move
  markup only.
* Fairness of a drain under steady load: a draining flush goes on for as long as
  pushes refill the queue, and the model's pushes are bounded.

What could follow, in this order:

1. `PluginCredentials`: registration, rotation and the stored secret, composed with `Registration`.
2. `EventDedupe`: the plugin's windows for impressions and clicks, in local time and UTC.
3. A composition of `PluginCache` and `PluginLicense` with `RotationCache`'s promise: for how long an ad of a
   cut-off site is shown by a plugin.
4. `WriteBatch`: the rollups of a batch against a reference definition; `RotationTimer`: the period against the TTL.
