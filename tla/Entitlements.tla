---------------------------- MODULE Entitlements ----------------------------
(***************************************************************************)
(* The requests that change who is entitled to the community network:      *)
(* trials, license activations, opting in (src/services/entitlementService *)
(* .ts, licenseActivationService.ts, siteService.ts), the operator's       *)
(* actions (adminService.ts), the expiry sweep, and the synchronisation of *)
(* a subscription, here one step (module BillingSync opens it).            *)
(*                                                                         *)
(* Every awaited query is a step of its own: between two of them, any      *)
(* other request, the sweep or a synchronisation may commit.               *)
(***************************************************************************)
EXTENDS Access

CONSTANTS
  Sites, Licenses,
  SeedSites,       \* the demonstration sites of the soft-launch seed
  Requests,        \* slots for concurrent requests
  Ops,             \* the operations the requests may ask for
  MaxActivations,  \* License.maxActivations
  TrialsEnabled,   \* values of "trialDays > 0" the settings may take
  MaxTime,         \* bound of the clock
  Horizon          \* bound of the deadlines handed out

(* The endpoints of the plugin, and those of the operator that read a row    *)
(* before they write it.                                                     *)
PluginOps == {"startTrial", "validate", "activate"}
SiteOps == {"optIn"}
OperatorOps == {"extendTrial", "grantPro"}

ASSUME OpsAssumption == Ops \subseteq PluginOps \cup SiteOps \cup OperatorOps
ASSUME TimeAssumption == MaxTime \in Nat \ {0} /\ Horizon \in Nat /\ MaxTime < Horizon
ASSUME SetsAssumption ==
  /\ SeedSites \subseteq Sites
  /\ Sites # {} /\ Licenses # {} /\ IsFiniteSet(Sites) /\ IsFiniteSet(Requests)
  /\ TrialsEnabled \subseteq BOOLEAN
ASSUME ActivationsAssumption == MaxActivations \in [Licenses -> Nat \ {0}]

VARIABLES
  site,      \* CommunitySite, by id
  license,   \* License, by id
  active,    \* LicenseActivation: the pairs whose deactivatedAt is null
  req,       \* the requests in flight
  sweep,     \* the instant the sweep in progress compares with; 0: none
  now,
  trials     \* history: the trials startTrial has allocated to each site

vars == <<site, license, active, req, sweep, now, trials>>

Time == 0 .. Horizon
Clock == 1 .. MaxTime

Steps == {"read", "conflict", "license", "existing", "count", "upsert", "site"}

(* row and at: the site as it was read, and Date.now() then; until: the      *)
(* deadline of the license as it was read.                                   *)
RequestStates ==
  [op : Ops \cup {"none"}, step : Steps, site : Sites, license : Licenses,
   row : SiteRows(Time), at : Time, until : Time]

AnySite == CHOOSE s \in Sites : TRUE
AnyLicense == CHOOSE l \in Licenses : TRUE
Idle == [op |-> "none", step |-> "read", site |-> AnySite, license |-> AnyLicense,
         row |-> NewSite, at |-> 0, until |-> 0]

ActivationsOf(l) == {s \in Sites : <<l, s>> \in active}
Deadlines(s, licenses, t) ==
  {licenses[l].expires : l \in {k \in Licenses : /\ <<k, s>> \in active
                                                 /\ Valid(licenses[k], t)}}

At(r, op, step) == req[r].op = op /\ req[r].step = step
Goto(r, step) == req' = [req EXCEPT ![r].step = step]
Finish(r) == req' = [req EXCEPT ![r] = Idle]
WriteSite(s, row) == site' = [site EXCEPT ![s] = row]

Init ==
  /\ site = [s \in Sites |-> NewSite]
  /\ license = [l \in Licenses |-> NoLicense]
  /\ active = {}
  /\ req = [r \in Requests |-> Idle]
  /\ sweep = 0
  /\ now = 1
  /\ trials = [s \in Sites |-> 0]

-----------------------------------------------------------------------------
(* Requests that read a site's row and act on what they read.                *)

(* authenticateForEntitlement, requireSite, or the read of                   *)
(* requireNetworkEntitlement.  An activation makes no use of the row.        *)
Authenticate(r, op, s) ==
  /\ req[r].op = "none"
  /\ op \in PluginOps \cup SiteOps \cup OperatorOps
  /\ req' = [req EXCEPT ![r] =
       IF op = "activate"
         THEN [Idle EXCEPT !.op = op, !.site = s]
         ELSE [Idle EXCEPT !.op = op, !.site = s, !.row = site[s], !.at = now]]
  /\ UNCHANGED <<site, license, active, sweep, now, trials>>

(* May the request go on from the row it holds? *)
Ready(r, op) == At(r, op, "read") /\ ~Lapsed(req[r].row, req[r].at)

(* markExpiredIfNeeded: decides on the row that was read, writes the status  *)
(* alone, and goes on with the row the update returns.                       *)
MarkExpired(r) ==
  /\ req[r].op \in {"startTrial", "validate", "optIn"}
  /\ req[r].step = "read"
  /\ Lapsed(req[r].row, req[r].at)
  /\ WriteSite(req[r].site, Expired(site[req[r].site]))
  /\ req' = [req EXCEPT ![r].row = Expired(site[req[r].site])]
  /\ UNCHANGED <<license, active, sweep, now, trials>>

(* validateEntitlement refreshes lastSeenAt and answers. *)
Validate(r) ==
  /\ Ready(r, "validate")
  /\ Finish(r)
  /\ UNCHANGED <<site, license, active, sweep, now, trials>>

MayStartTrial(r) ==
  /\ Ready(r, "startTrial")
  /\ req[r].row.net \notin Sanctions
  /\ ~Eligible(req[r].row, req[r].at)
  /\ ~req[r].row.trialUsed

(* Sanctioned, already eligible, trial used, or trials disabled. *)
AnswerTrial(r) ==
  /\ Ready(r, "startTrial")
  /\ ~MayStartTrial(r) \/ FALSE \in TrialsEnabled
  /\ Finish(r)
  /\ UNCHANGED <<site, license, active, sweep, now, trials>>

(* Mutant: only the id is in the update's where clause. *)
UnchangedById(r) == TRUE

(* Mutant: the status is left out of the comparison. *)
UnchangedButStatus(r) ==
  LET row == site[req[r].site]
  IN ~row.trialUsed /\ row.until = req[r].row.until

(* The where clause of the update: the row is still the one that was read. *)
Unchanged(r) ==
  LET row == site[req[r].site]
  IN /\ row.net = req[r].row.net
     /\ ~row.trialUsed
     /\ row.until = req[r].row.until

AllocateTrial(r, until) ==
  LET s == req[r].site
  IN /\ MayStartTrial(r)
     /\ TRUE \in TrialsEnabled
     /\ until > req[r].at
     /\ Unchanged(r)
     /\ WriteSite(s, [site[s] EXCEPT !.net = "TRIAL", !.trialUsed = TRUE,
                                     !.until = until])
     /\ trials' = [trials EXCEPT ![s] = @ + 1]
     /\ Finish(r)
     /\ UNCHANGED <<license, active, sweep, now>>

(* P2025: no such row.  The site is read again and answered as it is. *)
TrialConflict(r) ==
  /\ MayStartTrial(r)
  /\ TRUE \in TrialsEnabled
  /\ ~Unchanged(r)
  /\ Goto(r, "conflict")
  /\ UNCHANGED <<site, license, active, sweep, now, trials>>

AnswerConflict(r) ==
  /\ At(r, "startTrial", "conflict")
  /\ Finish(r)
  /\ UNCHANGED <<site, license, active, sweep, now, trials>>

(* setOptIn(true): after requireNetworkEntitlement, optedIn is written       *)
(* whatever the row has become.                                              *)
OptIn(r) ==
  /\ Ready(r, "optIn")
  /\ IF Eligible(req[r].row, now)
       THEN WriteSite(req[r].site, [site[req[r].site] EXCEPT !.optedIn = TRUE])
       ELSE UNCHANGED site
  /\ Finish(r)
  /\ UNCHANGED <<license, active, sweep, now, trials>>

(* extendTrial: the days are added to the deadline that was read. *)
ExtendTrial(r, until) ==
  LET s == req[r].site
      row == req[r].row
  IN /\ At(r, "extendTrial", "read")
     /\ until > row.until /\ until > req[r].at
     /\ WriteSite(s, [site[s] EXCEPT
                        !.net = IF row.net = "ACTIVE" THEN "ACTIVE" ELSE "TRIAL",
                        !.trialUsed = TRUE, !.until = until])
     /\ Finish(r)
     /\ UNCHANGED <<license, active, sweep, now, trials>>

GrantPro(r, until) ==
  LET s == req[r].site
  IN /\ At(r, "grantPro", "read")
     /\ until > req[r].at
     /\ WriteSite(s, [site[s] EXCEPT !.net = "ACTIVE", !.trialUsed = TRUE,
                                     !.until = until])
     /\ Finish(r)
     /\ UNCHANGED <<license, active, sweep, now, trials>>

-----------------------------------------------------------------------------
(* activateLicense *)

(* The license is read by its key, and must be valid. *)
ReadLicense(r, l) ==
  /\ At(r, "activate", "read")
  /\ IF Valid(license[l], now)
       THEN req' = [req EXCEPT ![r].license = l, ![r].step = "existing",
                               ![r].until = license[l].expires]
       ELSE Finish(r)
  /\ UNCHANGED <<site, license, active, sweep, now, trials>>

FindExisting(r) ==
  /\ At(r, "activate", "existing")
  /\ Goto(r, IF <<req[r].license, req[r].site>> \in active THEN "upsert" ELSE "count")
  /\ UNCHANGED <<site, license, active, sweep, now, trials>>

(* Mutant: > for >=. *)
NoneLeftPast(l) == Cardinality(ActivationsOf(l)) > MaxActivations[l]

NoneLeft(l) == Cardinality(ActivationsOf(l)) >= MaxActivations[l]

CountActivations(r) ==
  /\ At(r, "activate", "count")
  /\ IF NoneLeft(req[r].license) THEN Finish(r) ELSE Goto(r, "upsert")
  /\ UNCHANGED <<site, license, active, sweep, now, trials>>

UpsertActivation(r) ==
  /\ At(r, "activate", "upsert")
  /\ active' = active \cup {<<req[r].license, req[r].site>>}
  /\ Goto(r, "site")
  /\ UNCHANGED <<site, license, sweep, now, trials>>

(* The site's row is overwritten, whatever its status has become. *)
AdmitActivated(r) ==
  /\ At(r, "activate", "site")
  /\ WriteSite(req[r].site, [site[req[r].site] EXCEPT !.net = "ACTIVE",
                                                      !.until = req[r].until])
  /\ Finish(r)
  /\ UNCHANGED <<license, active, sweep, now, trials>>

-----------------------------------------------------------------------------
(* Single writes, the sweep, and synchronisations.                           *)

OptOut(s) ==
  /\ WriteSite(s, [site[s] EXCEPT !.optedIn = FALSE])
  /\ UNCHANGED <<license, active, req, sweep, now, trials>>

Suspend(s) ==
  /\ WriteSite(s, [site[s] EXCEPT !.net = "SUSPENDED", !.optedIn = FALSE])
  /\ UNCHANGED <<license, active, req, sweep, now, trials>>

Revoke(s) ==
  /\ WriteSite(s, [site[s] EXCEPT !.net = "REVOKED", !.optedIn = FALSE,
                                  !.until = now])
  /\ UNCHANGED <<license, active, req, sweep, now, trials>>

(* The soft-launch seed puts its demonstration sites back on the network,    *)
(* whatever the operator or the sweep has made of them.                      *)
SeedSite(s, status, until) ==
  /\ s \in SeedSites
  /\ until > now
  /\ WriteSite(s, [net |-> status, trialUsed |-> TRUE, until |-> until,
                   optedIn |-> TRUE])
  /\ UNCHANGED <<license, active, req, sweep, now, trials>>

ResetActivations(s) ==
  /\ active' = {a \in active : a[2] # s}
  /\ UNCHANGED <<site, license, req, sweep, now, trials>>

CreateLicense(l, until) ==
  /\ license[l].status = "none"
  /\ until > now
  /\ license' = [license EXCEPT ![l] = [status |-> "ACTIVE", expires |-> until]]
  /\ UNCHANGED <<site, active, req, sweep, now, trials>>

(* Mutant: < for <=. *)
DueBefore(deadline, t) == deadline < t

Due(deadline, t) == deadline =< t

(* expireDueEntitlements: the licenses, then the sites, with the `now` taken *)
(* before.  A null deadline is not compared.                                 *)
SweepLicenses ==
  /\ sweep = 0
  /\ sweep' = now
  /\ license' = [l \in Licenses |->
       IF license[l].status = "ACTIVE" /\ Due(license[l].expires, now)
         THEN [license[l] EXCEPT !.status = "EXPIRED"] ELSE license[l]]
  /\ UNCHANGED <<site, active, req, now, trials>>

SweepSites ==
  /\ sweep # 0
  /\ sweep' = 0
  /\ site' = [s \in Sites |->
       IF Admitted(site[s]) /\ site[s].until # 0 /\ Due(site[s].until, sweep)
         THEN Expired(site[s]) ELSE site[s]]
  /\ UNCHANGED <<license, active, req, now, trials>>

(* The transaction of a synchronisation commits: the subscription of l is    *)
(* paid or in grace until the instant given, or has ended.                   *)
Synchronise(l, until) ==
  /\ license[l].status # "none"
  /\ license' = [license EXCEPT ![l] =
       [status |-> IF @.status = "REVOKED" THEN @.status
                   ELSE IF until > now THEN "ACTIVE" ELSE "EXPIRED",
        expires |-> until]]
  /\ site' = [s \in Sites |->
       IF s \in ActivationsOf(l)
         THEN Synchronised(site[s], Deadlines(s, license', now), now)
         ELSE site[s]]
  /\ UNCHANGED <<active, req, sweep, now, trials>>

(* An operator sets the status of a license in the database: no endpoint     *)
(* does.                                                                     *)
SanctionLicense(l, status) ==
  /\ license[l].status # "none"
  /\ license' = [license EXCEPT ![l].status = status]
  /\ UNCHANGED <<site, active, req, sweep, now, trials>>

Tick ==
  /\ now < MaxTime
  /\ now' = now + 1
  /\ UNCHANGED <<site, license, active, req, sweep, trials>>

RequestStep(r) ==
  \/ \E op \in Ops, s \in Sites : Authenticate(r, op, s)
  \/ MarkExpired(r)
  \/ Validate(r)
  \/ AnswerTrial(r)
  \/ \E until \in Time : AllocateTrial(r, until)
  \/ TrialConflict(r)
  \/ AnswerConflict(r)
  \/ OptIn(r)
  \/ \E until \in Time : ExtendTrial(r, until)
  \/ \E until \in Time : GrantPro(r, until)
  \/ \E l \in Licenses : ReadLicense(r, l)
  \/ FindExisting(r)
  \/ CountActivations(r)
  \/ UpsertActivation(r)
  \/ AdmitActivated(r)

SiteStep(s) ==
  \/ OptOut(s)
  \/ Suspend(s)
  \/ Revoke(s)
  \/ \E status \in {"TRIAL", "ACTIVE"}, until \in Time : SeedSite(s, status, until)
  \/ ResetActivations(s)

LicenseStep(l) ==
  \/ \E until \in Time : CreateLicense(l, until) \/ Synchronise(l, until)
  \/ \E status \in Sanctions : SanctionLicense(l, status)

Next ==
  \/ \E r \in Requests : RequestStep(r)
  \/ \E s \in Sites : SiteStep(s)
  \/ \E l \in Licenses : LicenseStep(l)
  \/ SweepLicenses
  \/ SweepSites
  \/ Tick

Spec == Init /\ [][Next]_vars

(* The sweep's interval timer fires again and again, and its queries are     *)
(* answered (entitlementService.ts:201-208).                                 *)
Fairness == WF_vars(SweepLicenses) /\ WF_vars(SweepSites)
FairSpec == Spec /\ Fairness

-----------------------------------------------------------------------------
(* Properties *)

TypeOK ==
  /\ site \in [Sites -> SiteRows(Time)]
  /\ license \in [Licenses -> LicenseRows(Time)]
  /\ active \subseteq Licenses \X Sites
  /\ req \in [Requests -> RequestStates]
  /\ sweep \in 0 .. now
  /\ now \in Clock
  /\ trials \in [Sites -> Nat]

(* However many requests for a trial race each other, a site is allocated    *)
(* one trial at most, ever (entitlementService.ts:116-131).                  *)
OneTrialPerSite == \A s \in Sites : trials[s] =< 1

(* Allocating a trial overwrites neither a sanction nor live access that     *)
(* another request or a synchronisation committed since the site was read    *)
(* (entitlementService.ts:116-117).                                          *)
TrialsOverwriteNothing ==
  [][\A s \in Sites : trials'[s] # trials[s] =>
       site[s].net \notin Sanctions /\ ~Eligible(site[s], now)]_vars

(* Concurrent activations may take a license past its limit, for the count   *)
(* and the upsert are two queries, but by no more than the requests that     *)
(* race the one that takes the last place; one request at a time never does  *)
(* (licenseActivationService.ts:31-57).                                      *)
OverLimitIsConcurrent ==
  \A l \in Licenses :
    Requests # {} => Cardinality(ActivationsOf(l)) + 1 =<
                       MaxActivations[l] + Cardinality(Requests)

(* A trial or a Pro period that has run out is at last marked so, although   *)
(* the site never calls in again (entitlementService.ts:181-197).            *)
LapsedAccessIsMarked ==
  \A s \in Sites : site[s].until # 0 /\ Lapsed(site[s], now) ~> ~Lapsed(site[s], now)

(* "Cancellation and expiry remove access" (docs/billing.md:25): a site is   *)
(* not admitted on a license that is no longer valid.                        *)
AdmittedOnValidLicenses ==
  [][\A r \in Requests :
       At(r, "activate", "site") /\ req'[r].op = "none" =>
         Valid(license[req[r].license], now)]_vars
=============================================================================
