----------------------------- MODULE BillingSync -----------------------------
(***************************************************************************)
(* Synchronising licenses and sites with Stripe                            *)
(* (src/services/stripeEventHandlers.ts, src/routes/stripeWebhook.ts):     *)
(* webhooks, delivered late, twice and out of order, and reconciliations   *)
(* run at the same time, each in one transaction, while the operator       *)
(* suspends sites, calls fail and the process crashes.                     *)
(*                                                                         *)
(* Stripe is external: what matters of a subscription is that each change  *)
(* has a number, an event that reports it, and the deadline it amounts to  *)
(* (how that is computed is module Grace).  The clock stands; what time    *)
(* does is in Grace and Entitlements.  A site exists (module Registration) *)
(* and its activations change here only by a subscription's first          *)
(* synchronisation.                                                        *)
(***************************************************************************)
EXTENDS Access, Integers

CONSTANTS
  Subs,         \* subscriptions, each with the license it has, or will have
  CustomerOf,   \* the Stripe customer of a subscription
  Sites,        \* numbers: the order of the sites' ids
  HomeOf,       \* the site named in a subscription's metadata
  Bound,        \* the sites active on a license that exists already
  Syncs,        \* slots for concurrent synchronisations
  MaxVersion,   \* bound on the states of each subscription
  MaxFailures   \* bound on failed synchronisations and crashes

ASSUME SyncAssumption ==
  /\ Subs # {}
  /\ Sites \subseteq Nat /\ IsFiniteSet(Sites)
  /\ CustomerOf \in [Subs -> Subs]
  /\ HomeOf \in [Subs -> Sites]
  /\ Bound \in [Subs -> SUBSET Sites]
  /\ MaxVersion \in [Subs -> Nat \ {0}] /\ MaxFailures \in Nat

VARIABLES
  stripe,    \* Stripe: the number of a subscription's state, and its deadline
  license,   \* License: the state it records (0: no license), status, expiresAt
  active,    \* LicenseActivation
  site,      \* CommunitySite
  receipts,  \* StripeEvent: <<subscription, number of the state it reports>>
  answered,  \* the events answered with 200
  seen,      \* the state of each license the rotation cache has loaded
  sync,      \* the synchronisations in progress
  failures

rows == <<license, active, site, receipts>>
vars == <<stripe, rows, answered, seen, sync, failures>>

Now == 1
Deadlines == {Now, Now + 2}   \* it has ended; it goes on
Time == 0 .. Now + 2
Events == UNION {{l} \X (1 .. MaxVersion[l]) : l \in Subs}

Paid(until) == IF until > Now THEN "ACTIVE" ELSE "EXPIRED"

(* event: the number of the state the event reports; 0: a reconciliation.    *)
(* v, until: what Stripe answered; v = 0: not asked, for the event is known. *)
(* locked: the rows of CommunitySite held, and todo those still to come.     *)
SyncStates ==
  [pc : {"idle", "lock", "write", "sites", "invalidate"},
   sub : Subs, event : Nat, v : Nat, until : Time,
   first : BOOLEAN, todo : SUBSET Sites, locked : SUBSET Sites,
   new : [Sites -> SiteRows(Time)]]

Idle ==
  [pc |-> "idle", sub |-> CHOOSE l \in Subs : TRUE, event |-> 0, v |-> 0, until |-> 0,
   first |-> FALSE, todo |-> {}, locked |-> {}, new |-> [s \in Sites |-> NewSite]]

(* Some subscriptions have been synchronised before, others never. *)
Init ==
  \E known \in SUBSET Subs, trial \in [net : {"none", "TRIAL"}] :
    /\ stripe = [l \in Subs |-> [v |-> 1, until |-> Now + 1]]
    /\ license = [l \in Subs |-> IF l \in known
                    THEN [v |-> 1, status |-> "ACTIVE", expires |-> Now + 1]
                    ELSE [v |-> 0, status |-> "none", expires |-> 0]]
    /\ active = {a \in Subs \X Sites : a[1] \in known /\ a[2] \in Bound[a[1]]}
    /\ site = [s \in Sites |-> IF \E l \in known : s \in Bound[l]
                 THEN [NewSite EXCEPT !.net = "ACTIVE", !.until = Now + 1]
                 ELSE IF trial.net = "TRIAL"
                 THEN [NewSite EXCEPT !.net = "TRIAL", !.trialUsed = TRUE, !.until = Now + 2]
                 ELSE NewSite]
    /\ receipts = {<<l, 1>> : l \in known}
    /\ answered = receipts
    /\ seen = [l \in Subs |-> license[l].v]
    /\ sync = [w \in Syncs |-> Idle]
    /\ failures = 0

-----------------------------------------------------------------------------
(* Locks.  MySQL holds them to the end of the transaction.                   *)

InTransaction(w) == sync[w].pc \in {"write", "sites"}
Customer(w) == CustomerOf[sync[w].sub]

(* The insertion of an activation holds its site's row shared. *)
Shares(w, s) == sync[w].pc = "sites" /\ sync[w].first /\ s = HomeOf[sync[w].sub]
Holds(w, s) == s \in sync[w].locked \/ Shares(w, s)

(* Mutant: the sites in the order the query returns them. *)
NextSiteUnsorted(w) ==
  IF sync[w].sub = Idle.sub
    THEN CHOOSE s \in sync[w].todo : \A t \in sync[w].todo : s =< t
    ELSE CHOOSE s \in sync[w].todo : \A t \in sync[w].todo : t =< s

(* The activations are sorted by siteId. *)
NextSite(w) == CHOOSE s \in sync[w].todo : \A t \in sync[w].todo : s =< t

WaitsFor(w, v) ==
  /\ w # v
  /\ \/ sync[w].pc = "lock" /\ InTransaction(v) /\ Customer(v) = Customer(w)
     \/ sync[w].pc = "sites" /\ sync[w].todo # {} /\ Holds(v, NextSite(w))

(* A set of which each waits for another holds a cycle. *)
Deadlocks == {C \in SUBSET Syncs : C # {} /\ \A w \in C : \E v \in C : WaitsFor(w, v)}

Goto(w, pc) == sync' = [sync EXCEPT ![w].pc = pc]
Leave(w) == sync' = [sync EXCEPT ![w] = Idle]

-----------------------------------------------------------------------------
(* Stripe, and the operator *)

Change(l, until) ==
  /\ stripe[l].v < MaxVersion[l]
  /\ stripe' = [stripe EXCEPT ![l] = [v |-> @.v + 1, until |-> until]]
  /\ UNCHANGED <<rows, answered, seen, sync, failures>>

(* An update of the row waits for the locks on it. *)
Suspend(s) ==
  /\ \A w \in Syncs : ~Holds(w, s)
  /\ site' = [site EXCEPT ![s].net = "SUSPENDED"]
  /\ UNCHANGED <<stripe, license, active, receipts, answered, seen, sync, failures>>

-----------------------------------------------------------------------------
(* synchronizeStripe *)

Begin(w, l, event) ==
  /\ sync[w].pc = "idle"
  /\ sync' = [sync EXCEPT ![w] = [Idle EXCEPT !.pc = "lock", !.sub = l, !.event = event]]
  /\ UNCHANGED <<stripe, rows, answered, seen, failures>>

(* Stripe delivers each event at least once, in any order. *)
Deliver(w, l, n) == Begin(w, l, n)

Reconcile(w, l) == Begin(w, l, 0)

(* Mutant: each delivery has a lock of its own. *)
LockFreeForAll(w) == TRUE

(* SELECT ... FOR UPDATE of the customer's row in BillingSyncLock *)
LockFree(w) == \A v \in Syncs : InTransaction(v) => Customer(v) # Customer(w)

(* "Fetched under the DB lock" *)
Fetched(w) ==
  LET l == sync[w].sub
  IN [sync[w] EXCEPT !.pc = "write", !.v = stripe[l].v, !.until = stripe[l].until,
                     !.first = license[l].v = 0]

(* A duplicate has its effects invalidated again, and nothing else. *)
TakeLock(w) ==
  /\ sync[w].pc = "lock"
  /\ LockFree(w)
  /\ IF <<sync[w].sub, sync[w].event>> \in receipts
       THEN Goto(w, "invalidate")
       ELSE sync' = [sync EXCEPT ![w] = Fetched(w)]
  /\ UNCHANGED <<stripe, rows, answered, seen, failures>>

(* The license is written, a first one with an activation on its home site,  *)
(* and the activations are listed.                                           *)
Activated(w) ==
  IF sync[w].first THEN active \cup {<<sync[w].sub, HomeOf[sync[w].sub]>>} ELSE active

WriteLicense(w) ==
  LET s == HomeOf[sync[w].sub]
  IN /\ sync[w].pc = "write"
     /\ sync[w].first => \A v \in Syncs : s \notin sync[v].locked
     /\ sync' = [sync EXCEPT ![w].pc = "sites",
                   ![w].todo = {t \in Sites : <<sync[w].sub, t>> \in Activated(w)}]
     /\ UNCHANGED <<stripe, rows, answered, seen, failures>>

Written(w) == [v |-> sync[w].v, status |-> Paid(sync[w].until), expires |-> sync[w].until]

(* Mutant: the licenses of other subscriptions are not looked at. *)
OwnDeadline(w, s) == {e \in {Written(w).expires} : Valid(Written(w), Now)}

(* The valid licenses of a site: the transaction sees its own write and what *)
(* others have committed.                                                    *)
ValidDeadlines(w, s) ==
  LET licenses == [license EXCEPT ![sync[w].sub] = Written(w)]
  IN {licenses[l].expires :
        l \in {k \in Subs : <<k, s>> \in Activated(w) /\ Valid(licenses[k], Now)}}

SyncSite(w) ==
  LET s == NextSite(w)
  IN /\ sync[w].pc = "sites"
     /\ sync[w].todo # {}
     /\ \A v \in Syncs \ {w} : ~Holds(v, s)
     /\ sync' = [sync EXCEPT
          ![w].todo = @ \ {s}, ![w].locked = @ \cup {s},
          ![w].new[s] = Synchronised(site[s], ValidDeadlines(w, s), Now)]
     /\ UNCHANGED <<stripe, rows, answered, seen, failures>>

(* Mutant: the receipt is not written with the rest. *)
ReceiptsLater(w) == receipts

Receipts(w) ==
  IF sync[w].event = 0 THEN receipts ELSE receipts \cup {<<sync[w].sub, sync[w].event>>}

Commit(w) ==
  /\ sync[w].pc = "sites"
  /\ sync[w].todo = {}
  /\ license' = [license EXCEPT ![sync[w].sub] = Written(w)]
  /\ active' = Activated(w)
  /\ site' = [s \in Sites |-> IF s \in sync[w].locked THEN sync[w].new[s] ELSE site[s]]
  /\ receipts' = Receipts(w)
  /\ sync' = [sync EXCEPT ![w] = [Idle EXCEPT !.pc = "invalidate", !.sub = sync[w].sub,
                                    !.event = sync[w].event, !.v = sync[w].v]]
  /\ UNCHANGED <<stripe, answered, seen, failures>>

(* Mutant: a duplicate is answered without invalidating again. *)
ReloadedOnce(w) == IF sync[w].v = 0 THEN seen ELSE [l \in Subs |-> license[l].v]

(* The rotation cache has loaded what is committed (module RotationCache). *)
Reloaded(w) == [l \in Subs |-> license[l].v]

(* rotationCache.invalidate, then the answer *)
Answer(w) ==
  /\ sync[w].pc = "invalidate"
  /\ seen' = Reloaded(w)
  /\ answered' = IF sync[w].event = 0 THEN answered
                 ELSE answered \cup {<<sync[w].sub, sync[w].event>>}
  /\ Leave(w)
  /\ UNCHANGED <<stripe, rows, failures>>

(* A call of Stripe, a query or the reload fails, or the transaction takes   *)
(* too long: what is not committed is rolled back, and the answer is an error. *)
Fail(w) ==
  /\ failures < MaxFailures
  /\ sync[w].pc # "idle"
  /\ Leave(w)
  /\ failures' = failures + 1
  /\ UNCHANGED <<stripe, rows, answered, seen>>

(* MySQL aborts one of a cycle. *)
AbortVictim(w) ==
  /\ \E C \in Deadlocks : w \in C
  /\ Leave(w)
  /\ UNCHANGED <<stripe, rows, answered, seen, failures>>

(* The process ends and is started again: its cache is loaded anew. *)
Crash ==
  /\ failures < MaxFailures
  /\ sync' = [w \in Syncs |-> Idle]
  /\ seen' = [l \in Subs |-> license[l].v]
  /\ failures' = failures + 1
  /\ UNCHANGED <<stripe, rows, answered>>

Step(w) ==
  TakeLock(w) \/ WriteLicense(w) \/ SyncSite(w) \/ Commit(w) \/ Answer(w)

Next ==
  \/ \E l \in Subs, until \in Deadlines : Change(l, until)
  \/ \E s \in Sites : Suspend(s)
  \/ \E w \in Syncs : \/ \E l \in Subs : \E n \in 1 .. stripe[l].v : Deliver(w, l, n)
                      \/ \E l \in Subs : Reconcile(w, l)
                      \/ Step(w) \/ Fail(w) \/ AbortVictim(w)
  \/ Crash

Spec == Init /\ [][Next]_vars

-----------------------------------------------------------------------------
(* Properties *)

TypeOK ==
  /\ stripe \in [Subs -> [v : Nat, until : Time]]
  /\ license \in [Subs -> [v : Nat, status : {"none", "ACTIVE", "EXPIRED"},
                           expires : Time]]
  /\ active \subseteq Subs \X Sites
  /\ site \in [Sites -> SiteRows(Time)]
  /\ receipts \subseteq Events /\ answered \subseteq receipts
  /\ seen \in [Subs -> Nat]
  /\ sync \in [Syncs -> SyncStates]
  /\ failures \in 0 .. MaxFailures

(* However late, often and out of order events are delivered, and whatever   *)
(* fails, the license never returns to an older state of its subscription    *)
(* and a receipt is given once, for a state as recent as its event           *)
(* (stripeEventHandlers.ts:50, 137-146).                                     *)
Ledger == INSTANCE BillingLedger WITH
  current <- [l \in Subs |-> stripe[l].v],
  recorded <- [l \in Subs |-> license[l].v]
ImplementsLedger == Ledger!Spec

(* A site two customers' licenses are active on follows both: no             *)
(* synchronisation leaves it with the deadline of a license that another,    *)
(* running at the same time, has replaced ("Another valid license must       *)
(* survive cancellation of an older subscription",                           *)
(* stripeEventHandlers.ts:115).                                              *)
SiteFollowsLicenses ==
  \A s \in Sites :
    LET licenses == {l \in Subs : <<l, s>> \in active}
        valid == {l \in licenses : Valid(license[l], Now)}
    IN site[s].net \notin Sanctions /\ licenses # {} =>
         IF valid # {}
           THEN site[s].net = "ACTIVE" /\ site[s].until = Latest({license[l].expires : l \in valid})
           ELSE ~Eligible(site[s], Now) \/ site[s].net = "TRIAL"

(* A suspension the operator commits before or during a synchronisation is   *)
(* not undone by it (stripeEventHandlers.ts:112-114).                        *)
SanctionsSurviveBilling ==
  [][\A s \in Sites : site[s].net \in Sanctions => site'[s].net \in Sanctions]_vars

(* Locking sites in the order of their ids keeps synchronisations from       *)
(* waiting for each other in a cycle, except where a first synchronisation   *)
(* holds its new activation's site shared (stripeEventHandlers.ts:111-112).  *)
CyclesHaveAFirstSync ==
  \A C \in Deadlocks : \E w \in C : sync[w].first

(* An event answered with 200 is in effect: the license records a state as   *)
(* recent, and the rotation cache has loaded it, also if the process crashed *)
(* or the reload failed after the commit (stripeEventHandlers.ts:138-148).   *)
AnsweredIsInEffect ==
  \A e \in answered : license[e[1]].v >= e[2] /\ seen[e[1]] >= e[2]
=============================================================================
