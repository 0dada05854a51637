-------------------------- MODULE BillingSyncProofs --------------------------
(* Proofs about BillingSync, for any customers, subscriptions, sites and      *)
(* numbers of concurrent synchronisations, failures and changes.              *)
EXTENDS BillingSync, FiniteSetTheorems, TLAPS

InTx(r) == r.pc \in {"write", "sites"}

(* What holds of a synchronisation: its event is none that Stripe has not     *)
(* sent; inside the transaction it is not yet recorded, and nobody has        *)
(* recorded a newer state than the one fetched; it writes no site it has not  *)
(* locked, and of a sanctioned one it has read the sanction.                  *)
Sound(r) ==
  /\ r \in SyncStates
  /\ r.pc # "idle" => r.event =< stripe[r.sub].v
  /\ InTx(r) => /\ license[r.sub].v =< r.v /\ 1 =< r.v /\ r.v =< stripe[r.sub].v
                /\ r.event =< r.v /\ <<r.sub, r.event>> \notin receipts
  /\ r.pc = "invalidate" => r.event = 0 \/ <<r.sub, r.event>> \in receipts
  /\ r.locked # {} => r.pc = "sites"
  /\ \A s \in r.locked : site[s].net \in Sanctions => r.new[s].net \in Sanctions

(* Two synchronisations are of different customers, or wait for each other,   *)
(* and they lock different sites.                                             *)
Apart(r, q) ==
  /\ InTx(r) /\ InTx(q) => CustomerOf[r.sub] # CustomerOf[q.sub]
  /\ r.locked \cap q.locked = {}

SyncInv ==
  /\ \A w \in Syncs : Sound(sync[w])
  /\ \A w, v \in Syncs : w # v => Apart(sync[w], sync[v])

(* The versions of a subscription: Stripe is ahead of the license, and the    *)
(* license of the cache; a receipt vouches for what the license records, and  *)
(* an answer for what the cache has loaded.                                   *)
VersionInv ==
  /\ \A l \in Subs : /\ 1 =< stripe[l].v /\ stripe[l].v =< MaxVersion[l]
                     /\ license[l].v =< stripe[l].v /\ seen[l] =< license[l].v
  /\ \A e \in receipts : 1 =< e[2] /\ e[2] =< license[e[1]].v
  /\ \A e \in answered : e[2] =< seen[e[1]]

RowsOK ==
  /\ stripe \in [Subs -> [v : Nat, until : Time]]
  /\ license \in [Subs -> [v : Nat, status : {"none", "ACTIVE", "EXPIRED"},
                           expires : Time]]
  /\ active \subseteq Subs \X Sites
  /\ site \in [Sites -> SiteRows(Time)]
  /\ receipts \subseteq Subs \X Nat /\ answered \subseteq receipts
  /\ seen \in [Subs -> Nat]
  /\ failures \in 0 .. MaxFailures
  /\ sync \in [Syncs -> SyncStates]

(* The inductive invariant. *)
BillingInv == RowsOK /\ VersionInv /\ SyncInv

-----------------------------------------------------------------------------
(* Of subsets of a finite set, each with an index in it, one is minimal. *)
LEMMA MinimalSubset ==
  ASSUME NEW T, T # {}, IsFiniteSet(T), NEW f \in [T -> SUBSET T]
  PROVE  \E x \in T : \A y \in T : f[y] \subseteq f[x] => f[y] = f[x]
<1> DEFINE U == {f[x] : x \in T}
<1>1. U \subseteq SUBSET T /\ U # {}
  OBVIOUS
<1>2. IsWellFoundedOn(StrictSubsetOrdering(T), SUBSET T)
  BY FS_StrictSubsetOrderingWellFounded, FS_FiniteSubsetsOfFinite
<1> HIDE DEF U
<1>3. PICK u \in U : \A v \in U : <<v, u>> \notin StrictSubsetOrdering(T)
  BY <1>1, <1>2, WFMin
<1>4. PICK x \in T : u = f[x]
  BY <1>3 DEF U
<1>5. ASSUME NEW y \in T, f[y] \subseteq f[x], f[y] # f[x] PROVE FALSE
  <2>1. <<f[y], f[x]>> \in (SUBSET T) \X (SUBSET T)
    OBVIOUS
  <2>2. <<f[y], f[x]>> \in StrictSubsetOrdering(T)
    BY <1>5, <2>1 DEF StrictSubsetOrdering
  <2>3. f[y] \in U
    BY DEF U
  <2> QED BY <1>3, <1>4, <2>2, <2>3
<1> QED BY <1>5

(* A finite set of numbers has a least and a greatest element: those with    *)
(* the fewest below and above them.                                          *)
LEMMA Extremes ==
  ASSUME NEW T \in SUBSET Nat, T # {}, IsFiniteSet(T)
  PROVE  /\ \E x \in T : \A y \in T : x =< y
         /\ \E x \in T : \A y \in T : y =< x
<1>1. \E x \in T : \A y \in T : x =< y
  <2> DEFINE f == [x \in T |-> {z \in T : z < x}]
  <2>1. f \in [T -> SUBSET T]
    OBVIOUS
  <2>2. \A x, y \in T : y \in f[x] <=> y < x
    OBVIOUS
  <2> HIDE DEF f
  <2>0. \A g \in [T -> SUBSET T] :
          \E x \in T : \A y \in T : g[y] \subseteq g[x] => g[y] = g[x]
    BY MinimalSubset
  <2>3. PICK x \in T : \A y \in T : f[y] \subseteq f[x] => f[y] = f[x]
    BY <2>0, <2>1
  <2>4. ASSUME NEW y \in T, y < x PROVE FALSE
    <3>1. \A z \in f[y] : z \in T /\ z \in Nat /\ x \in Nat /\ y \in Nat /\ z < y
      BY <2>1, <2>2
    <3>2. f[y] \subseteq f[x]
      BY <2>2, <2>4, <3>1
    <3>3. y \in f[x] /\ y \notin f[y]
      <4>1. y \in Nat
        OBVIOUS
      <4> QED BY <2>2, <2>4, <4>1
    <3> QED BY <2>3, <3>2, <3>3
  <2>5. \A y \in T : x \in Nat /\ y \in Nat /\ ~(y < x)
    BY <2>4
  <2> QED BY <2>5
<1>2. \E x \in T : \A y \in T : y =< x
  <2> DEFINE f == [x \in T |-> {z \in T : z > x}]
  <2>1. f \in [T -> SUBSET T]
    OBVIOUS
  <2>2. \A x, y \in T : y \in f[x] <=> y > x
    OBVIOUS
  <2> HIDE DEF f
  <2>0. \A g \in [T -> SUBSET T] :
          \E x \in T : \A y \in T : g[y] \subseteq g[x] => g[y] = g[x]
    BY MinimalSubset
  <2>3. PICK x \in T : \A y \in T : f[y] \subseteq f[x] => f[y] = f[x]
    BY <2>0, <2>1
  <2>4. ASSUME NEW y \in T, y > x PROVE FALSE
    <3>1. \A z \in f[y] : z \in T /\ z \in Nat /\ x \in Nat /\ y \in Nat /\ z > y
      BY <2>1, <2>2
    <3>2. f[y] \subseteq f[x]
      BY <2>2, <2>4, <3>1
    <3>3. y \in f[x] /\ y \notin f[y]
      <4>1. y \in Nat
        OBVIOUS
      <4> QED BY <2>2, <2>4, <4>1
    <3> QED BY <2>3, <3>2, <3>3
  <2>5. \A y \in T : x \in Nat /\ y \in Nat /\ ~(y > x)
    BY <2>4
  <2> QED BY <2>5
<1> QED BY <1>1, <1>2

(* The instants are natural numbers. *)
LEMMA Instants ==
  /\ Time = 0 .. 3 /\ Now = 1 /\ 0 \in Time /\ Now \in Time /\ Now + 1 \in Time
  /\ Now + 2 \in Time /\ Deadlines \subseteq Time
BY DEF Time, Now, Deadlines

(* The latest of some deadlines is one of them. *)
LEMMA LatestIsADeadline ==
  ASSUME NEW D \in SUBSET Time, D # {}
  PROVE  Latest(D) \in D
<1>1. IsFiniteSet(0 .. 3)
  <2>1. 0 \in Int /\ 3 \in Int
    OBVIOUS
  <2> QED BY <2>1, FS_Interval, Zenon
<1>2. D \in SUBSET Nat /\ D \in SUBSET (0 .. 3)
  BY Instants
<1>3. IsFiniteSet(D)
  BY <1>1, <1>2, FS_Subset
<1> QED BY <1>2, <1>3, Extremes DEF Latest

(* A synchronised row is a row. *)
LEMMA SynchronisedType ==
  ASSUME NEW row \in SiteRows(Time), NEW D \in SUBSET Time
  PROVE  Synchronised(row, D, Now) \in SiteRows(Time)
<1>1. D # {} => Latest(D) \in Time
  BY LatestIsADeadline
<1> QED BY <1>1, Instants DEF Synchronised, SiteRows, NetworkStatuses

(* The row of a new site. *)
LEMMA NewSiteIsARow == NewSite \in SiteRows(Time)
BY Instants DEF NewSite, SiteRows, NetworkStatuses

(* No synchronisation. *)
LEMMA IdleSound ==
  /\ Idle \in SyncStates /\ Idle.pc = "idle" /\ Idle.locked = {}
  /\ Idle.event = 0 /\ Idle.v = 0 /\ Idle.sub \in Subs
  /\ Sound(Idle)
  /\ \A q : Apart(Idle, q)
<1>1. (CHOOSE l \in Subs : TRUE) \in Subs
  BY SyncAssumption
<1>2. [s \in Sites |-> NewSite] \in [Sites -> SiteRows(Time)]
  BY NewSiteIsARow
<1>3. Idle \in SyncStates
  BY <1>1, <1>2, Instants DEF Idle, SyncStates
<1>4. Idle.pc = "idle" /\ Idle.locked = {} /\ Idle.event = 0 /\ Idle.v = 0
      /\ Idle.sub \in Subs
  BY <1>1 DEF Idle
<1>5. Sound(Idle)
  BY <1>3, <1>4 DEF Sound, InTx
<1>6. \A q : Apart(Idle, q)
  BY <1>4 DEF Apart, InTx
<1> QED BY <1>3, <1>4, <1>5, <1>6

(* One synchronisation moves on, and nothing is committed. *)
LEMMA MoveOne ==
  ASSUME BillingInv, NEW w \in Syncs, NEW r, Sound(r),
         \A v \in Syncs \ {w} : Apart(r, sync[v]),
         sync' = [sync EXCEPT ![w] = r], UNCHANGED <<stripe, rows>>
  PROVE  SyncInv' /\ sync' \in [Syncs -> SyncStates]
<1>0. UNCHANGED <<stripe, license, site, receipts>>
  BY DEF rows
<1>1. sync \in [Syncs -> SyncStates] /\ r \in SyncStates
  BY DEF BillingInv, RowsOK, Sound
<1>2. sync'[w] = r /\ \A v \in Syncs \ {w} : sync'[v] = sync[v]
  BY <1>1
<1>3. \A v \in Syncs : Sound(sync[v])
  BY DEF BillingInv, SyncInv
<1>4. \A v \in Syncs : Sound(sync'[v])
  BY <1>2, <1>3
<1>5. \A v \in Syncs : Sound(sync[v])'
  BY <1>0, <1>4 DEF Sound, InTx
<1>6. \A v, u \in Syncs : v # u => Apart(sync[v], sync[u])
  BY DEF BillingInv, SyncInv
<1>7. \A p, q : Apart(p, q) => Apart(q, p)
  BY DEF Apart
<1>8. ASSUME NEW v \in Syncs, NEW u \in Syncs, v # u
      PROVE  Apart(sync'[v], sync'[u])
  <2>1. CASE v = w
    BY <1>2, <1>8, <2>1
  <2>2. CASE u = w
    BY <1>2, <1>7, <1>8, <2>2
  <2>3. CASE v # w /\ u # w
    BY <1>2, <1>6, <1>8, <2>3
  <2> QED BY <2>1, <2>2, <2>3
<1>9. \A v, u \in Syncs : v # u => Apart(sync[v], sync[u])'
  BY <1>8 DEF Apart, InTx
<1>10. sync' \in [Syncs -> SyncStates]
  BY <1>1
<1> QED BY <1>5, <1>9, <1>10 DEF SyncInv

(* Nothing but the synchronisations changes. *)
LEMMA RestStays ==
  ASSUME BillingInv, UNCHANGED <<stripe, rows, answered, seen>>,
         sync' \in [Syncs -> SyncStates], failures' \in 0 .. MaxFailures
  PROVE  RowsOK' /\ VersionInv'
<1>1. UNCHANGED <<stripe, license, active, site, receipts, answered, seen>>
  BY DEF rows
<1>2. RowsOK'
  BY <1>1 DEF BillingInv, RowsOK
<1>3. VersionInv'
  BY <1>1 DEF BillingInv, VersionInv
<1> QED BY <1>2, <1>3

-----------------------------------------------------------------------------
(* Stripe is ahead from the start. *)
LEMMA InvInit == Init => BillingInv
<1> SUFFICES ASSUME Init PROVE BillingInv
  OBVIOUS
<1> USE SyncAssumption, Instants
<1>1. PICK known \in SUBSET Subs, trial \in [net : {"none", "TRIAL"}] :
    /\ stripe = [l \in Subs |-> [v |-> 1, until |-> Now + 1]]
    /\ license = [l \in Subs |-> IF l \in known
                    THEN [v |-> 1, status |-> "ACTIVE", expires |-> Now + 1]
                    ELSE [v |-> 0, status |-> "none", expires |-> 0]]
    /\ active = {a \in Subs \X Sites : a[1] \in known /\ a[2] \in Bound[a[1]]}
    /\ site = [s \in Sites |-> IF \E l \in known : s \in Bound[l]
                 THEN [NewSite EXCEPT !.net = "ACTIVE", !.until = Now + 1]
                 ELSE IF trial.net = "TRIAL"
                 THEN [NewSite EXCEPT !.net = "TRIAL", !.trialUsed = TRUE, !.until = Now + 2]
                 ELSE NewSite]
    /\ receipts = {<<l, 1>> : l \in known}
    /\ answered = receipts
    /\ seen = [l \in Subs |-> license[l].v]
    /\ sync = [w \in Syncs |-> Idle]
    /\ failures = 0
  BY DEF Init
<1>2. /\ [NewSite EXCEPT !.net = "ACTIVE", !.until = Now + 1] \in SiteRows(Time)
      /\ [NewSite EXCEPT !.net = "TRIAL", !.trialUsed = TRUE, !.until = Now + 2]
           \in SiteRows(Time)
      /\ NewSite \in SiteRows(Time)
  BY NewSiteIsARow DEF NewSite, SiteRows, NetworkStatuses
<1>3. site \in [Sites -> SiteRows(Time)]
  BY <1>1, <1>2
<1>4. /\ stripe \in [Subs -> [v : Nat, until : Time]]
      /\ license \in [Subs -> [v : Nat, status : {"none", "ACTIVE", "EXPIRED"},
                               expires : Time]]
  BY <1>1
<1>5. /\ active \subseteq Subs \X Sites /\ receipts \subseteq Subs \X Nat
      /\ answered \subseteq receipts /\ failures \in 0 .. MaxFailures
  BY <1>1
<1>6. /\ \A l \in Subs : /\ stripe[l].v = 1 /\ license[l].v \in {0, 1}
                         /\ seen[l] = license[l].v /\ MaxVersion[l] \in Nat \ {0}
      /\ \A e \in receipts : e[2] = 1 /\ license[e[1]].v = 1 /\ seen[e[1]] = 1
  BY <1>1
<1>7. VersionInv
  BY <1>1, <1>6 DEF VersionInv
<1>8. seen \in [Subs -> Nat]
  BY <1>1, <1>6
<1>9. SyncInv /\ sync \in [Syncs -> SyncStates]
  BY <1>1, IdleSound DEF SyncInv
<1> QED BY <1>3, <1>4, <1>5, <1>7, <1>8, <1>9 DEF BillingInv, RowsOK

(* Stripe's numbers only grow. *)
LEMMA InvChange ==
  ASSUME BillingInv, NEW l \in Subs, NEW until \in Deadlines, Change(l, until)
  PROVE  BillingInv'
<1> USE Instants, SyncAssumption
<1>1. /\ stripe' = [stripe EXCEPT ![l] = [v |-> stripe[l].v + 1, until |-> until]]
      /\ UNCHANGED <<license, active, site, receipts, answered, seen, sync, failures>>
      /\ stripe[l].v < MaxVersion[l]
  BY DEF Change, rows
<1>2. stripe \in [Subs -> [v : Nat, until : Time]] /\ stripe[l].v \in Nat
  BY DEF BillingInv, RowsOK
<1>3. stripe' \in [Subs -> [v : Nat, until : Time]]
  BY <1>1, <1>2
<1>4. \A k \in Subs : /\ stripe'[k].v \in Nat /\ stripe[k].v \in Nat
                      /\ stripe[k].v =< stripe'[k].v
                      /\ 1 =< stripe[k].v /\ stripe[k].v =< MaxVersion[k]
  BY <1>1, <1>2 DEF BillingInv, VersionInv
<1>5. \A k \in Subs : stripe'[k].v =< MaxVersion[k]
  BY <1>1, <1>2, <1>4
<1>6. RowsOK'
  BY <1>1, <1>3 DEF BillingInv, RowsOK
<1>7. VersionInv'
  <2>1. \A k \in Subs : /\ license[k].v \in Nat /\ license[k].v =< stripe[k].v
                        /\ seen[k] =< license[k].v
    BY DEF BillingInv, VersionInv, RowsOK
  <2>2. \A k \in Subs : 1 =< stripe'[k].v /\ license[k].v =< stripe'[k].v
    BY <1>4, <2>1
  <2> QED BY <1>1, <1>5, <2>1, <2>2 DEF BillingInv, VersionInv
<1>8. ASSUME NEW w \in Syncs PROVE Sound(sync[w])'
  <2>1. Sound(sync[w]) /\ sync' = sync
    BY <1>1 DEF BillingInv, SyncInv
  <2>2. sync[w].sub \in Subs /\ sync[w].event \in Nat /\ sync[w].v \in Nat
    BY <2>1 DEF Sound, SyncStates
  <2>3. /\ sync[w].event =< stripe[sync[w].sub].v
             => sync[w].event =< stripe'[sync[w].sub].v
        /\ sync[w].v =< stripe[sync[w].sub].v => sync[w].v =< stripe'[sync[w].sub].v
    BY <1>4, <2>2
  <2> QED BY <1>1, <2>1, <2>3 DEF Sound, InTx
<1>9. SyncInv'
  BY <1>1, <1>8 DEF BillingInv, SyncInv, Apart, InTx
<1> QED BY <1>6, <1>7, <1>9 DEF BillingInv

(* A suspension waits for who has read the row to write it. *)
LEMMA InvSuspend ==
  ASSUME BillingInv, NEW s \in Sites, Suspend(s)
  PROVE  BillingInv'
<1>1. /\ site' = [site EXCEPT ![s].net = "SUSPENDED"]
      /\ UNCHANGED <<stripe, license, active, receipts, answered, seen, sync, failures>>
      /\ \A w \in Syncs : s \notin sync[w].locked
  BY DEF Suspend, Holds
<1>2. site \in [Sites -> SiteRows(Time)]
  BY DEF BillingInv, RowsOK
<1>3. site' \in [Sites -> SiteRows(Time)]
  BY <1>1, <1>2 DEF SiteRows, NetworkStatuses, Sanctions
<1>4. RowsOK' /\ VersionInv'
  BY <1>1, <1>3 DEF BillingInv, RowsOK, VersionInv
<1>5. ASSUME NEW w \in Syncs PROVE Sound(sync[w])'
  <2>1. Sound(sync[w]) /\ sync' = sync /\ s \notin sync[w].locked
    BY <1>1 DEF BillingInv, SyncInv
  <2>2. \A t \in sync[w].locked : site'[t] = site[t]
    <3>1. sync[w].locked \subseteq Sites
      BY <2>1 DEF Sound, SyncStates
    <3> QED BY <1>1, <1>2, <2>1, <3>1
  <2> QED BY <1>1, <2>1, <2>2 DEF Sound, InTx
<1>6. SyncInv'
  BY <1>1, <1>5 DEF BillingInv, SyncInv, Apart, InTx
<1> QED BY <1>4, <1>6 DEF BillingInv

(* A delivery or a reconciliation begins. *)
LEMMA InvBegin ==
  ASSUME BillingInv, NEW w \in Syncs, NEW l \in Subs, NEW n \in Nat,
         n =< stripe[l].v, Begin(w, l, n)
  PROVE  BillingInv'
<1> DEFINE r == [Idle EXCEPT !.pc = "lock", !.sub = l, !.event = n]
<1>1. sync' = [sync EXCEPT ![w] = r] /\ UNCHANGED <<stripe, rows, answered, seen, failures>>
  BY DEF Begin
<1>2. r \in SyncStates /\ r.pc = "lock" /\ r.sub = l /\ r.event = n /\ r.locked = {}
  BY IdleSound DEF SyncStates
<1>3. Sound(r) /\ \A q : Apart(r, q)
  <2> HIDE DEF r
  <2> QED BY <1>2 DEF Sound, Apart, InTx
<1> HIDE DEF r
<1>4. SyncInv' /\ sync' \in [Syncs -> SyncStates]
  BY <1>1, <1>3, MoveOne
<1> QED BY <1>1, <1>4, RestStays DEF BillingInv, RowsOK

(* What a step does to the synchronisation it is a step of. *)
LEMMA RecordOf ==
  ASSUME BillingInv, NEW w \in Syncs
  PROVE  /\ sync \in [Syncs -> SyncStates] /\ sync[w] \in SyncStates /\ Sound(sync[w])
         /\ \A v \in Syncs \ {w} : Apart(sync[w], sync[v])
         /\ sync[w].sub \in Subs /\ sync[w].event \in Nat /\ sync[w].v \in Nat
         /\ sync[w].until \in Time /\ sync[w].first \in BOOLEAN
         /\ sync[w].todo \in SUBSET Sites /\ sync[w].locked \in SUBSET Sites
         /\ sync[w].new \in [Sites -> SiteRows(Time)]
BY DEF BillingInv, SyncInv, RowsOK, SyncStates

(* Under the lock of the customer's row nobody of the same customer is inside. *)
LEMMA InvTakeLock ==
  ASSUME BillingInv, NEW w \in Syncs, TakeLock(w)
  PROVE  BillingInv'
<1> USE RecordOf
<1>1. sync[w].pc = "lock" /\ LockFree(w) /\ UNCHANGED <<stripe, rows, answered, seen, failures>>
  BY DEF TakeLock
<1>2. sync[w].locked = {} /\ sync[w].event =< stripe[sync[w].sub].v
  BY <1>1 DEF Sound
<1>3. SyncInv' /\ sync' \in [Syncs -> SyncStates]
  <2>1. CASE <<sync[w].sub, sync[w].event>> \in receipts
    <3> DEFINE r == [sync[w] EXCEPT !.pc = "invalidate"]
    <3>1. sync' = [sync EXCEPT ![w] = r]
      BY <2>1 DEF TakeLock, Goto
    <3>2. r \in SyncStates /\ r.pc = "invalidate" /\ r.sub = sync[w].sub
          /\ r.event = sync[w].event /\ r.locked = {}
      BY <1>2 DEF SyncStates
    <3> HIDE DEF r
    <3>3. Sound(r) /\ \A q : Apart(r, q)
      BY <1>2, <2>1, <3>2 DEF Sound, Apart, InTx
    <3> QED BY <1>1, <3>1, <3>3, MoveOne
  <2>2. CASE <<sync[w].sub, sync[w].event>> \notin receipts
    <3> DEFINE r == Fetched(w)
    <3>1. sync' = [sync EXCEPT ![w] = r]
      BY <2>2 DEF TakeLock
    <3>2. /\ stripe[sync[w].sub].v \in Nat /\ stripe[sync[w].sub].until \in Time
          /\ 1 =< stripe[sync[w].sub].v
          /\ license[sync[w].sub].v =< stripe[sync[w].sub].v
      BY DEF BillingInv, RowsOK, VersionInv
    <3>3. r \in SyncStates /\ r.pc = "write" /\ r.sub = sync[w].sub
          /\ r.event = sync[w].event /\ r.locked = {} /\ r.v = stripe[sync[w].sub].v
      BY <1>2, <3>2 DEF SyncStates, Fetched
    <3> HIDE DEF r
    <3>4. Sound(r)
      BY <1>2, <2>2, <3>2, <3>3 DEF Sound, InTx
    <3>5. \A v \in Syncs \ {w} : Apart(r, sync[v])
      <4>1. ASSUME NEW v \in Syncs, InTx(sync[v])
            PROVE  CustomerOf[sync[v].sub] # CustomerOf[sync[w].sub]
        BY <1>1, <4>1 DEF LockFree, InTransaction, Customer, InTx
      <4> QED BY <3>3, <4>1 DEF Apart
    <3> QED BY <1>1, <3>1, <3>4, <3>5, MoveOne
  <2> QED BY <2>1, <2>2
<1> QED BY <1>1, <1>3, RestStays DEF BillingInv, RowsOK

(* Nothing is locked yet, and the activations are no part of the invariant. *)
LEMMA InvWriteLicense ==
  ASSUME BillingInv, NEW w \in Syncs, WriteLicense(w)
  PROVE  BillingInv'
<1> USE RecordOf
<1> DEFINE todo == {t \in Sites : <<sync[w].sub, t>> \in Activated(w)}
           r == [sync[w] EXCEPT !.pc = "sites", !.todo = todo]
<1>1. /\ sync[w].pc = "write" /\ UNCHANGED <<stripe, rows, answered, seen, failures>>
      /\ sync' = [sync EXCEPT ![w].pc = "sites", ![w].todo = todo]
  BY DEF WriteLicense
<1>2. todo \in SUBSET Sites
  OBVIOUS
<1> HIDE DEF todo
<1>3. sync' = [sync EXCEPT ![w] = r]
  BY <1>1
<1>4. /\ r \in SyncStates /\ r.pc = "sites" /\ r.sub = sync[w].sub
      /\ r.event = sync[w].event /\ r.locked = sync[w].locked /\ r.v = sync[w].v
      /\ r.new = sync[w].new
  BY <1>2 DEF SyncStates
<1> HIDE DEF r
<1>5. Sound(r) /\ \A v \in Syncs \ {w} : Apart(r, sync[v])
  BY <1>1, <1>4 DEF Sound, InTx, Apart
<1>6. SyncInv' /\ sync' \in [Syncs -> SyncStates]
  BY <1>1, <1>3, <1>5, MoveOne
<1> QED BY <1>1, <1>6, RestStays DEF BillingInv, RowsOK

(* The site of todo with the least id is in todo. *)
LEMMA NextSiteInTodo ==
  ASSUME BillingInv, NEW w \in Syncs, sync[w].todo # {}
  PROVE  /\ NextSite(w) \in sync[w].todo /\ NextSite(w) \in Sites
         /\ \A t \in sync[w].todo : NextSite(w) =< t
<1>1. sync[w].todo \in SUBSET Nat /\ sync[w].todo \in SUBSET Sites
  BY RecordOf, SyncAssumption
<1>2. \E s \in sync[w].todo : \A t \in sync[w].todo : s =< t
  BY <1>1, SyncAssumption, FS_Subset, Extremes
<1> QED BY <1>1, <1>2 DEF NextSite

(* The row is read when it is locked: a sanction on it is kept. *)
LEMMA InvSyncSite ==
  ASSUME BillingInv, NEW w \in Syncs, SyncSite(w)
  PROVE  BillingInv'
<1> USE RecordOf
<1> DEFINE s == NextSite(w)
           row == Synchronised(site[s], ValidDeadlines(w, s), Now)
           r == [sync[w] EXCEPT !.todo = @ \ {s}, !.locked = @ \cup {s}, !.new[s] = row]
<1>1. /\ sync[w].pc = "sites" /\ sync[w].todo # {}
      /\ \A v \in Syncs \ {w} : ~Holds(v, s)
      /\ sync' = [sync EXCEPT ![w].todo = @ \ {s}, ![w].locked = @ \cup {s},
                              ![w].new[s] = row]
      /\ UNCHANGED <<stripe, rows, answered, seen, failures>>
  BY DEF SyncSite
<1>2. s \in Sites
  BY <1>1, NextSiteInTodo
<1>3. ValidDeadlines(w, s) \in SUBSET Time
  <2>1. Written(w).expires \in Time
    BY DEF Written
  <2>2. license \in [Subs -> [v : Nat, status : {"none", "ACTIVE", "EXPIRED"},
                              expires : Time]]
    BY DEF BillingInv, RowsOK
  <2>3. \A l \in Subs : [license EXCEPT ![sync[w].sub] = Written(w)][l].expires \in Time
    BY <2>1, <2>2
  <2> QED BY <2>3 DEF ValidDeadlines
<1>4. site[s] \in SiteRows(Time)
  BY <1>2 DEF BillingInv, RowsOK
<1>5. row \in SiteRows(Time)
  BY <1>3, <1>4, SynchronisedType
<1>6. site[s].net \in Sanctions => row.net \in Sanctions
  BY DEF Synchronised
<1> HIDE DEF s, row
<1>7. sync' = [sync EXCEPT ![w] = r]
  BY <1>1
<1>8. /\ r \in SyncStates /\ r.pc = "sites" /\ r.sub = sync[w].sub
      /\ r.event = sync[w].event /\ r.locked = sync[w].locked \cup {s}
      /\ r.v = sync[w].v /\ r.new = [sync[w].new EXCEPT ![s] = row]
  BY <1>1, <1>2, <1>5 DEF SyncStates
<1> HIDE DEF r
<1>9. Sound(r)
  <2>1. \A t \in r.locked : site[t].net \in Sanctions => r.new[t].net \in Sanctions
    <3>1. sync[w].new \in [Sites -> SiteRows(Time)] /\ sync[w].locked \subseteq Sites
      OBVIOUS
    <3>2. r.new[s] = row /\ \A t \in sync[w].locked \ {s} : r.new[t] = sync[w].new[t]
      BY <1>2, <1>8, <3>1
    <3>3. \A t \in sync[w].locked :
            site[t].net \in Sanctions => sync[w].new[t].net \in Sanctions
      BY DEF Sound
    <3> QED BY <1>6, <1>8, <3>2, <3>3
  <2> QED BY <1>1, <1>8, <2>1 DEF Sound, InTx
<1>10. \A v \in Syncs \ {w} : Apart(r, sync[v])
  <2>1. \A v \in Syncs \ {w} : s \notin sync[v].locked
    BY <1>1 DEF Holds
  <2> QED BY <1>1, <1>8, <2>1 DEF Apart, InTx
<1>11. SyncInv' /\ sync' \in [Syncs -> SyncStates]
  BY <1>1, <1>7, <1>9, <1>10, MoveOne
<1> QED BY <1>1, <1>11, RestStays DEF BillingInv, RowsOK

(* What is committed: a state as recent as the event, no older than the one   *)
(* recorded, of the subscription and of no other.                             *)
LEMMA CommitRecords ==
  ASSUME BillingInv, NEW w \in Syncs, Commit(w)
  PROVE  /\ license' = [license EXCEPT ![sync[w].sub] = Written(w)]
         /\ Written(w) \in [v : Nat, status : {"none", "ACTIVE", "EXPIRED"}, expires : Time]
         /\ Written(w).v = sync[w].v /\ sync[w].v \in 1 .. stripe[sync[w].sub].v
         /\ license[sync[w].sub].v =< sync[w].v
         /\ sync[w].event \in 0 .. sync[w].v
         /\ <<sync[w].sub, sync[w].event>> \notin receipts
         /\ receipts' = IF sync[w].event = 0 THEN receipts
                         ELSE receipts \cup {<<sync[w].sub, sync[w].event>>}
         /\ UNCHANGED <<stripe, answered, seen, failures>>
<1> USE RecordOf
<1>1. sync[w].pc = "sites"
  BY DEF Commit
<1>2. /\ license[sync[w].sub].v =< sync[w].v /\ 1 =< sync[w].v
      /\ sync[w].v =< stripe[sync[w].sub].v /\ sync[w].event =< sync[w].v
      /\ <<sync[w].sub, sync[w].event>> \notin receipts
  BY <1>1 DEF Sound, InTx
<1>3. stripe[sync[w].sub].v \in Nat
  BY DEF BillingInv, RowsOK
<1>4. Written(w) \in [v : Nat, status : {"none", "ACTIVE", "EXPIRED"}, expires : Time]
      /\ Written(w).v = sync[w].v
  BY DEF Written, Paid
<1>5. /\ license' = [license EXCEPT ![sync[w].sub] = Written(w)]
      /\ receipts' = Receipts(w) /\ UNCHANGED <<stripe, answered, seen, failures>>
  BY DEF Commit
<1>6. sync[w].v \in 1 .. stripe[sync[w].sub].v /\ sync[w].event \in 0 .. sync[w].v
  BY <1>2, <1>3
<1> QED BY <1>2, <1>4, <1>5, <1>6 DEF Receipts

(* The commit: those inside are of other customers and hold other sites. *)
LEMMA InvCommit ==
  ASSUME BillingInv, NEW w \in Syncs, Commit(w)
  PROVE  BillingInv'
<1> DEFINE l == sync[w].sub
           n == sync[w].event
           r == [Idle EXCEPT !.pc = "invalidate", !.sub = l, !.event = n, !.v = sync[w].v]
<1>0. /\ license' = [license EXCEPT ![l] = Written(w)]
      /\ Written(w) \in [v : Nat, status : {"none", "ACTIVE", "EXPIRED"}, expires : Time]
      /\ Written(w).v = sync[w].v /\ sync[w].v \in 1 .. stripe[l].v
      /\ license[l].v =< sync[w].v /\ n \in 0 .. sync[w].v
      /\ <<l, n>> \notin receipts
      /\ receipts' = IF n = 0 THEN receipts ELSE receipts \cup {<<l, n>>}
      /\ UNCHANGED <<stripe, answered, seen, failures>>
  BY CommitRecords
<1>00. /\ sync \in [Syncs -> SyncStates] /\ sync[w] \in SyncStates /\ Sound(sync[w])
       /\ l \in Subs /\ n \in Nat /\ sync[w].v \in Nat
       /\ sync[w].locked \in SUBSET Sites /\ sync[w].new \in [Sites -> SiteRows(Time)]
  BY RecordOf
<1>1. /\ sync[w].pc = "sites" /\ sync' = [sync EXCEPT ![w] = r]
      /\ site' = [s \in Sites |-> IF s \in sync[w].locked THEN sync[w].new[s] ELSE site[s]]
      /\ active' = Activated(w)
  BY DEF Commit
<1>2. /\ r \in SyncStates /\ r.pc = "invalidate" /\ r.sub = l /\ r.event = n
      /\ r.locked = {}
  BY <1>00, IdleSound DEF SyncStates
<1> HIDE DEF r, l, n
<1>3. /\ stripe \in [Subs -> [v : Nat, until : Time]]
      /\ license \in [Subs -> [v : Nat, status : {"none", "ACTIVE", "EXPIRED"},
                               expires : Time]]
      /\ active \subseteq Subs \X Sites /\ site \in [Sites -> SiteRows(Time)]
      /\ receipts \subseteq Subs \X Nat /\ answered \subseteq receipts
      /\ seen \in [Subs -> Nat] /\ failures \in 0 .. MaxFailures
  BY DEF BillingInv, RowsOK
<1>4. RowsOK'
  <2>1. license' \in [Subs -> [v : Nat, status : {"none", "ACTIVE", "EXPIRED"},
                               expires : Time]]
    BY <1>0, <1>3
  <2>2. active' \subseteq Subs \X Sites
    <3>1. HomeOf[l] \in Sites
      BY <1>00, SyncAssumption
    <3> QED BY <1>00, <1>1, <1>3, <3>1 DEF Activated, l
  <2>3. site' \in [Sites -> SiteRows(Time)]
    BY <1>00, <1>1, <1>3
  <2>4. receipts' \subseteq Subs \X Nat /\ answered' \subseteq receipts'
    BY <1>0, <1>00, <1>3
  <2>5. sync' \in [Syncs -> SyncStates]
    BY <1>00, <1>1, <1>2
  <2> QED BY <1>0, <1>3, <2>1, <2>2, <2>3, <2>4, <2>5 DEF RowsOK
<1>5. /\ license'[l].v = sync[w].v
      /\ \A k \in Subs \ {l} : license'[k] = license[k]
  BY <1>0, <1>00, <1>3
<1>6. VersionInv'
  <2>1. \A k \in Subs : /\ 1 =< stripe[k].v /\ stripe[k].v =< MaxVersion[k]
                         /\ license[k].v =< stripe[k].v /\ seen[k] =< license[k].v
                         /\ seen[k] \in Nat /\ license[k].v \in Nat /\ stripe[k].v \in Nat
    BY <1>3 DEF BillingInv, VersionInv
  <2>2. \A k \in Subs : license[k].v =< license'[k].v /\ license'[k].v \in Nat
    BY <1>0, <1>00, <1>5, <2>1
  <2>3. \A k \in Subs : license'[k].v =< stripe[k].v /\ seen[k] =< license'[k].v
    BY <1>0, <1>00, <1>5, <2>1, <2>2
  <2>4. ASSUME NEW e \in receipts' PROVE 1 =< e[2] /\ e[2] =< license'[e[1]].v
    <3>1. CASE e \in receipts
      <4>1. 1 =< e[2] /\ e[2] =< license[e[1]].v
        BY <3>1 DEF BillingInv, VersionInv
      <4>2. e[1] \in Subs /\ e[2] \in Nat
        BY <1>3, <3>1
      <4>3. /\ license[e[1]].v =< license'[e[1]].v
            /\ license[e[1]].v \in Nat /\ license'[e[1]].v \in Nat
        BY <2>1, <2>2, <4>2
      <4> QED BY <4>1, <4>2, <4>3
    <3>2. CASE e \notin receipts
      <4>1. e = <<l, n>> /\ n # 0
        BY <1>0, <2>4, <3>2
      <4> QED BY <1>0, <1>00, <1>5, <4>1
    <3> QED BY <3>1, <3>2
  <2>5. \A e \in answered : e[2] =< seen[e[1]]
    BY DEF BillingInv, VersionInv
  <2> QED BY <1>0, <2>1, <2>3, <2>4, <2>5 DEF VersionInv
<1>7. sync'[w] = r /\ \A v \in Syncs \ {w} : sync'[v] = sync[v]
  BY <1>00, <1>1
<1>8. Sound(sync[w])'
  <2>1. r.event =< stripe[l].v
    BY <1>00, <1>1, <1>2 DEF Sound, n, l
  <2>2. n = 0 \/ <<l, n>> \in receipts'
    BY <1>0
  <2> QED BY <1>0, <1>2, <1>7, <2>1, <2>2 DEF Sound, InTx
<1>9. ASSUME NEW v \in Syncs \ {w} PROVE Sound(sync[v])'
  <2>1. Sound(sync[v]) /\ Apart(sync[w], sync[v]) /\ sync'[v] = sync[v]
    BY <1>7, RecordOf
  <2>2. sync[v].sub \in Subs /\ sync[v].locked \subseteq Sites
    BY <2>1 DEF Sound, SyncStates
  <2>3. InTx(sync[v]) => sync[v].sub # l
    BY <1>1, <2>1 DEF Apart, InTx, l
  <2>4. InTx(sync[v]) => /\ license'[sync[v].sub] = license[sync[v].sub]
                         /\ <<sync[v].sub, sync[v].event>> \notin receipts'
    <3> SUFFICES ASSUME InTx(sync[v])
                 PROVE  /\ license'[sync[v].sub] = license[sync[v].sub]
                        /\ <<sync[v].sub, sync[v].event>> \notin receipts'
      OBVIOUS
    <3>1. <<sync[v].sub, sync[v].event>> \notin receipts
      BY <2>1 DEF Sound
    <3> QED BY <1>0, <1>5, <2>2, <2>3, <3>1
  <2>5. sync[v].pc = "invalidate" =>
          sync[v].event = 0 \/ <<sync[v].sub, sync[v].event>> \in receipts'
    BY <1>0, <2>1 DEF Sound
  <2>6. \A s \in sync[v].locked : site'[s] = site[s]
    BY <1>1, <2>1, <2>2 DEF Apart
  <2> QED BY <1>0, <2>1, <2>4, <2>5, <2>6 DEF Sound, InTx
<1>10. ASSUME NEW v \in Syncs, NEW u \in Syncs, v # u
       PROVE  Apart(sync[v], sync[u])'
  <2>1. Apart(sync[v], sync[u])
    BY <1>10 DEF BillingInv, SyncInv
  <2> QED BY <1>2, <1>7, <1>10, <2>1 DEF Apart, InTx
<1> QED BY <1>4, <1>6, <1>8, <1>9, <1>10 DEF BillingInv, SyncInv

(* The answer follows the reload: what was loaded before is loaded still. *)
LEMMA InvAnswer ==
  ASSUME BillingInv, NEW w \in Syncs, Answer(w)
  PROVE  BillingInv'
<1> USE RecordOf
<1>1. /\ sync[w].pc = "invalidate" /\ UNCHANGED <<stripe, rows, failures>>
      /\ seen' = [l \in Subs |-> license[l].v] /\ sync' = [sync EXCEPT ![w] = Idle]
      /\ answered' = IF sync[w].event = 0 THEN answered
                      ELSE answered \cup {<<sync[w].sub, sync[w].event>>}
  BY DEF Answer, Leave, Reloaded
<1>2. SyncInv' /\ sync' \in [Syncs -> SyncStates]
  BY <1>1, IdleSound, MoveOne
<1>3. answered' \subseteq receipts
  <2>1. sync[w].event = 0 \/ <<sync[w].sub, sync[w].event>> \in receipts
    BY <1>1 DEF Sound
  <2> QED BY <1>1, <2>1 DEF BillingInv, RowsOK
<1>4. UNCHANGED <<license, active, site, receipts>>
  BY <1>1 DEF rows
<1>5. license \in [Subs -> [v : Nat, status : {"none", "ACTIVE", "EXPIRED"},
                           expires : Time]]
  BY DEF BillingInv, RowsOK
<1>6. RowsOK'
  BY <1>1, <1>2, <1>3, <1>4, <1>5 DEF BillingInv, RowsOK
<1>7. \A e \in answered' : e[2] =< seen'[e[1]]
  BY <1>1, <1>3, <1>5 DEF BillingInv, VersionInv, RowsOK
<1>8. VersionInv'
  BY <1>1, <1>4, <1>5, <1>7 DEF BillingInv, VersionInv
<1> QED BY <1>2, <1>6, <1>8 DEF BillingInv

(* A failure, an abort and a crash leave what is committed. *)
LEMMA InvAbandon ==
  ASSUME BillingInv, NEW w \in Syncs, Fail(w) \/ AbortVictim(w)
  PROVE  BillingInv'
<1>1. /\ UNCHANGED <<stripe, rows, answered, seen>> /\ sync' = [sync EXCEPT ![w] = Idle]
      /\ failures' = failures \/ (failures < MaxFailures /\ failures' = failures + 1)
  BY DEF Fail, AbortVictim, Leave
<1>2. SyncInv' /\ sync' \in [Syncs -> SyncStates]
  BY <1>1, IdleSound, MoveOne
<1>3. failures' \in 0 .. MaxFailures
  BY <1>1, SyncAssumption DEF BillingInv, RowsOK
<1> QED BY <1>1, <1>2, <1>3, RestStays DEF BillingInv

(* What the cache loads when it starts is what is committed. *)
LEMMA InvCrash ==
  ASSUME BillingInv, Crash
  PROVE  BillingInv'
<1>1. /\ UNCHANGED <<stripe, license, active, site, receipts, answered>>
      /\ sync' = [w \in Syncs |-> Idle] /\ seen' = [l \in Subs |-> license[l].v]
      /\ failures < MaxFailures /\ failures' = failures + 1
  BY DEF Crash, rows
<1>2. /\ license \in [Subs -> [v : Nat, status : {"none", "ACTIVE", "EXPIRED"},
                               expires : Time]]
      /\ receipts \subseteq Subs \X Nat /\ answered \subseteq receipts
      /\ failures \in 0 .. MaxFailures
  BY DEF BillingInv, RowsOK
<1>3. sync' \in [Syncs -> SyncStates]
  BY <1>1, IdleSound
<1>4. failures' \in 0 .. MaxFailures
  BY <1>1, <1>2, SyncAssumption
<1>5. RowsOK'
  BY <1>1, <1>2, <1>3, <1>4 DEF BillingInv, RowsOK
<1>6. VersionInv'
  BY <1>1, <1>2 DEF BillingInv, VersionInv
<1>7. ASSUME NEW w \in Syncs PROVE Sound(sync[w])'
  BY <1>1, IdleSound DEF Sound, InTx
<1>8. ASSUME NEW w \in Syncs, NEW v \in Syncs PROVE Apart(sync[w], sync[v])'
  BY <1>1, IdleSound DEF Apart, InTx
<1> QED BY <1>5, <1>6, <1>7, <1>8 DEF BillingInv, SyncInv

(* Every step keeps the invariant. *)
LEMMA InvNext == BillingInv /\ [Next]_vars => BillingInv'
<1> SUFFICES ASSUME BillingInv, [Next]_vars PROVE BillingInv'
  OBVIOUS
<1>1. ASSUME NEW l \in Subs, NEW until \in Deadlines, Change(l, until) PROVE BillingInv'
  BY <1>1, InvChange
<1>2. ASSUME NEW s \in Sites, Suspend(s) PROVE BillingInv'
  BY <1>2, InvSuspend
<1>3. ASSUME NEW w \in Syncs, NEW l \in Subs, NEW n \in 1 .. stripe[l].v, Deliver(w, l, n)
      PROVE  BillingInv'
  <2>1. n \in Nat /\ n =< stripe[l].v
    BY DEF BillingInv, RowsOK
  <2> QED BY <1>3, <2>1, InvBegin DEF Deliver
<1>4. ASSUME NEW w \in Syncs, NEW l \in Subs, Reconcile(w, l) PROVE BillingInv'
  <2>1. 0 =< stripe[l].v
    BY DEF BillingInv, RowsOK
  <2> QED BY <1>4, <2>1, InvBegin DEF Reconcile
<1>5. ASSUME NEW w \in Syncs, Step(w) PROVE BillingInv'
  BY <1>5, InvTakeLock, InvWriteLicense, InvSyncSite, InvCommit, InvAnswer DEF Step
<1>6. ASSUME NEW w \in Syncs, Fail(w) \/ AbortVictim(w) PROVE BillingInv'
  BY <1>6, InvAbandon
<1>7. CASE Crash
  BY <1>7, InvCrash
<1>8. CASE UNCHANGED vars
  <2>1. UNCHANGED <<stripe, license, active, site, receipts, answered, seen, sync, failures>>
    BY <1>8 DEF vars, rows
  <2> QED BY <2>1 DEF BillingInv, RowsOK, VersionInv, SyncInv, Sound, Apart, InTx
<1> QED BY <1>1, <1>2, <1>3, <1>4, <1>5, <1>6, <1>7, <1>8 DEF Next

(* The invariant holds in every state. *)
LEMMA InvAlways == Spec => []BillingInv
BY InvInit, InvNext, PTL DEF Spec

-----------------------------------------------------------------------------
(* Every variable keeps its type, and receipts are of events Stripe has sent. *)
THEOREM TypeCorrect == Spec => []TypeOK
<1>1. BillingInv => TypeOK
  <2> SUFFICES ASSUME BillingInv PROVE TypeOK
    OBVIOUS
  <2>1. ASSUME NEW e \in receipts PROVE e \in Events
    <3>1. e[1] \in Subs /\ e[2] \in Nat /\ e = <<e[1], e[2]>>
      BY DEF BillingInv, RowsOK
    <3>2. /\ 1 =< e[2] /\ e[2] =< license[e[1]].v
          /\ license[e[1]].v =< stripe[e[1]].v /\ stripe[e[1]].v =< MaxVersion[e[1]]
      BY <3>1 DEF BillingInv, VersionInv
    <3>3. /\ license[e[1]].v \in Nat /\ stripe[e[1]].v \in Nat /\ MaxVersion[e[1]] \in Nat
      BY <3>1, SyncAssumption DEF BillingInv, RowsOK
    <3>4. e[2] \in 1 .. MaxVersion[e[1]]
      BY <3>1, <3>2, <3>3
    <3>5. e \in {e[1]} \X (1 .. MaxVersion[e[1]])
      BY <3>1, <3>4
    <3> QED BY <3>1, <3>5 DEF Events
  <2> QED BY <2>1 DEF BillingInv, RowsOK, TypeOK
<1> QED BY <1>1, InvAlways, PTL

(* An event answered with 200 is recorded and loaded, whatever crashed or     *)
(* failed before (stripeEventHandlers.ts:138-148).                            *)
THEOREM AnswersAreInEffect == Spec => []AnsweredIsInEffect
<1>1. BillingInv => AnsweredIsInEffect
  <2> SUFFICES ASSUME BillingInv, NEW e \in answered
               PROVE  license[e[1]].v >= e[2] /\ seen[e[1]] >= e[2]
    BY DEF AnsweredIsInEffect
  <2>1. /\ e \in receipts /\ e[1] \in Subs /\ e[2] \in Nat
        /\ license[e[1]].v \in Nat /\ seen[e[1]] \in Nat
    BY DEF BillingInv, RowsOK
  <2>2. e[2] =< license[e[1]].v /\ e[2] =< seen[e[1]]
    BY <2>1 DEF BillingInv, VersionInv
  <2> QED BY <2>1, <2>2
<1> QED BY <1>1, InvAlways, PTL

(* The rows a synchronisation writes are those it holds, each with the        *)
(* sanction it had when it was locked (stripeEventHandlers.ts:112-114).       *)
THEOREM SanctionsSurvive == Spec => SanctionsSurviveBilling
<1>1. ASSUME BillingInv, [Next]_vars
      PROVE  [\A s \in Sites : site[s].net \in Sanctions => site'[s].net \in Sanctions]_vars
  <2> SUFFICES ASSUME NEW s \in Sites, site[s].net \in Sanctions
               PROVE  site'[s].net \in Sanctions
    OBVIOUS
  <2>1. CASE UNCHANGED site
    BY <2>1
  <2>2. ASSUME NEW t \in Sites, Suspend(t) PROVE site'[s].net \in Sanctions
    <3>1. site' = [site EXCEPT ![t].net = "SUSPENDED"] /\ site \in [Sites -> SiteRows(Time)]
      BY <1>1, <2>2 DEF Suspend, BillingInv, RowsOK
    <3>2. CASE s = t
      BY <3>1, <3>2 DEF Sanctions
    <3>3. CASE s # t
      BY <3>1, <3>3
    <3> QED BY <3>2, <3>3
  <2>3. ASSUME NEW w \in Syncs, Commit(w) PROVE site'[s].net \in Sanctions
    <3>1. site' = [t \in Sites |-> IF t \in sync[w].locked THEN sync[w].new[t] ELSE site[t]]
      BY <2>3 DEF Commit
    <3>2. s \in sync[w].locked => sync[w].new[s].net \in Sanctions
      BY <1>1, RecordOf DEF Sound
    <3> QED BY <3>1, <3>2
  <2>4. ASSUME NEW w \in Syncs, Step(w), ~Commit(w) PROVE UNCHANGED site
    BY <2>4 DEF Step, TakeLock, WriteLicense, SyncSite, Answer, rows
  <2>5. [Next]_vars => \/ UNCHANGED site
                      \/ \E t \in Sites : Suspend(t)
                      \/ \E w \in Syncs : Commit(w)
    BY <1>1, <2>4 DEF Next, Change, Deliver, Reconcile, Begin, Fail, AbortVictim,
                     Crash, rows, vars
  <2> QED BY <1>1, <2>1, <2>2, <2>3, <2>5
<1> QED BY <1>1, InvAlways, PTL DEF Spec, SanctionsSurviveBilling

(* A synchronisation of many steps acts at its commit: it records the state   *)
(* fetched under the lock, and the receipt of an event no one has recorded;   *)
(* every other step but Stripe's own stutters (stripeEventHandlers.ts:50,     *)
(* 137-146).                                                                  *)
THEOREM SyncImplementsLedger == Spec => ImplementsLedger
<1> DEFINE current == [l \in Subs |-> stripe[l].v]
           recorded == [l \in Subs |-> license[l].v]
<1>1. Init => Ledger!Init
  <2> SUFFICES ASSUME Init PROVE Ledger!Init
    OBVIOUS
  <2>1. PICK known \in SUBSET Subs :
          /\ stripe = [l \in Subs |-> [v |-> 1, until |-> Now + 1]]
          /\ license = [l \in Subs |-> IF l \in known
                          THEN [v |-> 1, status |-> "ACTIVE", expires |-> Now + 1]
                          ELSE [v |-> 0, status |-> "none", expires |-> 0]]
          /\ receipts = {<<l, 1>> : l \in known}
    BY DEF Init
  <2>2. current = [l \in Subs |-> 1]
    BY <2>1
  <2>3. recorded = [l \in Subs |-> IF l \in known THEN 1 ELSE 0]
    BY <2>1
  <2>4. receipts = {<<l, 1>> : l \in {k \in Subs : recorded[k] = 1}}
    <3>1. \A k \in Subs : recorded[k] = 1 <=> k \in known
      BY <2>3
    <3>2. known = {k \in Subs : recorded[k] = 1}
      BY <3>1
    <3> HIDE DEF recorded
    <3> QED BY <2>1, <3>2
  <2> QED BY <2>2, <2>3, <2>4 DEF Ledger!Init
<1>2. BillingInv /\ [Next]_vars => [Ledger!Next]_(Ledger!vars)
  <2> SUFFICES ASSUME BillingInv, [Next]_vars PROVE [Ledger!Next]_(Ledger!vars)
    OBVIOUS
  <2>1. CASE UNCHANGED <<stripe, license, receipts>>
    BY <2>1 DEF Ledger!vars
  <2>2. ASSUME NEW l \in Subs, NEW until \in Deadlines, Change(l, until)
        PROVE  Ledger!Next
    <3>1. /\ stripe' = [stripe EXCEPT ![l] = [v |-> stripe[l].v + 1, until |-> until]]
          /\ UNCHANGED <<license, receipts>> /\ stripe[l].v < MaxVersion[l]
          /\ stripe \in [Subs -> [v : Nat, until : Time]]
      BY <2>2 DEF Change, rows, BillingInv, RowsOK
    <3>2. current' = [current EXCEPT ![l] = @ + 1] /\ current[l] < MaxVersion[l]
      BY <3>1
    <3>3. recorded' = recorded
      BY <3>1
    <3> QED BY <3>1, <3>2, <3>3 DEF Ledger!Next, Ledger!Change
  <2>3. ASSUME NEW w \in Syncs, Commit(w) PROVE Ledger!Next
    <3>1. PICK l \in Subs, n \in Nat, d \in Nat :
            l = sync[w].sub /\ n = sync[w].v /\ d = sync[w].event
      BY RecordOf
    <3>2. /\ license' = [license EXCEPT ![l] = Written(w)] /\ Written(w).v = n
          /\ n \in 1 .. stripe[l].v /\ license[l].v =< n
          /\ d \in 0 .. n /\ <<l, d>> \notin receipts
          /\ receipts' = IF d = 0 THEN receipts ELSE receipts \cup {<<l, d>>}
          /\ stripe' = stripe
      BY <2>3, <3>1, CommitRecords
    <3>3. recorded' = [recorded EXCEPT ![l] = n]
      <4>1. DOMAIN license = Subs
        BY DEF BillingInv, RowsOK
      <4> QED BY <3>2, <4>1
    <3>4. PICK e \in 1 .. n :
            \/ receipts' = receipts
            \/ <<l, e>> \notin receipts /\ receipts' = receipts \cup {<<l, e>>}
      <4>1. CASE d = 0
        BY <3>2, <4>1
      <4>2. CASE d # 0
        BY <3>2, <4>2
      <4> QED BY <4>1, <4>2
    <3>5. current' = current /\ recorded[l] =< n /\ e =< n /\ n \in 1 .. current[l]
      BY <3>2, <3>4
    <3> HIDE DEF current, recorded
    <3>6. Ledger!Record(l, n, e)
      BY <3>3, <3>4, <3>5 DEF Ledger!Record, current, recorded
    <3> QED BY <3>4, <3>5, <3>6 DEF Ledger!Next, current
  <2>4. ASSUME NEW w \in Syncs, Step(w), ~Commit(w)
        PROVE  UNCHANGED <<stripe, license, receipts>>
    BY <2>4 DEF Step, TakeLock, WriteLicense, SyncSite, Answer, rows
  <2>5. \/ UNCHANGED <<stripe, license, receipts>>
        \/ \E l \in Subs, until \in Deadlines : Change(l, until)
        \/ \E w \in Syncs : Commit(w)
    BY <2>4 DEF Next, Suspend, Deliver, Reconcile, Begin, Fail, AbortVictim, Crash,
                rows, vars
  <2> QED BY <2>1, <2>2, <2>3, <2>5
<1> QED BY <1>1, <1>2, InvAlways, PTL DEF Spec, ImplementsLedger, Ledger!Spec

-----------------------------------------------------------------------------
(* Sites follow licenses, and no cycle without a first synchronisation *)

(* What a synchronisation that is locking sites has found stays what is in    *)
(* the database: the sites its subscription is active on are those it holds   *)
(* and those still to come, which come in order, and of each that it holds    *)
(* it will write what the committed licenses, with its own, make of the row.  *)
Fresh(w) ==
  sync[w].pc = "sites" =>
    /\ \A t \in Sites : t \in sync[w].todo \cup sync[w].locked
                          <=> <<sync[w].sub, t>> \in Activated(w)
    /\ \A a \in sync[w].locked, b \in sync[w].todo : a < b
    /\ \A s \in sync[w].locked :
         sync[w].new[s] = Synchronised(site[s], ValidDeadlines(w, s), Now)

(* The site follows the licenses active on it. *)
Follows(s) ==
  LET licenses == {l \in Subs : <<l, s>> \in active}
      valid == {l \in licenses : Valid(license[l], Now)}
  IN site[s].net \notin Sanctions /\ licenses # {} =>
       IF valid # {}
         THEN site[s].net = "ACTIVE" /\ site[s].until = Latest({license[l].expires : l \in valid})
         ELSE ~Eligible(site[s], Now) \/ site[s].net = "TRIAL"

FollowInv ==
  /\ BillingInv
  /\ \A w \in Syncs : Fresh(w)
  /\ \A s \in Sites : Follows(s)

(* What a synchronisation that stays where it is has found is still so when   *)
(* nobody writes the rows that matter to it.                                  *)
LEMMA FreshStays ==
  ASSUME BillingInv, NEW w \in Syncs, Fresh(w), sync'[w] = sync[w],
         sync[w].pc = "sites" =>
           /\ \A t \in Sites : <<sync[w].sub, t>> \in active' <=> <<sync[w].sub, t>> \in active
           /\ \A s \in sync[w].locked :
                /\ site'[s] = site[s]
                /\ \A k \in Subs : <<k, s>> \in active' <=> <<k, s>> \in active
                /\ \A k \in Subs \ {sync[w].sub} : <<k, s>> \in active => license'[k] = license[k],
         license' \in [Subs -> [v : Nat, status : {"none", "ACTIVE", "EXPIRED"}, expires : Time]]
  PROVE  Fresh(w)'
<1> SUFFICES ASSUME sync[w].pc = "sites" PROVE Fresh(w)'
  BY DEF Fresh
<1> USE RecordOf
<1>1. \A t \in Sites, k \in Subs :
        (<<k, t>> \in active' <=> <<k, t>> \in active)
          => (<<k, t>> \in Activated(w)' <=> <<k, t>> \in Activated(w))
  BY DEF Activated
<1>2. \A t \in Sites : t \in sync'[w].todo \cup sync'[w].locked
                          <=> <<sync'[w].sub, t>> \in Activated(w)'
  BY <1>1 DEF Fresh
<1>3. \A a \in sync'[w].locked, b \in sync'[w].todo : a < b
  BY DEF Fresh
<1>4. ASSUME NEW s \in sync[w].locked
      PROVE  ValidDeadlines(w, s)' = ValidDeadlines(w, s)
  <2> DEFINE lic == [license EXCEPT ![sync[w].sub] = Written(w)]
             A == {k \in Subs : <<k, s>> \in Activated(w) /\ Valid(lic[k], Now)}
  <2>1. /\ ValidDeadlines(w, s) = {lic[l].expires : l \in A}
        /\ ValidDeadlines(w, s)' = {lic'[l].expires : l \in A'}
    BY DEF ValidDeadlines
  <2>2. Written(w)' = Written(w)
    BY DEF Written
  <2>3. ASSUME NEW k \in Subs, <<k, s>> \in Activated(w) PROVE lic'[k] = lic[k]
    <3>1. license \in [Subs -> [v : Nat, status : {"none", "ACTIVE", "EXPIRED"},
                                expires : Time]]
      BY DEF BillingInv, RowsOK
    <3>2. CASE k = sync[w].sub
      BY <2>2, <3>1, <3>2
    <3>3. CASE k # sync[w].sub
      <4>1. <<k, s>> \in active
        BY <2>3, <3>3 DEF Activated
      <4> QED BY <3>1, <3>3, <4>1
    <3> QED BY <3>2, <3>3
  <2>4. \A k \in Subs : <<k, s>> \in Activated(w)' <=> <<k, s>> \in Activated(w)
    BY <1>1
  <2> HIDE DEF lic
  <2>5. A' = A
    BY <2>3, <2>4
  <2>6. \A l \in A : lic'[l] = lic[l]
    BY <2>3
  <2> HIDE DEF A
  <2> QED BY <2>1, <2>5, <2>6
<1>5. \A s \in sync'[w].locked :
        sync'[w].new[s] = Synchronised(site'[s], ValidDeadlines(w, s)', Now)
  BY <1>4 DEF Fresh
<1> QED BY <1>2, <1>3, <1>5 DEF Fresh

(* One synchronisation moves on, and no row is written. *)
LEMMA FollowMove ==
  ASSUME FollowInv, BillingInv', NEW w \in Syncs, UNCHANGED rows, Fresh(w)',
         \A v \in Syncs \ {w} : sync'[v] = sync[v]
  PROVE  FollowInv'
<1>1. UNCHANGED <<license, active, site>>
  BY DEF rows
<1>2. license \in [Subs -> [v : Nat, status : {"none", "ACTIVE", "EXPIRED"}, expires : Time]]
  BY DEF FollowInv, BillingInv, RowsOK
<1>3. ASSUME NEW v \in Syncs \ {w} PROVE Fresh(v)'
  BY <1>1, <1>2, FreshStays DEF FollowInv
<1>4. ASSUME NEW s \in Sites PROVE Follows(s)'
  <2>1. Follows(s)
    BY DEF FollowInv
  <2> QED BY <1>1, <2>1 DEF Follows
<1> QED BY <1>3, <1>4 DEF FollowInv

(* It moves to where it holds no site. *)
LEMMA FollowElsewhere ==
  ASSUME FollowInv, BillingInv', NEW w \in Syncs, NEW r, UNCHANGED rows,
         sync' = [sync EXCEPT ![w] = r], r.pc # "sites"
  PROVE  FollowInv'
<1>1. sync \in [Syncs -> SyncStates]
  BY DEF FollowInv, BillingInv, RowsOK
<1>2. Fresh(w)'
  BY <1>1 DEF Fresh
<1> QED BY <1>1, <1>2, FollowMove

(* The activations are listed when the license is written. *)
LEMMA FollowWriteLicense ==
  ASSUME FollowInv, BillingInv', NEW w \in Syncs, WriteLicense(w)
  PROVE  FollowInv'
<1>0. BillingInv
  BY DEF FollowInv
<1> USE <1>0, RecordOf
<1> DEFINE todo == {t \in Sites : <<sync[w].sub, t>> \in Activated(w)}
<1>1. /\ sync[w].pc = "write" /\ UNCHANGED rows
      /\ sync' = [sync EXCEPT ![w].pc = "sites", ![w].todo = todo]
  BY DEF WriteLicense
<1>2. sync[w].locked = {}
  BY <1>1 DEF Sound
<1>3. \A t \in Sites : t \in todo <=> <<sync[w].sub, t>> \in Activated(w)
  OBVIOUS
<1> HIDE DEF todo
<1>4. /\ sync'[w] = [sync[w] EXCEPT !.pc = "sites", !.todo = todo]
      /\ \A v \in Syncs \ {w} : sync'[v] = sync[v]
  BY <1>1
<1>5. /\ sync'[w].todo = todo /\ sync'[w].locked = {} /\ sync'[w].sub = sync[w].sub
      /\ sync'[w].first = sync[w].first
  BY <1>2, <1>4 DEF SyncStates
<1>6. Activated(w)' = Activated(w)
  BY <1>1, <1>5 DEF Activated, rows
<1>7. Fresh(w)'
  BY <1>3, <1>5, <1>6 DEF Fresh
<1> QED BY <1>1, <1>4, <1>7, FollowMove

(* The least of the sites to come is locked, its row read and computed. *)
LEMMA FollowSyncSite ==
  ASSUME FollowInv, BillingInv', NEW w \in Syncs, SyncSite(w)
  PROVE  FollowInv'
<1>0. BillingInv
  BY DEF FollowInv
<1> USE <1>0, RecordOf
<1> DEFINE s == NextSite(w)
           row == Synchronised(site[s], ValidDeadlines(w, s), Now)
<1>1. /\ sync[w].pc = "sites" /\ sync[w].todo # {} /\ UNCHANGED rows
      /\ sync' = [sync EXCEPT ![w].todo = @ \ {s}, ![w].locked = @ \cup {s},
                              ![w].new[s] = row]
  BY DEF SyncSite
<1>2. s \in sync[w].todo /\ s \in Sites /\ \A t \in sync[w].todo : s =< t
  BY <1>1, NextSiteInTodo
<1>3. \A x \in {s} : row = Synchronised(site[x], ValidDeadlines(w, x), Now)
  OBVIOUS
<1> HIDE DEF s, row
<1> DEFINE r == [sync[w] EXCEPT !.todo = @ \ {s}, !.locked = @ \cup {s}, !.new[s] = row]
<1>4. sync' = [sync EXCEPT ![w] = r]
  BY <1>1
<1>5. /\ r.pc = "sites" /\ r.todo = sync[w].todo \ {s}
       /\ r.locked = sync[w].locked \cup {s}
       /\ r.new = [sync[w].new EXCEPT ![s] = row]
       /\ r.sub = sync[w].sub /\ r.first = sync[w].first
       /\ r.v = sync[w].v /\ r.until = sync[w].until
  BY <1>1 DEF SyncStates
<1> HIDE DEF r
<1>6. sync'[w] = r /\ \A v \in Syncs \ {w} : sync'[v] = sync[v]
  BY <1>4
<1>7. /\ sync'[w].pc = "sites" /\ sync'[w].todo = sync[w].todo \ {s}
      /\ sync'[w].locked = sync[w].locked \cup {s}
      /\ sync'[w].new = [sync[w].new EXCEPT ![s] = row]
      /\ sync'[w].sub = sync[w].sub /\ sync'[w].first = sync[w].first
      /\ sync'[w].v = sync[w].v /\ sync'[w].until = sync[w].until
  BY <1>5, <1>6
<1>8. Activated(w)' = Activated(w) /\ UNCHANGED <<license, site, active>>
  BY <1>1, <1>7 DEF Activated, rows
<1>9. \A t : ValidDeadlines(w, t)' = ValidDeadlines(w, t)
  BY <1>7, <1>8 DEF ValidDeadlines, Written
<1>10. \A t \in Sites : t \in sync'[w].todo \cup sync'[w].locked
                          <=> <<sync'[w].sub, t>> \in Activated(w)'
  BY <1>1, <1>2, <1>7, <1>8 DEF FollowInv, Fresh
<1>11. \A a \in sync'[w].locked, b \in sync'[w].todo : a < b
  <2> SUFFICES ASSUME NEW a \in sync'[w].locked, NEW b \in sync'[w].todo PROVE a < b
    OBVIOUS
  <2>1. CASE a = s
    <3>1. s \in Nat /\ b \in Nat /\ b # s /\ s =< b
      BY <1>2, <1>7, SyncAssumption
    <3> QED BY <2>1, <3>1
  <2>2. CASE a # s
    BY <1>1, <1>7, <2>2 DEF FollowInv, Fresh
  <2> QED BY <2>1, <2>2
<1>12. ASSUME NEW t \in sync'[w].locked
       PROVE  sync'[w].new[t] = Synchronised(site'[t], ValidDeadlines(w, t)', Now)
  <2>1. CASE t = s
    <3>1. sync'[w].new[t] = row
      BY <1>2, <1>7, <2>1
    <3> QED BY <1>3, <1>8, <1>9, <2>1, <3>1
  <2>2. CASE t # s
    <3>1. t \in sync[w].locked /\ t \in Sites
      BY <1>7, <2>2
    <3>2. sync'[w].new[t] = sync[w].new[t]
      BY <1>2, <1>7, <2>2, <3>1
    <3>3. sync[w].new[t] = Synchronised(site[t], ValidDeadlines(w, t), Now)
      BY <1>1, <3>1 DEF FollowInv, Fresh
    <3> QED BY <1>8, <1>9, <3>2, <3>3
  <2> QED BY <2>1, <2>2
<1>13. Fresh(w)'
  BY <1>10, <1>11, <1>12 DEF Fresh
<1> QED BY <1>1, <1>13, <1>6, FollowMove

(* The operator suspends a site nobody holds. *)
LEMMA FollowSuspend ==
  ASSUME FollowInv, BillingInv', NEW s \in Sites, Suspend(s)
  PROVE  FollowInv'
<1>1. /\ site' = [site EXCEPT ![s].net = "SUSPENDED"]
      /\ UNCHANGED <<license, active, sync>>
      /\ \A w \in Syncs : s \notin sync[w].locked
  BY DEF Suspend, Holds
<1>2. /\ site \in [Sites -> SiteRows(Time)] /\ BillingInv
      /\ license \in [Subs -> [v : Nat, status : {"none", "ACTIVE", "EXPIRED"},
                               expires : Time]]
  BY DEF FollowInv, BillingInv, RowsOK
<1>3. site'[s].net \in Sanctions /\ \A t \in Sites \ {s} : site'[t] = site[t]
  BY <1>1, <1>2 DEF SiteRows, Sanctions
<1>4. ASSUME NEW w \in Syncs PROVE Fresh(w)'
  <2>1. \A t \in sync[w].locked : site'[t] = site[t]
    BY <1>1, <1>2, <1>3, RecordOf
  <2> QED BY <1>1, <1>2, <2>1, FreshStays DEF FollowInv
<1>5. ASSUME NEW t \in Sites PROVE Follows(t)'
  <2>1. CASE t = s
    BY <1>3, <2>1 DEF Follows
  <2>2. CASE t # s
    <3>1. Follows(t)
      BY DEF FollowInv
    <3> QED BY <1>1, <1>3, <2>2, <3>1 DEF Follows
  <2> QED BY <2>1, <2>2
<1> QED BY <1>4, <1>5 DEF FollowInv

(* What the commit writes: of the sites it holds, what it computed, which is  *)
(* what the licenses amount to; the sites of no other license of its own.     *)
LEMMA FollowCommit ==
  ASSUME FollowInv, BillingInv', NEW w \in Syncs, Commit(w)
  PROVE  FollowInv'
<1>0. BillingInv
  BY DEF FollowInv
<1> USE <1>0, RecordOf
<1> DEFINE l == sync[w].sub
<1>1. /\ sync[w].pc = "sites" /\ sync[w].todo = {}
      /\ license' = [license EXCEPT ![l] = Written(w)]
      /\ active' = Activated(w)
      /\ site' = [s \in Sites |-> IF s \in sync[w].locked THEN sync[w].new[s] ELSE site[s]]
      /\ sync' = [sync EXCEPT ![w] = [Idle EXCEPT !.pc = "invalidate", !.sub = l,
                                        !.event = sync[w].event, !.v = sync[w].v]]
  BY DEF Commit
<1>2. /\ license \in [Subs -> [v : Nat, status : {"none", "ACTIVE", "EXPIRED"},
                               expires : Time]]
      /\ license' \in [Subs -> [v : Nat, status : {"none", "ACTIVE", "EXPIRED"},
                                expires : Time]]
      /\ HomeOf[l] \in Sites
  BY SyncAssumption DEF BillingInv, RowsOK
<1>3. /\ sync'[w].pc = "invalidate" /\ \A v \in Syncs \ {w} : sync'[v] = sync[v]
      /\ \A k \in Subs \ {l} : license'[k] = license[k]
  BY <1>1, <1>2, IdleSound DEF SyncStates
(* The sites it holds are all its subscription is active on. *)
<1>4. \A t \in Sites : t \in sync[w].locked <=> <<l, t>> \in active'
  BY <1>1 DEF FollowInv, Fresh
<1>5. \A k \in Subs, t \in Sites : t \notin sync[w].locked \/ k # l
        => (<<k, t>> \in active' <=> <<k, t>> \in active)
  <2>1. \A k \in Subs, t \in Sites : <<k, t>> \in active => <<k, t>> \in active'
    BY <1>1 DEF Activated
  <2>2. \A k \in Subs, t \in Sites : <<k, t>> \in active' /\ <<k, t>> \notin active
          => k = l /\ t = HomeOf[l]
    BY <1>1 DEF Activated
  <2> QED BY <1>4, <2>1, <2>2
<1>6. \A t \in Sites : t \notin sync[w].locked =>
        \A k \in Subs : <<k, t>> \in active => license'[k] = license[k]
  <2>1. \A t \in Sites : <<l, t>> \in active => <<l, t>> \in active'
    BY <1>1 DEF Activated
  <2> QED BY <1>3, <1>4, <2>1
<1>7. ASSUME NEW v \in Syncs PROVE Fresh(v)'
  <2>1. CASE v = w
    BY <1>3, <2>1 DEF Fresh
  <2>2. CASE v # w
    <3>1. Apart(sync[w], sync[v]) /\ sync'[v] = sync[v]
      BY <1>3, <2>2
    <3>2. sync[v].pc = "sites" => sync[v].sub # l
      BY <1>1, <3>1 DEF Apart, InTx
    <3>3. \A s \in sync[v].locked : s \in Sites /\ s \notin sync[w].locked
      BY <3>1 DEF Apart
    <3>4. \A s \in sync[v].locked : site'[s] = site[s]
      BY <1>1, <3>3
    <3>5. sync[v].pc = "sites" =>
            \A t \in Sites : <<sync[v].sub, t>> \in active' <=> <<sync[v].sub, t>> \in active
      BY <1>5, <3>2
    <3>6. \A s \in sync[v].locked :
            /\ \A k \in Subs : <<k, s>> \in active' <=> <<k, s>> \in active
            /\ \A k \in Subs : <<k, s>> \in active => license'[k] = license[k]
      BY <1>5, <1>6, <3>3
    <3> QED BY <1>2, <3>1, <3>4, <3>5, <3>6, FreshStays DEF FollowInv
  <2> QED BY <2>1, <2>2
<1>8. ASSUME NEW s \in Sites PROVE Follows(s)'
  <2> DEFINE on == {k \in Subs : <<k, s>> \in active}
             valid == {k \in on : Valid(license[k], Now)}
  <2>1. Follows(s)' <=>
          (site'[s].net \notin Sanctions /\ on' # {} =>
             IF valid' # {}
               THEN /\ site'[s].net = "ACTIVE"
                    /\ site'[s].until = Latest({license'[k].expires : k \in valid'})
               ELSE ~Eligible(site'[s], Now) \/ site'[s].net = "TRIAL")
    BY DEF Follows
  <2>2. CASE s \notin sync[w].locked
    <3>1. site'[s] = site[s]
      BY <1>1, <2>2
    <3>2. \A k \in Subs : <<k, s>> \in active' <=> <<k, s>> \in active
      BY <1>5, <2>2
    <3>3. on' = on
      BY <3>2
    <3>4. \A k \in on : license'[k] = license[k]
      BY <1>6, <2>2
    <3>5. valid' = valid
      BY <3>3, <3>4
    <3>6. {license'[k].expires : k \in valid'} = {license[k].expires : k \in valid}
      BY <3>4, <3>5
    <3>7. Follows(s)
      BY DEF FollowInv
    <3>8. site[s].net \notin Sanctions /\ on # {} =>
             IF valid # {}
               THEN /\ site[s].net = "ACTIVE"
                    /\ site[s].until = Latest({license[k].expires : k \in valid})
               ELSE ~Eligible(site[s], Now) \/ site[s].net = "TRIAL"
      BY <3>7 DEF Follows
    <3> HIDE DEF on, valid
    <3> QED BY <2>1, <3>1, <3>3, <3>5, <3>6, <3>8
  <2>3. CASE s \in sync[w].locked
    <3> DEFINE D == {license'[k].expires : k \in valid'}
    <3>1. ValidDeadlines(w, s) = D
      BY <1>1 DEF ValidDeadlines
    <3>2. site'[s] = Synchronised(site[s], ValidDeadlines(w, s), Now)
      BY <1>1, <2>3 DEF FollowInv, Fresh
    <3>3. D # {} <=> valid' # {}
      OBVIOUS
    <3>4. site[s] \in SiteRows(Time)
      BY DEF BillingInv, RowsOK
    <3> HIDE DEF D, valid, on
    <3>5. CASE site[s].net \in Sanctions
      BY <2>1, <3>2, <3>5 DEF Synchronised
    <3>6. CASE site[s].net \notin Sanctions /\ D # {}
      <4>1. site'[s] = [site[s] EXCEPT !.net = "ACTIVE", !.until = Latest(D)]
        BY <3>1, <3>2, <3>6 DEF Synchronised
      <4>2. site'[s].net = "ACTIVE" /\ site'[s].until = Latest(D)
        BY <3>4, <4>1 DEF SiteRows
      <4>3. valid' # {}
        BY <3>3, <3>6
      <4> QED BY <2>1, <4>2, <4>3 DEF D
    <3>7. CASE site[s].net \notin Sanctions /\ D = {}
      <4>1. site'[s].net = "TRIAL" \/ site'[s].net = "EXPIRED"
        BY <3>1, <3>2, <3>4, <3>7 DEF Synchronised, SiteRows
      <4>2. ~Eligible(site'[s], Now) \/ site'[s].net = "TRIAL"
        BY <4>1 DEF Eligible, Admitted
      <4>3. valid' = {}
        BY <3>3, <3>7
      <4> QED BY <2>1, <4>2, <4>3
    <3> QED BY <3>5, <3>6, <3>7
  <2> QED BY <2>2, <2>3
<1> QED BY <1>7, <1>8 DEF FollowInv

(* The sites of known subscriptions follow them from the start. *)
LEMMA FollowInit == Init => FollowInv
<1> SUFFICES ASSUME Init PROVE FollowInv
  OBVIOUS
<1>1. PICK known \in SUBSET Subs, trial \in [net : {"none", "TRIAL"}] :
    /\ stripe = [l \in Subs |-> [v |-> 1, until |-> Now + 1]]
    /\ license = [l \in Subs |-> IF l \in known
                    THEN [v |-> 1, status |-> "ACTIVE", expires |-> Now + 1]
                    ELSE [v |-> 0, status |-> "none", expires |-> 0]]
    /\ active = {a \in Subs \X Sites : a[1] \in known /\ a[2] \in Bound[a[1]]}
    /\ site = [s \in Sites |-> IF \E l \in known : s \in Bound[l]
                 THEN [NewSite EXCEPT !.net = "ACTIVE", !.until = Now + 1]
                 ELSE IF trial.net = "TRIAL"
                 THEN [NewSite EXCEPT !.net = "TRIAL", !.trialUsed = TRUE, !.until = Now + 2]
                 ELSE NewSite]
    /\ receipts = {<<l, 1>> : l \in known}
    /\ answered = receipts
    /\ seen = [l \in Subs |-> license[l].v]
    /\ sync = [w \in Syncs |-> Idle]
    /\ failures = 0
  BY DEF Init
<1>2. \A w \in Syncs : Fresh(w)
  BY <1>1, IdleSound DEF Fresh
<1>3. ASSUME NEW s \in Sites PROVE Follows(s)
  <2> DEFINE on == {l \in Subs : <<l, s>> \in active}
             valid == {l \in on : Valid(license[l], Now)}
  <2>1. \A l \in on : l \in known /\ s \in Bound[l] /\ license[l].status = "ACTIVE"
                      /\ license[l].expires = Now + 1
    BY <1>1
  <2>2. valid = on
    BY <2>1, Instants DEF Valid
  <2>3. CASE on = {}
    BY <2>3 DEF Follows
  <2>4. CASE on # {}
    <3>1. {license[l].expires : l \in valid} = {Now + 1}
      BY <2>1, <2>2, <2>4
    <3>2. Latest({Now + 1}) = Now + 1
      BY Instants DEF Latest
    <3>3. site[s] = [NewSite EXCEPT !.net = "ACTIVE", !.until = Now + 1]
      BY <1>1, <2>1, <2>4
    <3>4. site[s].net = "ACTIVE" /\ site[s].until = Now + 1
      BY <3>3 DEF NewSite
    <3> HIDE DEF on
    <3> QED BY <2>2, <2>4, <3>1, <3>2, <3>4 DEF Follows, on
  <2> QED BY <2>3, <2>4
<1> QED BY <1>2, <1>3, InvInit DEF FollowInv

(* Every step keeps it: one step of the proof per action. *)
LEMMA FollowNext == FollowInv /\ [Next]_vars => FollowInv'
<1> SUFFICES ASSUME FollowInv, [Next]_vars PROVE FollowInv'
  OBVIOUS
<1>0. BillingInv /\ BillingInv' /\ sync \in [Syncs -> SyncStates]
  BY InvNext DEF FollowInv, BillingInv, RowsOK
<1>1. ASSUME UNCHANGED <<license, active, site, sync>> PROVE FollowInv'
  <2>1. license \in [Subs -> [v : Nat, status : {"none", "ACTIVE", "EXPIRED"},
                              expires : Time]]
    BY <1>0 DEF BillingInv, RowsOK
  <2>2. ASSUME NEW w \in Syncs PROVE Fresh(w)'
    BY <1>0, <1>1, <2>1, FreshStays DEF FollowInv
  <2>3. ASSUME NEW s \in Sites PROVE Follows(s)'
    <3>1. Follows(s)
      BY DEF FollowInv
    <3> QED BY <1>1, <3>1 DEF Follows
  <2> QED BY <1>0, <2>2, <2>3 DEF FollowInv
<1>2. ASSUME NEW l \in Subs, NEW until \in Deadlines, Change(l, until) PROVE FollowInv'
  BY <1>1, <1>2 DEF Change, rows
<1>3. ASSUME NEW s \in Sites, Suspend(s) PROVE FollowInv'
  BY <1>0, <1>3, FollowSuspend
<1>4. ASSUME NEW w \in Syncs, NEW l \in Subs, NEW n, Begin(w, l, n) PROVE FollowInv'
  <2> DEFINE r == [Idle EXCEPT !.pc = "lock", !.sub = l, !.event = n]
  <2>1. sync' = [sync EXCEPT ![w] = r] /\ UNCHANGED rows
    BY <1>4 DEF Begin
  <2>2. r.pc = "lock"
    BY DEF Idle
  <2> HIDE DEF r
  <2> QED BY <1>0, <2>1, <2>2, FollowElsewhere
<1>5. ASSUME NEW w \in Syncs, TakeLock(w) PROVE FollowInv'
  <2>1. UNCHANGED rows
    BY <1>5 DEF TakeLock
  <2>2. \E r : sync' = [sync EXCEPT ![w] = r] /\ r.pc # "sites"
    <3>1. CASE <<sync[w].sub, sync[w].event>> \in receipts
      <4> DEFINE r == [sync[w] EXCEPT !.pc = "invalidate"]
      <4>1. sync' = [sync EXCEPT ![w] = r]
        BY <1>5, <3>1 DEF TakeLock, Goto
      <4>2. r.pc = "invalidate"
        BY <1>0 DEF SyncStates
      <4> QED BY <4>1, <4>2
    <3>2. CASE <<sync[w].sub, sync[w].event>> \notin receipts
      <4>1. sync' = [sync EXCEPT ![w] = Fetched(w)]
        BY <1>5, <3>2 DEF TakeLock
      <4>2. Fetched(w).pc = "write"
        BY <1>0 DEF SyncStates, Fetched
      <4> QED BY <4>1, <4>2
    <3> QED BY <3>1, <3>2
  <2> QED BY <1>0, <2>1, <2>2, FollowElsewhere
<1>6. ASSUME NEW w \in Syncs, Answer(w) \/ Fail(w) \/ AbortVictim(w) PROVE FollowInv'
  <2>1. UNCHANGED rows /\ sync' = [sync EXCEPT ![w] = Idle]
    BY <1>6 DEF Answer, Fail, AbortVictim, Leave
  <2> QED BY <1>0, <2>1, IdleSound, FollowElsewhere
<1>7. CASE Crash
  <2>1. UNCHANGED <<license, active, site>> /\ sync' = [w \in Syncs |-> Idle]
    BY <1>7 DEF Crash, rows
  <2>2. \A w \in Syncs : Fresh(w)'
    BY <2>1, IdleSound DEF Fresh
  <2>3. ASSUME NEW s \in Sites PROVE Follows(s)'
    <3>1. Follows(s)
      BY DEF FollowInv
    <3> QED BY <2>1, <3>1 DEF Follows
  <2> QED BY <1>0, <2>2, <2>3 DEF FollowInv
<1>8. CASE UNCHANGED vars
  BY <1>1, <1>8 DEF vars, rows
<1>9. ASSUME NEW w \in Syncs, Step(w) PROVE FollowInv'
  BY <1>0, <1>5, <1>6, <1>9, FollowWriteLicense, FollowSyncSite, FollowCommit DEF Step
<1> QED
  BY <1>2, <1>3, <1>4, <1>6, <1>7, <1>8, <1>9 DEF Next, Deliver, Reconcile

(* The invariant holds in every state. *)
LEMMA FollowAlways == Spec => []FollowInv
BY FollowInit, FollowNext, PTL DEF Spec

(* A site follows the valid licenses of all the customers it has, though      *)
(* each is synchronised by a transaction of its own: the rows are read when   *)
(* they are locked, and whoever is active on a site locks it before it        *)
(* commits (stripeEventHandlers.ts:111-135).                                  *)
THEOREM SitesFollowLicenses == Spec => []SiteFollowsLicenses
<1>1. FollowInv => SiteFollowsLicenses
  BY DEF FollowInv, Follows, SiteFollowsLicenses
<1> QED BY <1>1, FollowAlways, PTL

(* Who waits for a site waits for one who holds a smaller one than it waits   *)
(* for: followed round a cycle, the sites would grow for ever. Only the       *)
(* shared lock of a first synchronisation is out of order.                    *)
THEOREM NoCycleWithoutFirst == Spec => []CyclesHaveAFirstSync
<1>1. ASSUME FollowInv, NEW C \in Deadlocks, \A w \in C : ~sync[w].first PROVE FALSE
  <2>0. BillingInv /\ C \in SUBSET Syncs /\ C # {}
        /\ \A w \in C : \E v \in C : WaitsFor(w, v)
    BY <1>1 DEF FollowInv, Deadlocks
  <2> DEFINE W == {w \in C : sync[w].pc = "sites" /\ sync[w].todo # {}}
             S == {NextSite(w) : w \in W}
  <2>1. ASSUME NEW v \in C, InTransaction(v) PROVE v \in W
    BY <2>0, <2>1 DEF WaitsFor, InTransaction
  <2>2. S # {}
    <3>1. PICK w \in C : TRUE
      BY <2>0
    <3>2. PICK v \in C : WaitsFor(w, v)
      BY <2>0
    <3>3. w \in W \/ v \in W
      BY <2>1, <3>2 DEF WaitsFor
    <3> QED BY <3>3
  <2>3. S \in SUBSET Nat /\ IsFiniteSet(S)
    <3>1. \A w \in W : NextSite(w) \in Sites
      BY <2>0, NextSiteInTodo
    <3>2. S \in SUBSET Sites
      BY <3>1
    <3> HIDE DEF S
    <3> QED BY <3>2, SyncAssumption, FS_Subset
  <2> HIDE DEF S
  <2>4. PICK m \in S : \A n \in S : n =< m
    BY <2>2, <2>3, Extremes
  <2>5. PICK w \in W : m = NextSite(w)
    BY DEF S
  <2>6. PICK v \in C : WaitsFor(w, v)
    BY <2>0
  <2>7. m \in sync[v].locked
    BY <1>1, <2>5, <2>6 DEF WaitsFor, Holds, Shares
  <2>8. sync[v].pc = "sites" /\ Fresh(v)
    BY <1>1, <2>0, <2>7, RecordOf DEF Sound, FollowInv
  <2>9. v \in W
    BY <2>1, <2>8 DEF InTransaction
  <2>10. NextSite(v) \in sync[v].todo /\ NextSite(v) \in S
    BY <2>0, <2>9, NextSiteInTodo DEF S
  <2>11. m < NextSite(v) /\ NextSite(v) =< m
    BY <2>4, <2>7, <2>8, <2>10 DEF Fresh
  <2>12. m \in Nat /\ NextSite(v) \in Nat
    BY <2>3, <2>10
  <2> QED BY <2>11, <2>12
<1>2. FollowInv => CyclesHaveAFirstSync
  BY <1>1 DEF CyclesHaveAFirstSync
<1> QED BY <1>2, FollowAlways, PTL
=============================================================================
