------------------------------ MODULE RateLimit ------------------------------
(***************************************************************************)
(* The rate limiter of the ad server (src/middleware/rateLimit.ts): a map  *)
(* of fixed windows, one per route name and client, bounded in size, and   *)
(* swept by an interval timer.                                             *)
(*                                                                         *)
(* Instants are kept as distances from now, so time has no bound: `left`   *)
(* is resetAt - Date.now(), and -1 stands for every instant before now.    *)
(* A handler runs without an await, so a request is one step.              *)
(***************************************************************************)
EXTENDS Integers, FiniteSets, FiniteSetsExt

CONSTANTS
  Keys,        \* a route's name and a client
  Limit,       \* the route's max
  Window,      \* RATE_LIMIT_WINDOW_MS
  SweepEvery,  \* the sweep's interval, max(Window, 30 s)
  MaxBuckets   \* RATE_LIMIT_MAX_BUCKETS

VARIABLES
  buckets,  \* a function on the tracked keys
  sweepIn,  \* time until the sweep's timer is due
  passed    \* history: the requests let through in the last Window, as
            \* <<age, number among those of their instant>>

vars == <<buckets, sweepIn, passed>>

Ages == 0 .. Window - 1

(* Counts above the limit are alike: the request is refused. *)
Buckets == [count : 1 .. Limit + 1, left : -1 .. Window]

TypeOK ==
  /\ DOMAIN buckets \subseteq Keys
  /\ \A k \in DOMAIN buckets : buckets[k] \in Buckets
  /\ sweepIn \in 0 .. SweepEvery
  /\ passed \in [Keys -> SUBSET (Ages \X Nat)]

Init ==
  /\ buckets = <<>>
  /\ sweepIn = SweepEvery
  /\ passed = [k \in Keys |-> {}]

Tracked(k) == k \in DOMAIN buckets

(* Is the bucket's window still open? *)
Open(k) == Tracked(k) /\ buckets[k].left > 0

(* Mutant: every request, also a refused one, starts the window anew. *)
CountedAnew(k) ==
  [count |-> Min({IF Open(k) THEN buckets[k].count + 1 ELSE 1, Limit + 1}),
   left |-> Window]

(* The bucket of a request: the one of the open window, or a fresh one. *)
Counted(k) ==
  IF Open(k) THEN [buckets[k] EXCEPT !.count = Min({@ + 1, Limit + 1})]
             ELSE [count |-> 1, left |-> Window]

(* A key that is not tracked while the map is full: 429. *)
Crowded(k) == ~Tracked(k) /\ Cardinality(DOMAIN buckets) >= MaxBuckets

Put(k, bucket) ==
  buckets' = [j \in DOMAIN buckets \cup {k} |-> IF j = k THEN bucket ELSE buckets[j]]

Refused(k) == Crowded(k) \/ Counted(k).count > Limit

(* The requests let through at this instant *)
PassedNow(k) == {x \in passed[k] : x[1] = 0}

(* next() *)
Pass(k) ==
  /\ ~Refused(k)
  /\ Put(k, Counted(k))
  /\ passed' = [passed EXCEPT ![k] = @ \cup {<<0, Cardinality(PassedNow(k))>>}]
  /\ UNCHANGED sweepIn

(* 429; a tracked key's count goes on. *)
Refuse(k) ==
  /\ Refused(k)
  /\ IF Crowded(k) THEN UNCHANGED buckets ELSE Put(k, Counted(k))
  /\ UNCHANGED <<sweepIn, passed>>

Request(k) == Pass(k) \/ Refuse(k)

(* Mutant: the whole map is cleared. *)
SweptAll == {}

(* The keys that survive a sweep; one whose window ends right now does. *)
Swept == {k \in DOMAIN buckets : buckets[k].left >= 0}

Sweep ==
  /\ sweepIn = 0
  /\ sweepIn' = SweepEvery
  /\ buckets' = [k \in Swept |-> buckets[k]]
  /\ UNCHANGED passed

(* The timer may be late. *)
Tick ==
  /\ buckets' = [k \in DOMAIN buckets |->
                   [buckets[k] EXCEPT !.left = IF @ >= 0 THEN @ - 1 ELSE @]]
  /\ sweepIn' = IF sweepIn > 0 THEN sweepIn - 1 ELSE 0
  /\ passed' = [k \in Keys |->
                  {<<x[1] + 1, x[2]>> : x \in {y \in passed[k] : y[1] + 1 \in Ages}}]

Next == (\E k \in Keys : Request(k)) \/ Sweep \/ Tick

(* Time passes, the timer fires, and the clients go on asking. *)
Fairness == WF_vars(Tick) /\ WF_vars(Sweep) /\ \A k \in Keys : WF_vars(Request(k))

-----------------------------------------------------------------------------
(* Properties *)

(* However windows, sweeps and a full map fall together, no client gets more *)
(* than two windows' worth of requests through in the time of one            *)
(* (rateLimit.ts:12-17, 24, 33).                                             *)
BurstsAreBounded ==
  \A k \in Keys : Cardinality(passed[k]) =< 2 * Limit

(* A client refused for its count is let through again, or finds its place   *)
(* in a full map taken: going on asking does not prolong the refusal         *)
(* (rateLimit.ts:24, 38).                                                    *)
RefusalsEnd ==
  \A k \in Keys : Open(k) /\ Refused(k) ~> ~Refused(k) \/ Crowded(k)
=============================================================================
