----------------------------- MODULE PluginCache -----------------------------
(***************************************************************************)
(* The community ad a WordPress site keeps, and the lock under which one   *)
(* process at a time is to refresh it                                      *)
(* (wp-advertising/includes/class-wpa-repository.php).                     *)
(*                                                                         *)
(* The ad and the lock are rows of the options table, or the lock is an    *)
(* entry of a persistent object cache; every query is a step, and a        *)
(* process may end anywhere.  Of the ad the model keeps how old it is and  *)
(* when it may be shown and asked for; times are relative, so the clock    *)
(* needs no bound.  The site is enabled and entitled (module               *)
(* PluginLicense); the ad server is external.                              *)
(***************************************************************************)
EXTENDS Naturals, FiniteSets

CONSTANTS
  Procs,     \* PHP processes
  FreshTTL, StaleTTL, LockTTL,  \* WPA_COMMUNITY_..._TTL
  NotAfters, \* how long the server lets an ad be shown; {}: as long as you like
  Waits      \* how long a failure keeps visitors from asking again

VARIABLES
  ad,         \* the cached record; {} or one element
  lock,       \* the lock's age; {} or one element
  proc,
  persistent, \* wp_using_ext_object_cache()
  fpm,        \* function_exists('fastcgi_finish_request')
  disorder    \* history: a lock outlived its TTL, and who met it is not done yet

vars == <<ad, lock, proc, persistent, fpm, disorder>>

Ages == 0 .. StaleTTL
Records == [age : Ages, left : SUBSET Nat, wait : Nat]

(* found: the record as the process has first read it; WordPress answers its *)
(* later reads from the memory of the process.                               *)
States ==
  {"idle", "insert", "look", "delete", "reinsert", "held", "ask", "release", "cold"}
Idle == [pc |-> "idle", cron |-> FALSE, found |-> {}]

Init ==
  /\ ad = {} /\ lock = {}
  /\ proc = [p \in Procs |-> Idle]
  /\ persistent \in BOOLEAN /\ fpm \in BOOLEAN
  /\ disorder = FALSE

(* read_community_cache: what the server lets nobody see is no record. *)
Readable(r) == 0 \notin r.left
Found == {r \in ad : Readable(r)}
Fresh(r) == r.age < FreshTTL
Servable(r) == Readable(r) /\ r.age < StaleTTL

Goto(p, pc) == proc' = [proc EXCEPT ![p].pc = pc]

(* Those who act on the lock. *)
Locking(q) == q.pc \in {"look", "delete", "reinsert", "held", "ask", "release"}
Settle == disorder' = (disorder /\ (lock' # {} \/ \E p \in Procs : Locking(proc'[p])))

-----------------------------------------------------------------------------
(* get_community_payload: a fresh ad is shown, and nothing happens. *)

(* A stale ad is shown, and refreshed by whoever gets the lock. *)
VisitStale(p) ==
  /\ proc[p].pc = "idle"
  /\ \E r \in Found : ~Fresh(r) /\ Servable(r) /\ r.wait = 0
  /\ proc' = [proc EXCEPT ![p] = [Idle EXCEPT !.pc = "insert", !.found = Found]]
  /\ UNCHANGED <<ad, lock, persistent, fpm, disorder>>

(* Otherwise the visitor waits for the server. *)
VisitCold(p) ==
  /\ proc[p].pc = "idle"
  /\ ~\E r \in Found : Servable(r)
  /\ Goto(p, "cold")
  /\ UNCHANGED <<ad, lock, persistent, fpm, disorder>>

(* prime_community_ad_cache *)
Cron(p) ==
  /\ proc[p].pc = "idle"
  /\ Found # {}
  /\ proc' = [proc EXCEPT ![p] = [pc |-> "insert", cron |-> TRUE, found |-> Found]]
  /\ UNCHANGED <<ad, lock, persistent, fpm, disorder>>

-----------------------------------------------------------------------------
(* try_acquire_refresh_lock *)

(* Mutant: the row is looked for and then written. *)
TakenIfSeen(p) == lock' = {0} /\ Goto(p, "held")

(* INSERT IGNORE, or SETNX *)
Take(p) ==
  /\ lock = {}
  /\ lock' = {0}
  /\ Goto(p, "held")

Insert(p) ==
  /\ proc[p].pc = "insert"
  /\ \/ Take(p)
     \/ /\ lock # {}
        /\ IF persistent THEN proc' = [proc EXCEPT ![p] = Idle] ELSE Goto(p, "look")
        /\ UNCHANGED lock
  /\ Settle
  /\ UNCHANGED <<ad, persistent, fpm>>

(* Mutant: a lock is left to the process that took it. *)
NeverOutlived == FALSE

Outlived == \E age \in lock : age > LockTTL

LookAtLock(p) ==
  /\ proc[p].pc = "look"
  /\ proc' = [proc EXCEPT ![p] = IF Outlived THEN [@ EXCEPT !.pc = "delete"] ELSE Idle]
  /\ UNCHANGED lock /\ Settle
  /\ UNCHANGED <<ad, persistent, fpm>>

(* Whosever it is by now. *)
DeleteLock(p) ==
  /\ proc[p].pc = "delete"
  /\ lock' = {}
  /\ Goto(p, "reinsert")
  /\ Settle
  /\ UNCHANGED <<ad, persistent, fpm>>

Reinsert(p) ==
  /\ proc[p].pc = "reinsert"
  /\ \/ Take(p)
     \/ lock # {} /\ proc' = [proc EXCEPT ![p] = Idle] /\ UNCHANGED lock
  /\ Settle
  /\ UNCHANGED <<ad, persistent, fpm>>

(* release_refresh_lock: whosever it is by now *)
Release(p) ==
  /\ lock' = {}
  /\ proc' = [proc EXCEPT ![p] = Idle]
  /\ Settle
  /\ UNCHANGED <<ad, persistent, fpm>>

-----------------------------------------------------------------------------
(* maybe_do_background_community_refresh once the page is sent, or cron *)

Refresh(p) ==
  /\ proc[p].pc = "held"
  /\ proc[p].cron \/ fpm
  /\ proc' = [proc EXCEPT ![p].pc = "ask", ![p].found = {r \in @ : Readable(r)}]
  /\ UNCHANGED <<ad, lock, persistent, fpm, disorder>>

(* The event scheduled is one more Cron. *)
Defer(p) ==
  /\ proc[p].pc = "held" /\ ~proc[p].cron /\ ~fpm
  /\ Release(p)

(* shortcode_community_ad: the page ends and the lock stays *)
Leave(p) ==
  /\ proc[p].pc = "held" /\ ~proc[p].cron
  /\ proc' = [proc EXCEPT ![p] = Idle]
  /\ UNCHANGED lock /\ Settle
  /\ UNCHANGED <<ad, persistent, fpm>>

(* execute_background_community_refresh and the cold path, at the answer *)
Answered(p) == [proc EXCEPT ![p] = IF @.pc = "ask" THEN [@ EXCEPT !.pc = "release"] ELSE Idle]

(* write_community_cache *)
Serve(p) ==
  /\ proc[p].pc \in {"ask", "cold"}
  /\ \E left \in NotAfters : ad' = {[age |-> 0, left |-> left, wait |-> 0]}
  /\ proc' = Answered(p)
  /\ UNCHANGED <<lock, persistent, fpm, disorder>>

(* 204 *)
NothingToServe(p) ==
  /\ proc[p].pc \in {"ask", "cold"}
  /\ proc' = Answered(p)
  /\ UNCHANGED <<ad, lock, persistent, fpm, disorder>>

(* record_refresh_failure writes the record as it was read; without one, and *)
(* on the cold path, nothing is written.                                     *)
Fail(p) ==
  /\ proc[p].pc \in {"ask", "cold"}
  /\ IF proc[p].pc = "cold" \/ proc[p].found = {}
       THEN UNCHANGED ad
       ELSE \E r \in proc[p].found, wait \in Waits : ad' = {[r EXCEPT !.wait = wait]}
  /\ proc' = Answered(p)
  /\ UNCHANGED <<lock, persistent, fpm, disorder>>

Finish(p) == proc[p].pc = "release" /\ Release(p)

(* The process is killed, or runs out of time or memory; elsewhere that is *)
(* how it ends anyway.                                                     *)
Die(p) ==
  /\ \/ proc[p].pc \in {"delete", "held", "ask", "cold"}
     \/ proc[p].pc = "look" /\ Outlived
     \/ proc[p].pc = "reinsert" /\ lock = {}
     \/ proc[p].pc = "release" /\ lock # {}
  /\ proc' = [proc EXCEPT ![p] = Idle]
  /\ UNCHANGED lock /\ Settle
  /\ UNCHANGED <<ad, persistent, fpm>>

Older(r) ==
  [age |-> IF r.age < StaleTTL THEN r.age + 1 ELSE r.age,
   left |-> {IF n = 0 THEN 0 ELSE n - 1 : n \in r.left},
   wait |-> IF r.wait = 0 THEN 0 ELSE r.wait - 1]

(* The object cache forgets an entry that has outlived its TTL. *)
Tick ==
  /\ ad' = {Older(r) : r \in ad}
  /\ proc' = [p \in Procs |-> [proc[p] EXCEPT !.found = {Older(r) : r \in @}]]
  /\ lock' = IF persistent THEN {age + 1 : age \in {a \in lock : a < LockTTL}}
             ELSE {IF age > LockTTL THEN age ELSE age + 1 : age \in lock}
  /\ disorder' = (disorder \/ LockTTL \in lock)
  /\ UNCHANGED <<persistent, fpm>>

Step(p) ==
  \/ Insert(p) \/ LookAtLock(p) \/ DeleteLock(p) \/ Reinsert(p)
  \/ Refresh(p) \/ Defer(p) \/ Serve(p) \/ NothingToServe(p) \/ Fail(p) \/ Finish(p)

Next ==
  \/ \E p \in Procs : VisitStale(p) \/ VisitCold(p) \/ Cron(p)
                      \/ Step(p) \/ Leave(p) \/ Die(p)
  \/ Tick

(* Time passes, processes go on, and WP-Cron gets one again and again. *)
Fairness ==
  /\ WF_vars(Tick)
  /\ \A p \in Procs : WF_vars(Step(p))
  /\ SF_vars(\E p \in Procs : Cron(p))

Spec == Init /\ [][Next]_vars /\ Fairness

-----------------------------------------------------------------------------
(* Properties *)

TypeOK ==
  /\ Cardinality(ad) =< 1 /\ ad \subseteq Records
  /\ Cardinality(lock) =< 1 /\ lock \subseteq 0 .. LockTTL + 1
  /\ proc \in [Procs -> [pc : States, cron : BOOLEAN, found : SUBSET Records]]
  /\ persistent \in BOOLEAN /\ fpm \in BOOLEAN /\ disorder \in BOOLEAN

(* One process at a time refreshes the ad, whoever dies, defers or finds the *)
(* lock stale; once a lock has been outlived, from when all who met it are   *)
(* done ("exactly one process gets rows=1",                                  *)
(* class-wpa-repository.php:689, 710-717, 722).                              *)
Refreshing(p) == proc[p].pc \in {"held", "ask", "release"}
OneRefresher ==
  ~disorder => Cardinality({p \in Procs : Refreshing(p)}) =< 1

(* A lock that a process leaves behind does not stop refreshes: a stale ad   *)
(* is at last replaced, or hidden by its not_after, if only the server       *)
(* answers, processes live, and visits do not for ever take the lock to      *)
(* defer or leave it (class-wpa-repository.php:705-720, 936-948).            *)
RefreshesGoOn ==
  (<>[][\A p \in Procs :
         ~(Fail(p) \/ NothingToServe(p) \/ Die(p) \/ Leave(p) \/ Defer(p))]_vars)
    => ((\E r \in Found : ~Fresh(r)) ~> ~\E r \in Found : ~Fresh(r))
=============================================================================
