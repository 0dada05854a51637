------------------------------- MODULE Edges --------------------------------
(***************************************************************************)
(* The parts at the edges of the system, which share no state: the rate    *)
(* limiter, the start of a server, the operators' web client, the script   *)
(* of the ad form, the development reload, the plugin's cache and its      *)
(* license.  A behavior picks a part and runs it alone; the variables of   *)
(* the others keep their initial values.                                   *)
(***************************************************************************)
EXTENDS Integers

CONSTANTS
  Keys, Limit, Window, SweepEvery, MaxBuckets,
  Servers, NumTitles, Retries, MaxRestarts, MaxOutages,
  Tabs, MaxToken,
  Terms, TooShort, MaxTypes,
  MaxEdits,
  Procs, FreshTTL, StaleTTL, LockTTL, NotAfters, Waits,
  Processes, Statuses, MaxLeft

(* The limits and lifetimes of the configuration (config.ts, and the         *)
(* WPA_COMMUNITY_..._TTL of the plugin).                                     *)
ASSUME RateAssumption == Limit \in Nat /\ Window \in Nat \ {0}
ASSUME CacheAssumption ==
  /\ FreshTTL \in Nat /\ StaleTTL \in Nat /\ LockTTL \in Nat
  /\ NotAfters \subseteq SUBSET Nat /\ Waits \subseteq Nat
ASSUME TitlesAssumption == NumTitles \in Nat

VARIABLES
  part,
  buckets, sweepIn, passed,
  at, attempt, seed, item, ends, db, outages, team, posts, others, faults, broken,
  token, cookie, message, tab,
  field, timer, inflight, asked, results, selected, button, types,
  revision, readable, up, page, poll,
  ad, lock, proc, persistent, fpm, disorder,
  server, status, until, due, enabled, task

RL == INSTANCE RateLimit
ST == INSTANCE Startup
AC == INSTANCE AdminClient
AS == INSTANCE AdminScript
DR == INSTANCE DevReload
PC == INSTANCE PluginCache
PL == INSTANCE PluginLicense

rateVars == <<buckets, sweepIn, passed>>
startVars ==
  <<at, attempt, seed, item, ends, db, outages, team, posts, others, faults, broken>>
clientVars == <<token, cookie, message, tab>>
scriptVars == <<field, timer, inflight, asked, results, selected, button, types>>
reloadVars == <<revision, readable, up, page, poll>>
pluginVars == <<ad, lock, proc, persistent, fpm, disorder>>
licenseVars == <<server, status, until, due, enabled, task>>
vars == <<part, rateVars, startVars, clientVars, scriptVars, reloadVars, pluginVars,
          licenseVars>>

Init ==
  /\ part \in {"rateLimit", "startup", "client", "script", "reload", "plugin", "license"}
  /\ RL!Init /\ ST!Init /\ AC!Init /\ AS!Init /\ DR!Init /\ PC!Init /\ PL!Init
  /\ part # "plugin" => ~persistent /\ ~fpm
  /\ part # "license" => server.status = "active" /\ server.left = 0

Next ==
  /\ UNCHANGED part
  /\ \/ /\ part = "rateLimit" /\ RL!Next
        /\ UNCHANGED <<startVars, clientVars, scriptVars, reloadVars, pluginVars, licenseVars>>
     \/ /\ part = "startup" /\ ST!Next
        /\ UNCHANGED <<rateVars, clientVars, scriptVars, reloadVars, pluginVars, licenseVars>>
     \/ /\ part = "client" /\ AC!Next
        /\ UNCHANGED <<rateVars, startVars, scriptVars, reloadVars, pluginVars, licenseVars>>
     \/ /\ part = "script" /\ AS!Next
        /\ UNCHANGED <<rateVars, startVars, clientVars, reloadVars, pluginVars, licenseVars>>
     \/ /\ part = "reload" /\ DR!Next
        /\ UNCHANGED <<rateVars, startVars, clientVars, scriptVars, pluginVars, licenseVars>>
     \/ /\ part = "plugin" /\ PC!Next
        /\ UNCHANGED <<rateVars, startVars, clientVars, scriptVars, reloadVars, licenseVars>>
     \/ /\ part = "license" /\ PL!Next
        /\ UNCHANGED <<rateVars, startVars, clientVars, scriptVars, reloadVars, pluginVars>>

Spec == Init /\ [][Next]_vars

-----------------------------------------------------------------------------
(* Properties; what must come about is stated under the fairness of its part. *)

(* RateLimit: no client gets more than two windows' worth through in one. *)
BurstsAreBounded == RL!BurstsAreBounded

(* RateLimit: going on asking does not prolong a refusal. *)
RefusalsEnd == part = "rateLimit" /\ RL!Fairness => RL!RefusalsEnd

(* Startup: concurrent seeds leave the forum with every post. *)
SeedsComplete == ST!SeedsComplete

(* Startup: a server comes to listen whatever its import and its seed meet. *)
ServersListen == part = "startup" /\ ST!Fairness => ST!ServersListen

(* AdminClient: redirections come to an end. *)
RedirectionsEnd == part = "client" /\ AC!Fairness => AC!RedirectionsEnd

(* AdminScript: the last term typed is searched for. *)
LastTermIsSearched == part = "script" /\ AS!Fairness => AS!LastTermIsSearched

(* DevReload: an open page comes to show the last revision. *)
PagesCatchUp == part = "reload" /\ DR!Fairness => DR!PagesCatchUp

(* PluginCache: one process at a time refreshes the plugin's ad. *)
OneRefresher == PC!OneRefresher

(* PluginCache: a lock left behind does not stop refreshes. *)
RefreshesGoOn == part = "plugin" /\ PC!Fairness => PC!RefreshesGoOn

(* PluginLicense: the site comes to hold what the server holds. *)
EntitlementsArrive == part = "license" /\ PL!Fairness => PL!EntitlementsArrive
=============================================================================
