---------------------------- MODULE PluginLicense ----------------------------
(***************************************************************************)
(* The entitlement a WordPress site keeps, so that no page has to ask for  *)
(* it (wp-advertising/includes/class-wpa-license.php).                     *)
(*                                                                         *)
(* It is kept in options, written one after another by processes that run  *)
(* at the same time: cron, administrators' pages, the return from          *)
(* checkout.  A process keeps in memory what it has read and does not      *)
(* write what it believes is written.  Deadlines are how far they are, so  *)
(* the clock needs no bound.  The site is registered; the entitlement the  *)
(* server holds is external here (module Entitlements).                    *)
(***************************************************************************)
EXTENDS Naturals

CONSTANTS
  Processes, \* PHP processes
  Statuses,  \* networkStatus at the server; "none": it answers 401 or 403
  MaxLeft    \* the farthest deadline

VARIABLES
  server,  \* networkStatus, and how far networkAccessUntil is
  status,  \* WPA_LICENSE_STATUS_OPTION
  until,   \* WPA_LICENSE_ACCESS_UNTIL_OPTION: how far it is; 0: past, or empty
  due,     \* whether WPA_LICENSE_NEXT_CHECK_OPTION is past
  enabled, \* WPA_COMMUNITY_ENABLED_OPTION
  task

vars == <<server, status, until, due, enabled, task>>

Left == 0 .. MaxLeft
Entitlements == [status : Statuses, left : Left]

Admitted(s) == s \in {"trial", "active", "grace"}

(* isSiteNetworkEligible at the server, is_network_eligible here *)
EligibleThere(e) == Admitted(e.status) /\ e.left > 0
EligibleHere == Admitted(status) /\ until > 0

(* seen: the status, if the process has read it; new: the options it is yet to *)
(* write, in the order of the record.                                         *)
Nothing == [status |-> {}, until |-> {}, due |-> {}, off |-> FALSE]
Idle == [pc |-> "idle", seen |-> {}, new |-> Nothing]
Writing(new) == IF new = Nothing THEN Idle ELSE [Idle EXCEPT !.pc = "write", !.new = new]

Init ==
  /\ server \in Entitlements
  /\ status = "inactive" /\ until = 0 /\ due = TRUE /\ enabled = FALSE
  /\ task = [p \in Processes |-> Idle]

Goto(p, pc) == task' = [task EXCEPT ![p].pc = pc]

-----------------------------------------------------------------------------
(* Who asks *)

(* Mutant: a site that lives on its grace is not asked for. *)
ScheduledButGrace == {"active", "trial", "expired"}

(* scheduled_refresh_entitlement, every hour *)
Scheduled == {"active", "trial", "grace", "expired"}

Cron(p) ==
  /\ task[p].pc = "idle"
  /\ status \in Scheduled /\ due
  /\ task' = [task EXCEPT ![p] = [Idle EXCEPT !.pc = "validate", !.seen = {status}]]
  /\ UNCHANGED <<server, status, until, due, enabled>>

(* maybe_refresh_entitlement, the refresh button, the return from checkout *)
Visit(p) ==
  /\ task[p].pc = "idle"
  /\ Goto(p, "validate")
  /\ UNCHANGED <<server, status, until, due, enabled>>

(* activate_license, get_checkout_session *)
Buy(p) ==
  /\ task[p].pc = "idle"
  /\ Goto(p, "buy")
  /\ UNCHANGED <<server, status, until, due, enabled>>

(* handle_toggle_community, and a trial if the site is not eligible *)
TurnOn(p) ==
  /\ task[p].pc = "idle"
  /\ enabled' = TRUE
  /\ IF EligibleHere
       THEN UNCHANGED task
       ELSE task' = [task EXCEPT ![p] = [Idle EXCEPT !.pc = "trial", !.seen = {status}]]
  /\ UNCHANGED <<server, status, until, due>>

TurnOff ==
  /\ enabled' = FALSE
  /\ UNCHANGED <<server, status, until, due, task>>

-----------------------------------------------------------------------------
(* The answers *)

(* store_entitlement *)
Local(e) ==
  IF EligibleThere(e) \/ e.status \in {"suspended", "revoked"} THEN e.status ELSE "expired"

Stored(e) ==
  [status |-> {Local(e)}, until |-> {e.left}, due |-> {FALSE}, off |-> ~EligibleThere(e)]

(* clear_entitlement *)
Cleared(s, again) == [status |-> {s}, until |-> {0}, due |-> {again}, off |-> FALSE]

(* A status the process believes is there already is not written. *)
Writes(p, new) ==
  task' = [task EXCEPT ![p] = Writing([new EXCEPT !.status = @ \ task[p].seen])]

Answer(p) ==
  /\ task[p].pc = "validate"
  /\ Writes(p, IF server.status = "none" THEN Cleared("revoked", TRUE) ELSE Stored(server))
  /\ UNCHANGED <<server, status, until, due, enabled>>

(* An error, no answer, or an unknown site: the access there is goes on. *)
LivesOn(p) ==
  LET s == IF task[p].seen = {} THEN {status} ELSE task[p].seen
  IN  (\A x \in s : Admitted(x)) /\ until > 0

Fail(p) ==
  /\ task[p].pc = "validate"
  /\ Writes(p, IF LivesOn(p) THEN [Nothing EXCEPT !.status = {"grace"}, !.due = {FALSE}]
                            ELSE Cleared("expired", FALSE))
  /\ UNCHANGED <<server, status, until, due, enabled>>

(* The server activates the license or starts the trial; both answer with an *)
(* entitlement, and so does a checkout of a site that is active.             *)
Granted(p) ==
  /\ task[p].pc \in {"buy", "trial"}
  /\ EligibleThere(server)
  /\ Writes(p, Stored(server))
  /\ UNCHANGED <<server, status, until, due, enabled>>

Denied(p) ==
  /\ task[p].pc \in {"buy", "trial"}
  /\ enabled' = (enabled /\ task[p].pc = "buy")
  /\ task' = [task EXCEPT ![p] = Idle]
  /\ UNCHANGED <<server, status, until, due>>

-----------------------------------------------------------------------------
(* The options, one by one *)

WriteStatus(p) ==
  /\ \E s \in task[p].new.status : status' = s
  /\ task' = [task EXCEPT ![p] = Writing([@.new EXCEPT !.status = {}])]
  /\ UNCHANGED <<server, until, due, enabled>>

WriteUntil(p) ==
  /\ task[p].new.status = {}
  /\ \E n \in task[p].new.until : until' = n
  /\ task' = [task EXCEPT ![p] = Writing([@.new EXCEPT !.until = {}])]
  /\ UNCHANGED <<server, status, due, enabled>>

WriteDue(p) ==
  /\ task[p].new.status = {} /\ task[p].new.until = {}
  /\ \E b \in task[p].new.due : due' = b
  /\ task' = [task EXCEPT ![p] = Writing([@.new EXCEPT !.due = {}])]
  /\ UNCHANGED <<server, status, until, enabled>>

SwitchOff(p) ==
  /\ task[p].new = [Nothing EXCEPT !.off = TRUE]
  /\ enabled' = FALSE
  /\ task' = [task EXCEPT ![p] = Idle]
  /\ UNCHANGED <<server, status, until, due>>

-----------------------------------------------------------------------------
(* The server's row changes: bought, renewed, sanctioned, rotated. *)
Change ==
  /\ server' \in Entitlements
  /\ UNCHANGED <<status, until, due, enabled, task>>

(* The process is killed, or runs out of time; elsewhere that is how it ends *)
(* anyway.                                                                   *)
Die(p) ==
  /\ \/ task[p].pc = "validate"
     \/ task[p].new.status # {} \/ task[p].new.until # {}
     \/ task[p].new.due \notin {{}, {due}}
  /\ task' = [task EXCEPT ![p] = Idle]
  /\ UNCHANGED <<server, status, until, due, enabled>>

Sooner(n) == IF n = 0 THEN 0 ELSE n - 1

Tick ==
  /\ server' = [server EXCEPT !.left = Sooner(@)]
  /\ until' = Sooner(until)
  /\ task' = [p \in Processes |->
               [task[p] EXCEPT !.new.until = {Sooner(n) : n \in @}]]
  /\ UNCHANGED <<status, due, enabled>>

(* The next check comes. *)
Wait ==
  /\ due' = TRUE
  /\ UNCHANGED <<server, status, until, enabled, task>>

Step(p) ==
  \/ Answer(p) \/ Fail(p) \/ Granted(p) \/ Denied(p)
  \/ WriteStatus(p) \/ WriteUntil(p) \/ WriteDue(p) \/ SwitchOff(p)

Next ==
  \/ \E p \in Processes :
       Cron(p) \/ Visit(p) \/ Buy(p) \/ TurnOn(p) \/ Step(p) \/ Die(p)
  \/ TurnOff \/ Change \/ Tick \/ Wait

(* Checks come due, cron runs, processes go on; access need not run out. *)
Fairness ==
  /\ WF_vars(Wait)
  /\ \A p \in Processes : WF_vars(Step(p))
  /\ SF_vars(\E p \in Processes : Cron(p))

Spec == Init /\ [][Next]_vars /\ Fairness

-----------------------------------------------------------------------------
(* Properties *)

TypeOK ==
  /\ server \in Entitlements
  /\ status \in Statuses \cup {"inactive", "grace", "expired", "revoked"}
  /\ until \in Left /\ due \in BOOLEAN /\ enabled \in BOOLEAN
  /\ \A p \in Processes : task[p].new.until \subseteq Left

(* Cron alone brings the site to what the server holds, whatever processes   *)
(* died between two options, stored an older answer last or went without an  *)
(* answer: at last it is eligible here if it is there.  Not so where a       *)
(* sanction is stored, nor before anything is: then cron does not ask        *)
(* (class-wpa-plugin.php:80-84, class-wpa-license.php:61-94, 202-247).       *)
LeftToVisitors == status \in {"inactive", "suspended", "revoked"}
EntitlementsArrive ==
  (<>[][~(Change \/ \E p \in Processes : Fail(p) \/ Die(p))]_vars)
    => <>[](LeftToVisitors \/ (EligibleHere <=> EligibleThere(server)))
=============================================================================
