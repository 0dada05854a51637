------------------------------- MODULE Access --------------------------------
(***************************************************************************)
(* The rules on the rows of CommunitySite and License that decide who is   *)
(* on the community network: eligibility and its window                    *)
(* (src/services/entitlementService.ts) and what a synchronised            *)
(* subscription makes of a site (src/services/stripeEventHandlers.ts).     *)
(*                                                                         *)
(* Of a site's row the model keeps networkStatus, whether                  *)
(* networkTrialStartedAt is set, networkAccessUntil and optedIn.  No code  *)
(* under src/ changes CommunitySite.status, so it is ACTIVE throughout.    *)
(* Instants are natural numbers, and 0 is the null of a date column.       *)
(***************************************************************************)
EXTENDS Naturals, FiniteSets

Sanctions == {"SUSPENDED", "REVOKED"}
NetworkStatuses == {"none", "TRIAL", "ACTIVE", "EXPIRED"} \cup Sanctions
LicenseStatuses == {"none", "ACTIVE", "EXPIRED"} \cup Sanctions

SiteRows(Time) ==
  [net : NetworkStatuses, trialUsed : BOOLEAN, until : Time, optedIn : BOOLEAN]
LicenseRows(Time) == [status : LicenseStatuses, expires : Time]

NewSite == [net |-> "none", trialUsed |-> FALSE, until |-> 0, optedIn |-> FALSE]
NoLicense == [status |-> "none", expires |-> 0]

(* isNetworkStatusEligible, hasValidAccessWindow, isSiteNetworkEligible *)
Admitted(row) == row.net \in {"TRIAL", "ACTIVE"}
Open(row, t) == row.until > t
Eligible(row, t) == Admitted(row) /\ Open(row, t)

(* The rows markExpiredIfNeeded and the sweep turn to EXPIRED. *)
Lapsed(row, t) == Admitted(row) /\ ~Open(row, t)
Expired(row) == [row EXCEPT !.net = "EXPIRED"]

(* May a site be admitted on this license? *)
Valid(license, t) == license.status = "ACTIVE" /\ license.expires > t

Latest(deadlines) == CHOOSE d \in deadlines : \A e \in deadlines : e =< d

(* Mutant: the row of a suspended site is written like any other. *)
SynchronisedAlways(row, deadlines, t) ==
  IF deadlines # {} THEN [row EXCEPT !.net = "ACTIVE", !.until = Latest(deadlines)]
  ELSE IF row.net = "TRIAL" /\ Open(row, t) THEN row
  ELSE [row EXCEPT !.net = "EXPIRED", !.until = t]

(* What a synchronisation makes of a site: deadlines are those of all valid  *)
(* licenses active on it, whichever subscription they belong to.             *)
Synchronised(row, deadlines, t) ==
  IF row.net \in Sanctions THEN row
  ELSE IF deadlines # {}
    THEN [row EXCEPT !.net = "ACTIVE", !.until = Latest(deadlines)]
  ELSE IF row.net = "TRIAL" /\ Open(row, t) THEN row
  ELSE [row EXCEPT !.net = "EXPIRED", !.until = t]
=============================================================================
