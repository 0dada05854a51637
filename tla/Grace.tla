-------------------------------- MODULE Grace --------------------------------
(***************************************************************************)
(* The billing window of one subscription: what a synchronisation makes of *)
(* the subscription Stripe reports and the invoice paid last               *)
(* (billingWindow and the reads before it in                               *)
(* src/services/stripeEventHandlers.ts), while the subscription renews,    *)
(* fails to be paid, recovers and ends.                                    *)
(*                                                                         *)
(* Stripe is external: of a renewal it creates a draft invoice, finalises  *)
(* it some time later, and then attempts payment.  Synchronisations of one *)
(* subscription exclude each other (module BillingSync), but each asks     *)
(* Stripe twice: for the subscription, then for the last paid invoice.     *)
(***************************************************************************)
EXTENDS Naturals

CONSTANTS
  Period,     \* length of a billing period
  GraceDays,  \* License.failureGraceDays
  MaxTime     \* bound of the clock

ASSUME GraceAssumption == Period \in Nat \ {0} /\ GraceDays \in Nat /\ MaxTime \in Nat

VARIABLES
  sub,      \* Stripe: the subscription and its latest invoice
  paid,     \* Stripe: the end of the period of the invoice paid last
  fetched,  \* the subscription the synchronisation in progress has read
  busy,     \* is a synchronisation in progress?
  license,  \* License: status, expiresAt, graceUntil (0: null)
  now,
  first,    \* history: when the first unpaid renewal was finalised; the latest
            \* one, as long as no synchronisation has recorded a failure
  promised, \* history: the grace deadline of the present delinquency (0: none)
  forgot    \* history: since then, a synchronisation saw a renewal not yet
            \* tried, or a payment fell between its two questions

vars == <<sub, paid, fetched, busy, license, now, first, promised, forgot>>

Larger(a, b) == IF a > b THEN a ELSE b
Smaller(a, b) == IF a < b THEN a ELSE b

Horizon == MaxTime + Period + GraceDays
Instants == 0 .. Horizon

(* A paused subscription is as terminal as a canceled one. *)
Subscriptions ==
  [status : {"active", "past_due", "canceled", "paused"},
   invoice : {"draft", "open", "failed", "paid"},
   finalized : Instants, periodEnd : Instants, ended : Instants]

Init ==
  /\ sub = [status |-> "active", invoice |-> "paid", finalized |-> 0,
            periodEnd |-> Period, ended |-> 0]
  /\ paid = Period
  /\ fetched = sub
  /\ busy = FALSE
  /\ license = [status |-> "ACTIVE", expires |-> Period, grace |-> 0]
  /\ now = 0
  /\ first = 0
  /\ promised = 0
  /\ forgot = FALSE

-----------------------------------------------------------------------------
(* Stripe *)

Stripe(new) == sub' = new /\ UNCHANGED <<fetched, busy, license, now>>

Renews ==
  /\ sub.status \in {"active", "past_due"}
  /\ now >= sub.periodEnd
  /\ Stripe([sub EXCEPT !.invoice = "draft", !.periodEnd = @ + Period])
  /\ UNCHANGED <<paid, first, promised, forgot>>

Finalizes ==
  /\ sub.status \in {"active", "past_due"}
  /\ sub.invoice = "draft"
  /\ Stripe([sub EXCEPT !.invoice = "open", !.finalized = now])
  /\ first' = IF promised = 0 THEN now ELSE first
  /\ UNCHANGED <<paid, promised, forgot>>

PaymentFails ==
  /\ sub.status \in {"active", "past_due"}
  /\ sub.invoice = "open"
  /\ Stripe([sub EXCEPT !.invoice = "failed", !.status = "past_due"])
  /\ UNCHANGED <<paid, first, promised, forgot>>

PaymentSucceeds ==
  /\ sub.status \in {"active", "past_due"}
  /\ sub.invoice \in {"open", "failed"}
  /\ Stripe([sub EXCEPT !.invoice = "paid", !.status = "active"])
  /\ paid' = sub.periodEnd
  /\ first' = sub.finalized
  /\ promised' = 0
  /\ forgot' = busy

Ends ==
  /\ sub.status \in {"active", "past_due"}
  /\ \/ Stripe([sub EXCEPT !.status = "canceled", !.ended = now])
     \/ Stripe([sub EXCEPT !.status = "paused"])
  /\ UNCHANGED <<paid, first, promised, forgot>>

-----------------------------------------------------------------------------
(* billingWindow *)

(* Mutant: pause_collection is not looked at. *)
TerminalUnlessPaused(s) == s.status = "canceled"

Terminal(s) == s.status \notin {"active", "past_due"}
Failing(s) == ~Terminal(s) /\ s.invoice = "failed"

(* Mutant: the deadline follows the latest invoice. *)
GraceOfLatest(s, paidThrough) ==
  IF Failing(s) /\ paidThrough > 0 THEN Larger(paidThrough, s.finalized) + GraceDays ELSE 0

(* Mutant: every attempt restarts the grace. *)
GraceRestarted(s, paidThrough) ==
  IF Failing(s) /\ paidThrough > 0 THEN Larger(paidThrough, now) + GraceDays ELSE 0

(* graceUntil: an ongoing delinquency keeps its deadline. *)
Grace(s, paidThrough) ==
  IF ~(Failing(s) /\ paidThrough > 0) THEN 0
  ELSE IF license.grace # 0 /\ paidThrough =< license.grace THEN license.grace
  ELSE Larger(paidThrough, s.finalized) + GraceDays

Expiry(s, paidThrough) ==
  IF Terminal(s)
    THEN Smaller(paidThrough, IF s.ended # 0 THEN s.ended ELSE now)
    ELSE Larger(paidThrough, Grace(s, paidThrough))

WindowStatus(s, paidThrough) ==
  IF Terminal(s) \/ Expiry(s, paidThrough) =< now THEN "EXPIRED" ELSE "ACTIVE"

Window(s, paidThrough) ==
  [status |-> WindowStatus(s, paidThrough), expires |-> Expiry(s, paidThrough),
   grace |-> Grace(s, paidThrough)]

-----------------------------------------------------------------------------
(* syncSubscription *)

FetchSubscription ==
  /\ ~busy
  /\ busy' = TRUE
  /\ fetched' = sub
  /\ UNCHANGED <<sub, paid, license, now, first, promised, forgot>>

(* The last paid invoice is asked for now; a renewal invoice alone grants    *)
(* nothing.                                                                  *)
PaidThrough == Smaller(paid, fetched.periodEnd)

WriteLicense ==
  /\ busy
  /\ busy' = FALSE
  /\ license' = Window(fetched, PaidThrough)
  /\ promised' = IF fetched.invoice = "paid" THEN 0
                 ELSE IF promised = 0 THEN license'.grace ELSE promised
  /\ first' = IF promised' = 0 THEN sub.finalized ELSE first
  /\ forgot' = (fetched.invoice # "paid"
                 /\ (forgot \/ (promised # 0 /\ fetched.invoice # "failed")))
  /\ UNCHANGED <<sub, paid, fetched, now>>

(* A Stripe call fails or the transaction is rolled back. *)
Abort ==
  /\ busy
  /\ busy' = FALSE
  /\ UNCHANGED <<sub, paid, fetched, license, now, first, promised, forgot>>

Tick ==
  /\ now < MaxTime
  /\ now' = now + 1
  /\ UNCHANGED <<sub, paid, fetched, busy, license, first, promised, forgot>>

Next ==
  \/ Renews \/ Finalizes \/ PaymentFails \/ PaymentSucceeds \/ Ends
  \/ FetchSubscription \/ WriteLicense \/ Abort
  \/ Tick

Spec == Init /\ [][Next]_vars

(* Stripe redelivers an event until it is answered, and the operator can     *)
(* reconcile: synchronisations go on, and not all of them fail.              *)
Fairness == WF_vars(FetchSubscription) /\ SF_vars(WriteLicense)
FairSpec == Spec /\ Fairness

-----------------------------------------------------------------------------
(* Properties *)

TypeOK ==
  /\ sub \in Subscriptions /\ fetched \in Subscriptions
  /\ paid \in Instants
  /\ busy \in BOOLEAN /\ forgot \in BOOLEAN
  /\ license \in [status : {"ACTIVE", "EXPIRED"}, expires : Instants, grace : Instants]
  /\ now \in 0 .. MaxTime
  /\ first \in Instants /\ promised \in Instants

(* The renewal the grace may count from. *)
Anchor == IF forgot THEN sub.finalized ELSE first

(* "Grace is anchored to the first unpaid renewal, never the webhook         *)
(* receipt/retry time" (stripeEventHandlers.ts:26): access is never granted  *)
(* past what was paid, or the first unpaid renewal, plus the grace, however  *)
(* many renewals follow it unpaid, also when a payment falls between the two *)
(* questions of a synchronisation.  Where the code cannot keep to the first: *)
(* a renewal superseded before a synchronisation has recorded its failure is *)
(* not known to it, and the next one counts; and once a synchronisation has  *)
(* forgotten the deadline (GraceIsFixed), the latest one counts.             *)
NoUnpaidPeriod ==
  license.expires =< Larger(paid, Anchor) + GraceDays

(* An ended subscription is at last recorded as expired, for good, whatever  *)
(* synchronisations were under way (stripeEventHandlers.ts:30, :42-44).      *)
EndedIsExpired ==
  sub.status \in {"canceled", "paused"} ~> [](license.status = "EXPIRED")

(* While every synchronisation of a delinquency sees an attempted invoice    *)
(* (and no payment falls between its two questions), the grace deadline does *)
(* not move, however many invoices fail and payments are retried             *)
(* (stripeEventHandlers.ts:37-40).                                           *)
GraceMovesOnlyWhenForgotten ==
  [][license' # license /\ promised # 0 /\ ~forgot =>
       license'.grace \in {0, promised}]_vars

(* "Failed renewal grace has a fixed deadline; retries do not extend it"     *)
(* (docs/billing.md:25).                                                     *)
GraceIsFixed ==
  [][license' # license /\ promised # 0 => license'.grace \in {0, promised}]_vars
=============================================================================
