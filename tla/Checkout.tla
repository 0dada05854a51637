------------------------------ MODULE Checkout -------------------------------
(***************************************************************************)
(* Plans and checkout: the one row of billing settings, which the operator *)
(* saves and a starting server imports from Stripe                         *)
(* (src/services/billingConfigService.ts), and the checkout sessions that  *)
(* are opened with it (src/services/checkoutService.ts).                   *)
(*                                                                         *)
(* Every awaited query and every call of Stripe's API is a step.  Stripe   *)
(* answers a key it knows with the session the key has opened, and refuses *)
(* it with other parameters.  A price's amount never changes there; a      *)
(* price may be archived, and a call may fail, at any time.                *)
(***************************************************************************)
EXTENDS Naturals, FiniteSets, FiniteSetsExt

CONSTANTS
  Plans,        \* "monthly", "annual"
  Prices,       \* Stripe's prices
  AmountOf,     \* and their amounts
  EnvPrice,     \* STRIPE_PRICE_MONTHLY and _ANNUAL; NoPrice: not set
  NoPrice,
  Graces,       \* values of failureGraceDays
  Customers,    \* what requests for checkout bring: [site, url, email], the
                \* URL as normalizeSiteUrl leaves it
  NoSite,       \* no siteId: the buyer has no site here yet
  PublicSite,   \* config.publicSiteUrl
  Requests,     \* slots for requests, and for servers that start
  MaxWindow,    \* bound of the half-hours counted
  MaxSessions   \* bound on the sessions opened

VARIABLES
  row,     \* BillingConfig; {} or one element
  window,  \* Math.floor(Date.now() / 1800000)
  opened,  \* the keys Stripe knows, with their parameters
  req

vars == <<row, window, opened, req>>

Amounts == {AmountOf[p] : p \in Prices} \cup {0}
PlanSettings == [price : Prices \cup {NoPrice}, amount : Amounts, enabled : BOOLEAN]

(* billingConfigSchema *)
Settings ==
  {s \in [plan : [Plans -> PlanSettings], grace : Graces] :
     \A p \in Plans : s.plan[p].enabled =>
       s.plan[p].price # NoPrice /\ s.plan[p].amount > 0}

DefaultGrace == Max(Graces)
Default ==
  [plan |-> [p \in Plans |-> [price |-> NoPrice, amount |-> 0, enabled |-> FALSE]],
   grace |-> DefaultGrace]

(* getBillingConfig: without a row no plan is enabled. *)
Current == IF row = {} THEN Default ELSE CHOOSE s \in row : TRUE

(* verifyPlanPrice's comparison; that the price is active is Stripe's answer. *)
Matches(s, p) == s.plan[p].price # NoPrice /\ AmountOf[s.plan[p].price] = s.plan[p].amount

Ops == {"none", "save", "import", "checkout"}
Idle ==
  [op |-> "none", step |-> "read", settings |-> Default, left |-> {},
   plan |-> CHOOSE p \in Plans : TRUE, customer |-> CHOOSE c \in Customers : TRUE]
RequestStates ==
  [op : Ops, step : {"read", "verify", "write"}, settings : Settings,
   left : SUBSET Plans, plan : Plans, customer : Customers]

At(r, op, step) == req[r].op = op /\ req[r].step = step
Finish(r) == req' = [req EXCEPT ![r] = Idle]

Init ==
  /\ row = {} /\ window = 1 /\ opened = {}
  /\ req = [r \in Requests |-> Idle]

-----------------------------------------------------------------------------
(* Settings *)

Enabled(s) == {p \in Plans : s.plan[p].enabled}

(* The plans are verified one by one; then the row is written. *)
Save(r, settings) ==
  /\ req[r].op = "none"
  /\ req' = [req EXCEPT ![r] =
       [Idle EXCEPT !.op = "save", !.settings = settings, !.left = Enabled(settings),
                    !.step = IF Enabled(settings) = {} THEN "write" ELSE "verify"]]
  /\ UNCHANGED <<row, window, opened>>

(* Each price the environment names is taken over with its amount. *)
Import(r) ==
  LET imported == [Default EXCEPT !.plan = [p \in Plans |->
        IF EnvPrice[p] = NoPrice THEN Default.plan[p]
        ELSE [price |-> EnvPrice[p], amount |-> AmountOf[EnvPrice[p]], enabled |-> TRUE]]]
  IN /\ req[r].op = "none"
     /\ row = {}
     /\ req' = [req EXCEPT ![r] =
          [Idle EXCEPT !.op = "import", !.settings = imported, !.left = Enabled(imported),
                       !.step = IF Enabled(imported) = {} THEN "write" ELSE "verify"]]
     /\ UNCHANGED <<row, window, opened>>

VerifyPlan(r, p) ==
  /\ req[r].op \in {"save", "import"} /\ req[r].step = "verify"
  /\ p \in req[r].left
  /\ Matches(req[r].settings, p)
  /\ req' = [req EXCEPT ![r].left = @ \ {p},
                        ![r].step = IF req[r].left = {p} THEN "write" ELSE "verify"]
  /\ UNCHANGED <<row, window, opened>>

UpsertSaved(r) ==
  /\ At(r, "save", "write")
  /\ row' = {req[r].settings}
  /\ Finish(r)
  /\ UNCHANGED <<window, opened>>

(* Mutant: update: settings. *)
ImportedOver(settings) == {settings}

(* create, and update: {}: a row that is there by now is left alone. *)
Imported(settings) == IF row = {} THEN {settings} ELSE row

UpsertImported(r) ==
  /\ At(r, "import", "write")
  /\ row' = Imported(req[r].settings)
  /\ Finish(r)
  /\ UNCHANGED <<window, opened>>

(* The price is archived or does not match, or a call of Stripe's fails: the *)
(* operator and the customer get an error, a starting server goes on without.*)
StripeFails(r) ==
  /\ req[r].step = "verify" \/ At(r, "checkout", "write")
  /\ Finish(r)
  /\ UNCHANGED <<row, window, opened>>

-----------------------------------------------------------------------------
(* Checkout *)

(* createCheckoutSession reads the settings; the plugin's route asks for no  *)
(* session when the site is already active.                                  *)
StartCheckout(r, c, plan) ==
  /\ req[r].op = "none"
  /\ Current.plan[plan].enabled
  /\ req' = [req EXCEPT ![r] = [Idle EXCEPT !.op = "checkout", !.step = "verify",
                                  !.settings = Current, !.plan = plan, !.customer = c]]
  /\ UNCHANGED <<row, window, opened>>

VerifyPrice(r) ==
  /\ At(r, "checkout", "verify")
  /\ Matches(req[r].settings, req[r].plan)
  /\ req' = [req EXCEPT ![r].step = "write"]
  /\ UNCHANGED <<row, window, opened>>

(* success_url and cancel_url: a site's buyer returns to its WordPress.       *)
ReturnTo(c, outcome) ==
  [host |-> IF c.site = NoSite THEN PublicSite ELSE c.url, outcome |-> outcome]

(* What Stripe is sent: its metadata name the site, the URL and the plan; the *)
(* mode is always "subscription".                                            *)
Parameters(r) ==
  LET c == req[r].customer
  IN [plan |-> req[r].plan, price |-> req[r].settings.plan[req[r].plan].price,
      grace |-> req[r].settings.grace, email |-> c.email,
      success |-> ReturnTo(c, "success"), cancel |-> ReturnTo(c, "canceled"),
      reference |-> IF c.site = NoSite THEN c.url ELSE c.site,
      site |-> c.site, url |-> c.url]

(* Mutant: the return pages are no part of what is hashed. *)
HashWithoutPages(q) == <<q.price, q.grace, q.email, q.plan>>

(* What is hashed (as if no two hashes agreed): neither the site, nor the    *)
(* reference, nor the URL of the metadata.                                   *)
ConfigHash(q) == <<q.price, q.grace, q.email, q.success, q.cancel, q.plan>>

Key(r) ==
  LET q == Parameters(r)
  IN [site |-> req[r].customer.site, plan |-> q.plan, price |-> q.price,
      hash |-> ConfigHash(q), window |-> window]

(* Without a site no key is sent, and every request opens a session. *)
CreateSession(r) ==
  /\ At(r, "checkout", "write")
  /\ IF req[r].customer.site = NoSite
       THEN UNCHANGED opened
       ELSE LET session == [key |-> Key(r), parameters |-> Parameters(r)]
            IN /\ session \in opened \/ Cardinality(opened) < MaxSessions
               /\ opened' = opened \cup {session}
  /\ Finish(r)
  /\ UNCHANGED <<row, window>>

(* Half an hour later *)
Tick ==
  /\ window < MaxWindow
  /\ window' = window + 1
  /\ UNCHANGED <<row, opened, req>>

Next ==
  \/ \E r \in Requests :
       \/ \E settings \in Settings : Save(r, settings)
       \/ Import(r) \/ UpsertSaved(r) \/ UpsertImported(r)
       \/ \E p \in Plans : VerifyPlan(r, p)
       \/ StripeFails(r)
       \/ \E c \in Customers, plan \in Plans : StartCheckout(r, c, plan)
       \/ VerifyPrice(r) \/ CreateSession(r)
  \/ Tick

Spec == Init /\ [][Next]_vars

-----------------------------------------------------------------------------
(* Properties *)

TypeOK ==
  /\ row \subseteq Settings /\ Cardinality(row) =< 1
  /\ window \in 1 .. MaxWindow
  /\ req \in [Requests -> RequestStates]

(* A customer who comes back, or clicks twice, while the operator changes    *)
(* the settings, or who comes with another e-mail or URL, never sends Stripe *)
(* a key it knows with other parameters, which it would refuse for the rest  *)
(* of the half-hour: the site in the key and the fields that are hashed      *)
(* determine those that are not, the reference and the metadata              *)
(* (checkoutService.ts:37-46, 48-77, 79-81).                                 *)
KeysNameOneRequest ==
  \A s, t \in opened : s.key = t.key => s.parameters = t.parameters

(* A server that starts while the operator saves the settings through        *)
(* another never undoes them: its import writes only where there was no row, *)
(* whatever it had read (billingConfigService.ts:77-90).                     *)
OperatorSettingsStay ==
  [][row # {} /\ row' # row => \E r \in Requests : At(r, "save", "write")
                                                   /\ row' = {req[r].settings}]_vars
=============================================================================
