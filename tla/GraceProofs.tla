----------------------------- MODULE GraceProofs -----------------------------
(* Theorems about Grace, for every period, grace and bound of the clock. *)
EXTENDS Grace, TLAPS

(* The larger and the smaller of two numbers. *)
LEMMA LargerSmaller ==
  ASSUME NEW a \in Nat, NEW b \in Nat
  PROVE  /\ Larger(a, b) \in Nat /\ a =< Larger(a, b) /\ b =< Larger(a, b)
         /\ Larger(a, b) \in {a, b}
         /\ Smaller(a, b) \in Nat /\ Smaller(a, b) =< a /\ Smaller(a, b) =< b
         /\ Smaller(a, b) \in {a, b}
BY DEF Larger, Smaller

-----------------------------------------------------------------------------
(* The inductive invariant *)

(* The latest end of a period, and the latest deadline of a grace. *)
LastEnd == MaxTime + Period
LastGrace == LastEnd + GraceDays

(* What Stripe holds: periods follow each other, the invoice paid last is of
   one that has begun, and an invoice is finalised by now. *)
StripeInv ==
  /\ sub.periodEnd =< LastEnd
  /\ paid =< sub.periodEnd /\ 0 < paid
  /\ sub.finalized =< now
  /\ 0 < sub.periodEnd

(* What a synchronisation has read is no later than what Stripe holds. *)
FetchInv ==
  /\ 0 < fetched.periodEnd /\ fetched.periodEnd =< sub.periodEnd
  /\ fetched.finalized =< sub.finalized
  /\ Terminal(fetched) => Terminal(sub)
  /\ busy /\ ~forgot => paid =< fetched.periodEnd

(* The first unpaid renewal is no later than the latest, and is the latest as
   long as no deadline was promised for it. *)
FirstInv ==
  /\ first =< sub.finalized
  /\ promised = 0 => first = sub.finalized

(* Neither date of the license passes what is paid, or the renewal that
   counts, by more than the grace. *)
Bound(since) == Larger(paid, since) + GraceDays
LicenseInv == license.expires =< Bound(Anchor) /\ license.grace =< Bound(Anchor)

(* As long as nothing was forgotten the license still has the deadline that
   was promised, or the subscription has ended. *)
PromiseInv ==
  promised # 0 /\ ~forgot =>
    \/ license.grace = promised /\ paid =< promised
    \/ license.grace = 0 /\ Terminal(sub) /\ (busy => Terminal(fetched))

IInv == TypeOK /\ StripeInv /\ FetchInv /\ FirstInv /\ LicenseInv /\ PromiseInv

(* The constants and the instants are natural numbers. *)
LEMMA InstantsAreNat ==
  /\ Period \in Nat \ {0} /\ GraceDays \in Nat /\ MaxTime \in Nat
  /\ Horizon \in Nat /\ LastEnd \in Nat /\ LastGrace = Horizon /\ LastEnd =< Horizon
  /\ Instants \subseteq Nat
  /\ \A n \in Nat : n =< Horizon => n \in Instants
  /\ MaxTime =< LastEnd
BY GraceAssumption DEF Horizon, Instants, LastEnd, LastGrace

(* The fields that the arithmetic is about. *)
LEMMA FieldTypes ==
  ASSUME TypeOK
  PROVE  /\ sub.finalized \in Nat /\ sub.periodEnd \in Nat /\ sub.ended \in Nat
         /\ fetched.finalized \in Nat /\ fetched.periodEnd \in Nat /\ fetched.ended \in Nat
         /\ license.expires \in Nat /\ license.grace \in Nat
         /\ paid \in Nat /\ now \in Nat /\ first \in Nat /\ promised \in Nat
<1>1. /\ sub.finalized \in Instants /\ sub.periodEnd \in Instants /\ sub.ended \in Instants
      /\ fetched.finalized \in Instants /\ fetched.periodEnd \in Instants
      /\ fetched.ended \in Instants
  BY DEF TypeOK, Subscriptions
<1>2. /\ license.expires \in Instants /\ license.grace \in Instants
      /\ paid \in Instants /\ first \in Instants /\ promised \in Instants
  BY DEF TypeOK
<1>3. now \in Nat
  BY InstantsAreNat DEF TypeOK
<1> QED BY <1>1, <1>2, <1>3, InstantsAreNat

(* The initial state satisfies it. *)
LEMMA InitInv == Init => IInv
<1> SUFFICES ASSUME Init PROVE IInv
  OBVIOUS
<1>1. Period \in Nat /\ 0 < Period /\ Period =< LastEnd /\ Period \in Instants /\ 0 \in Instants
  BY GraceAssumption DEF LastEnd, Instants, Horizon
<1>2. sub \in Subscriptions
  BY <1>1 DEF Init, Subscriptions
<1>3. TypeOK
  <2>1. /\ now \in 0 .. MaxTime /\ paid \in Instants
        /\ first \in Instants /\ promised \in Instants
    BY <1>1, GraceAssumption DEF Init
  <2>2. license \in [status : {"ACTIVE", "EXPIRED"}, expires : Instants, grace : Instants]
    BY <1>1 DEF Init
  <2>3. fetched \in Subscriptions /\ busy \in BOOLEAN /\ forgot \in BOOLEAN
    BY <1>2 DEF Init
  <2> QED BY <1>2, <2>1, <2>2, <2>3 DEF TypeOK
<1>4. StripeInv /\ FetchInv /\ FirstInv
  BY <1>1 DEF Init, StripeInv, FetchInv, FirstInv
<1>5. LicenseInv /\ PromiseInv
  BY <1>1, GraceAssumption DEF Init, LicenseInv, PromiseInv, Bound, Anchor, Larger
<1> QED BY <1>3, <1>4, <1>5 DEF IInv

(* The bound: a number, past what is paid, and no later for an earlier
   renewal. *)
LEMMA BoundGrows ==
  ASSUME NEW a \in Nat, NEW b \in Nat, a =< b, paid \in Nat
  PROVE  /\ Bound(a) \in Nat /\ paid =< Bound(a)
         /\ Bound(a) =< Bound(b) /\ Bound(b) \in Nat
<1>1. Larger(paid, a) =< Larger(paid, b)
  BY DEF Larger
<1>2. /\ Larger(paid, a) \in Nat /\ paid =< Larger(paid, a)
      /\ Larger(paid, b) \in Nat
  BY LargerSmaller
<1> QED BY <1>1, <1>2, InstantsAreNat DEF Bound

(* Both dates of the license are within the bound of the latest renewal. *)
LEMMA WithinLatest ==
  ASSUME IInv
  PROVE  license.expires =< Bound(sub.finalized) /\ license.grace =< Bound(sub.finalized)
<1> USE FieldTypes DEF IInv
<1>1. Anchor \in Nat /\ Anchor =< sub.finalized
  BY DEF Anchor, FirstInv
<1>2. Bound(Anchor) \in Nat /\ Bound(sub.finalized) \in Nat
      /\ Bound(Anchor) =< Bound(sub.finalized)
  BY <1>1, BoundGrows
<1> QED BY <1>2 DEF LicenseInv

-----------------------------------------------------------------------------
(* Steps of Stripe *)

(* A step of Stripe that neither pays an invoice nor moves a date back keeps
   the invariant; a finalisation may move the first unpaid renewal along. *)
LEMMA StripeKeeps ==
  ASSUME IInv, NEW new \in Subscriptions, Stripe(new),
         sub.periodEnd =< new.periodEnd, new.periodEnd =< LastEnd,
         sub.finalized =< new.finalized, new.finalized =< now,
         Terminal(sub) => Terminal(new),
         UNCHANGED <<paid, promised, forgot>>,
         first' = IF promised = 0 THEN new.finalized ELSE first
  PROVE  IInv'
<1> USE FieldTypes DEF IInv
<1>1. TypeOK'
  <2>1. new.finalized \in Instants
    BY DEF Subscriptions
  <2> QED BY <2>1 DEF TypeOK, Stripe
<1>2. new.periodEnd \in Nat /\ new.finalized \in Nat
  BY InstantsAreNat DEF Subscriptions
<1>3. StripeInv'
  BY <1>2, InstantsAreNat DEF StripeInv, Stripe
<1>4. FetchInv'
  BY <1>2 DEF FetchInv, Stripe, Terminal
<1>5. FirstInv'
  BY <1>2 DEF FirstInv, Stripe
<1>6. LicenseInv'
  <2>1. /\ Anchor \in Nat /\ Anchor' \in Nat /\ Anchor =< Anchor'
    BY <1>2 DEF Anchor, FirstInv, Stripe
  <2>2. Bound(Anchor) \in Nat /\ Bound(Anchor') \in Nat /\ Bound(Anchor) =< Bound(Anchor')
    BY <2>1, BoundGrows
  <2>3. /\ license.expires =< Bound(Anchor') /\ license.grace =< Bound(Anchor')
    BY <2>2 DEF LicenseInv
  <2>4. license' = license /\ paid' = paid
    BY DEF Stripe
  <2> QED BY <2>3, <2>4 DEF LicenseInv, Bound
<1>7. PromiseInv'
  BY DEF PromiseInv, Stripe, Terminal
<1> QED BY <1>1, <1>3, <1>4, <1>5, <1>6, <1>7

(* Renewals, finalisations, failures and the end of a subscription. *)
LEMMA UnpaidStepsKeep ==
  ASSUME IInv, Renews \/ Finalizes \/ PaymentFails \/ Ends
  PROVE  IInv'
<1> USE FieldTypes DEF IInv
<1>1. CASE Renews
  <2> DEFINE new == [sub EXCEPT !.invoice = "draft", !.periodEnd = @ + Period]
  <2>1. Stripe(new) /\ UNCHANGED <<paid, first, promised, forgot>> /\ now >= sub.periodEnd
        /\ ~Terminal(sub)
    BY <1>1 DEF Renews, Terminal
  <2>2. sub.periodEnd + Period =< LastEnd /\ sub.periodEnd + Period \in Nat
    BY <2>1, InstantsAreNat DEF LastEnd, TypeOK
  <2>3. sub.periodEnd + Period \in Instants
    BY <2>2, InstantsAreNat
  <2>4. /\ new \in Subscriptions
        /\ new.periodEnd = sub.periodEnd + Period /\ new.finalized = sub.finalized
    BY <2>3 DEF TypeOK, Subscriptions
  <2>5. sub.periodEnd =< new.periodEnd /\ new.periodEnd =< LastEnd
    BY <2>2, <2>4, InstantsAreNat
  <2>6. sub.finalized =< new.finalized /\ new.finalized =< now
    BY <2>4 DEF StripeInv
  <2>7. first' = IF promised = 0 THEN new.finalized ELSE first
    BY <2>1, <2>4 DEF FirstInv
  <2> HIDE DEF new
  <2> QED BY <2>1, <2>4, <2>5, <2>6, <2>7, StripeKeeps
<1>2. CASE Finalizes
  <2> DEFINE new == [sub EXCEPT !.invoice = "open", !.finalized = now]
  <2>1. Stripe(new) /\ UNCHANGED <<paid, promised, forgot>> /\ ~Terminal(sub)
    BY <1>2 DEF Finalizes, Terminal
  <2>2. now \in Instants
    BY InstantsAreNat DEF TypeOK
  <2>3. /\ new \in Subscriptions
        /\ new.periodEnd = sub.periodEnd /\ new.finalized = now
    BY <2>2 DEF TypeOK, Subscriptions
  <2>4. /\ sub.periodEnd =< new.periodEnd /\ new.periodEnd =< LastEnd
        /\ sub.finalized =< new.finalized /\ new.finalized =< now
    BY <2>3 DEF StripeInv
  <2>5. first' = IF promised = 0 THEN new.finalized ELSE first
    BY <1>2, <2>3 DEF Finalizes
  <2> HIDE DEF new
  <2> QED BY <2>1, <2>3, <2>4, <2>5, StripeKeeps
<1>3. ASSUME NEW new \in Subscriptions, Stripe(new),
             UNCHANGED <<paid, first, promised, forgot>>,
             new.periodEnd = sub.periodEnd, new.finalized = sub.finalized, ~Terminal(sub)
      PROVE  IInv'
  <2>1. /\ sub.periodEnd =< new.periodEnd /\ new.periodEnd =< LastEnd
        /\ sub.finalized =< new.finalized /\ new.finalized =< now
    BY <1>3 DEF StripeInv
  <2>2. first' = IF promised = 0 THEN new.finalized ELSE first
    BY <1>3 DEF FirstInv
  <2> QED BY <1>3, <2>1, <2>2, StripeKeeps
<1>4. CASE PaymentFails
  <2> DEFINE new == [sub EXCEPT !.invoice = "failed", !.status = "past_due"]
  <2>1. new \in Subscriptions /\ new.periodEnd = sub.periodEnd /\ new.finalized = sub.finalized
    BY DEF TypeOK, Subscriptions
  <2>2. Stripe(new) /\ UNCHANGED <<paid, first, promised, forgot>> /\ ~Terminal(sub)
    BY <1>4 DEF PaymentFails, Terminal
  <2> HIDE DEF new
  <2> QED BY <1>3, <2>1, <2>2
<1>5. CASE Ends
  <2> DEFINE canceled == [sub EXCEPT !.status = "canceled", !.ended = now]
             paused == [sub EXCEPT !.status = "paused"]
  <2>1. now \in Instants
    BY InstantsAreNat DEF TypeOK
  <2>2. /\ canceled \in Subscriptions
        /\ canceled.periodEnd = sub.periodEnd /\ canceled.finalized = sub.finalized
        /\ paused \in Subscriptions
        /\ paused.periodEnd = sub.periodEnd /\ paused.finalized = sub.finalized
    BY <2>1 DEF TypeOK, Subscriptions
  <2>3. /\ Stripe(canceled) \/ Stripe(paused)
        /\ UNCHANGED <<paid, first, promised, forgot>> /\ ~Terminal(sub)
    BY <1>5 DEF Ends, Terminal
  <2> HIDE DEF canceled, paused
  <2> QED BY <1>3, <2>2, <2>3
<1> QED BY <1>1, <1>2, <1>4, <1>5

(* A payment. *)
LEMMA PaymentKeeps ==
  ASSUME IInv, PaymentSucceeds
  PROVE  IInv'
<1> USE FieldTypes DEF IInv
<1> DEFINE new == [sub EXCEPT !.invoice = "paid", !.status = "active"]
<1>1. /\ new \in Subscriptions
      /\ new.periodEnd = sub.periodEnd /\ new.finalized = sub.finalized
      /\ ~Terminal(fetched)
  BY DEF TypeOK, Subscriptions, FetchInv, Terminal, PaymentSucceeds
<1>2. /\ sub' = new /\ paid' = sub.periodEnd /\ first' = sub.finalized
      /\ promised' = 0 /\ forgot' = busy
      /\ fetched' = fetched /\ busy' = busy /\ license' = license /\ now' = now
  BY DEF PaymentSucceeds, Stripe
<1> HIDE DEF new
<1>3. TypeOK'
  <2>1. sub.periodEnd \in Instants /\ sub.finalized \in Instants /\ 0 \in Instants
    BY InstantsAreNat DEF TypeOK, Subscriptions
  <2> QED BY <1>1, <1>2, <2>1 DEF TypeOK
<1>4. StripeInv' /\ FetchInv' /\ FirstInv' /\ PromiseInv'
  BY <1>1, <1>2 DEF StripeInv, FetchInv, FirstInv, PromiseInv, Terminal
<1>5. LicenseInv'
  <2>1. Larger(paid, sub.finalized) =< Larger(sub.periodEnd, sub.finalized)
    BY DEF StripeInv, Larger
  <2>2. Larger(paid, sub.finalized) \in Nat /\ Larger(sub.periodEnd, sub.finalized) \in Nat
    BY LargerSmaller
  <2>3. Bound(sub.finalized) =< Larger(sub.periodEnd, sub.finalized) + GraceDays
    BY <2>1, <2>2, InstantsAreNat DEF Bound
  <2>4. Anchor' = sub.finalized
    BY <1>1, <1>2 DEF Anchor
  <2>5. Bound(Anchor)' = Larger(sub.periodEnd, sub.finalized) + GraceDays
    BY <1>2, <2>4 DEF Bound
  <2>6. Bound(sub.finalized) \in Nat
    BY BoundGrows
  <2>7. license.expires =< Bound(Anchor)' /\ license.grace =< Bound(Anchor)'
    BY <2>2, <2>3, <2>5, <2>6, WithinLatest, InstantsAreNat
  <2> QED BY <1>2, <2>7 DEF LicenseInv
<1> QED BY <1>3, <1>4, <1>5

-----------------------------------------------------------------------------
(* Synchronisations *)

(* What billingWindow computes from the fetched subscription stays within the
   bound of the latest renewal, and renews a deadline of the license only if
   that has passed. *)
LEMMA WindowBounded ==
  ASSUME IInv, busy
  PROVE  LET g == Grace(fetched, PaidThrough)
             e == Expiry(fetched, PaidThrough)
         IN /\ g \in Nat /\ g =< Bound(sub.finalized)
            /\ e \in Nat /\ (e =< paid \/ e = g)
            /\ ~Failing(fetched) => g = 0
            /\ Failing(fetched) => PaidThrough =< g /\ g # 0
            /\ license.grace # 0 /\ PaidThrough =< license.grace => g \in {0, license.grace}
<1> USE FieldTypes DEF IInv
<1> DEFINE p == PaidThrough
           bound == Bound(sub.finalized)
           g == Grace(fetched, p)
           e == Expiry(fetched, p)
<1>1. p \in Nat /\ p =< paid /\ 0 < p
  BY LargerSmaller DEF PaidThrough, StripeInv, FetchInv
<1>2. bound \in Nat
  BY BoundGrows
<1>3. Larger(p, fetched.finalized) \in Nat /\ p =< Larger(p, fetched.finalized)
      /\ Larger(p, fetched.finalized) =< Larger(paid, sub.finalized)
      /\ Larger(paid, sub.finalized) \in Nat
  BY <1>1 DEF Larger, FetchInv
<1>4. /\ Larger(p, fetched.finalized) + GraceDays \in Nat
      /\ p =< Larger(p, fetched.finalized) + GraceDays
      /\ Larger(p, fetched.finalized) + GraceDays =< bound
  BY <1>1, <1>3, InstantsAreNat DEF Bound
<1> HIDE DEF p
<1>5. CASE ~Failing(fetched)
  <2>1. g = 0
    BY <1>5 DEF Grace
  <2>2. e \in Nat /\ e =< paid
    <3>1. CASE Terminal(fetched)
      <4> DEFINE end == IF fetched.ended # 0 THEN fetched.ended ELSE now
      <4>1. end \in Nat
        OBVIOUS
      <4>2. e = Smaller(p, end)
        BY <3>1 DEF Expiry
      <4> HIDE DEF end, e
      <4>3. e \in Nat /\ e =< p
        BY <4>1, <4>2, <1>1, LargerSmaller
      <4> QED BY <4>3, <1>1
    <3>2. CASE ~Terminal(fetched)
      <4>1. e = Larger(p, 0)
        BY <3>2, <2>1 DEF Expiry
      <4> QED BY <4>1, <1>1 DEF Larger
    <3> QED BY <3>1, <3>2
  <2> HIDE DEF e, g
  <2> QED BY <1>2, <1>5, <2>1, <2>2 DEF p, e, g
<1>6. CASE Failing(fetched)
  <2>1. g = IF license.grace # 0 /\ p =< license.grace THEN license.grace
            ELSE Larger(p, fetched.finalized) + GraceDays
    BY <1>6, <1>1 DEF Grace
  <2>2. license.grace =< bound
    BY WithinLatest
  <2>3. g \in Nat /\ g =< bound /\ p =< g /\ g # 0
    BY <2>1, <2>2, <1>1, <1>4
  <2>4. e = Larger(p, g)
    BY <1>6 DEF Expiry, Failing
  <2>5. e \in Nat /\ (e =< paid \/ e = g)
    <3>1. Larger(p, g) \in {p, g}
      BY <2>3, <1>1, LargerSmaller
    <3> QED BY <2>3, <2>4, <3>1, <1>1
  <2>6. license.grace # 0 /\ p =< license.grace => g = license.grace
    BY <2>1
  <2> HIDE DEF e, g
  <2> QED BY <1>6, <2>3, <2>5, <2>6 DEF p, e, g
<1> QED BY <1>5, <1>6

(* While nothing was forgotten, a synchronisation keeps the deadline that was
   promised, or takes it away. *)
LEMMA PromiseKept ==
  ASSUME IInv, WriteLicense, promised # 0, ~forgot
  PROVE  license'.grace \in {0, promised}
<1> USE FieldTypes DEF IInv
<1>1. license'.grace = Grace(fetched, PaidThrough)
  BY DEF WriteLicense, Window
<1>2. PaidThrough =< paid /\ PaidThrough \in Nat
  BY LargerSmaller DEF PaidThrough
<1>3. CASE license.grace = promised /\ paid =< promised
  BY <1>1, <1>2, <1>3, WindowBounded DEF WriteLicense
<1>4. CASE Terminal(fetched)
  BY <1>1, <1>4, WindowBounded DEF WriteLicense, Failing
<1> QED BY <1>3, <1>4 DEF PromiseInv, WriteLicense

(* A synchronisation begins, is given up, or writes the license. *)
LEMMA SynchronisationKeeps ==
  ASSUME IInv, FetchSubscription \/ Abort \/ WriteLicense
  PROVE  IInv'
<1> USE FieldTypes DEF IInv
<1>1. CASE FetchSubscription
  <2>1. TypeOK' /\ StripeInv' /\ FirstInv' /\ LicenseInv' /\ PromiseInv'
    BY <1>1 DEF FetchSubscription, TypeOK, StripeInv, FirstInv, LicenseInv, Bound, Anchor,
      PromiseInv, Terminal
  <2>2. FetchInv'
    BY <1>1 DEF FetchSubscription, FetchInv, StripeInv, Terminal
  <2> QED BY <2>1, <2>2
<1>2. CASE Abort
  BY <1>2 DEF Abort, TypeOK, StripeInv, FetchInv, FirstInv, LicenseInv, Bound, Anchor,
    PromiseInv, Terminal
<1>3. CASE WriteLicense
  <2> DEFINE g == Grace(fetched, PaidThrough)
             e == Expiry(fetched, PaidThrough)
             bound == Bound(sub.finalized)
  <2>1. /\ g \in Nat /\ g =< bound
        /\ e \in Nat /\ (e =< paid \/ e = g)
        /\ Failing(fetched) => PaidThrough =< g /\ g # 0
        /\ ~Failing(fetched) => g = 0
    BY <1>3, WindowBounded DEF WriteLicense
  <2>2. bound =< Horizon /\ bound \in Nat /\ paid =< bound
    <3>1. Larger(paid, sub.finalized) \in {paid, sub.finalized}
      BY LargerSmaller
    <3>2. paid =< LastEnd /\ sub.finalized =< LastEnd
      BY InstantsAreNat DEF StripeInv, TypeOK
    <3>3. bound \in Nat /\ paid =< bound
      BY BoundGrows
    <3> QED BY <3>1, <3>2, <3>3, InstantsAreNat DEF LastGrace, Bound
  <2>3. license' = [status |-> WindowStatus(fetched, PaidThrough), expires |-> e, grace |-> g]
    BY <1>3 DEF WriteLicense, Window
  <2>4. /\ sub' = sub /\ paid' = paid /\ fetched' = fetched /\ now' = now /\ busy' = FALSE
        /\ promised' \in {0, promised, g}
        /\ promised' = IF fetched.invoice = "paid" THEN 0
                       ELSE IF promised = 0 THEN g ELSE promised
        /\ first' = IF promised' = 0 THEN sub.finalized ELSE first
        /\ forgot' = (fetched.invoice # "paid"
                       /\ (forgot \/ (promised # 0 /\ fetched.invoice # "failed")))
    BY <1>3, <2>3 DEF WriteLicense
  <2>5. license'.expires = e /\ license'.grace = g
    BY <2>3
  <2> HIDE DEF g, e
  <2>6. g \in Instants /\ e \in Instants
    <3> HIDE DEF bound
    <3> QED BY <2>1, <2>2, InstantsAreNat
  <2>7. TypeOK'
    <3>1. WindowStatus(fetched, PaidThrough) \in {"ACTIVE", "EXPIRED"}
      BY DEF WindowStatus
    <3>2. license' \in [status : {"ACTIVE", "EXPIRED"}, expires : Instants, grace : Instants]
      BY <2>3, <2>6, <3>1
    <3>3. promised' \in Instants /\ first' \in Instants /\ forgot' \in BOOLEAN
      <4>1. promised' \in {0, promised, g} /\ 0 \in Instants
        BY <2>4, InstantsAreNat
      <4>2. first' \in {first, sub.finalized}
        BY <2>4
      <4> QED BY <2>4, <2>6, <4>1, <4>2 DEF TypeOK, Subscriptions
    <3> QED BY <2>4, <3>2, <3>3 DEF TypeOK
  <2>8. StripeInv' /\ FetchInv' /\ FirstInv'
    BY <2>4 DEF StripeInv, FetchInv, FirstInv, Terminal
  <2>9. LicenseInv'
    <3>1. g =< bound /\ e =< bound
      BY <2>1, <2>2
    <3>2. CASE Anchor' = sub.finalized
      BY <2>4, <2>5, <3>1, <3>2 DEF LicenseInv, Bound
    <3>3. CASE Anchor' # sub.finalized
      <4>1. promised' # 0 /\ ~forgot' /\ first' = first
        BY <2>4, <3>3 DEF Anchor
      <4>2. promised # 0 /\ ~forgot /\ fetched.invoice = "failed"
        BY <2>4, <3>3, <4>1 DEF Anchor, FirstInv
      <4>3. Anchor = first /\ Anchor' = first /\ Bound(Anchor)' = Bound(first)
        BY <2>4, <4>1, <4>2 DEF Anchor, Bound
      <4>4. g =< license.grace
        <5>1. CASE Failing(fetched)
          <6>1. ~Terminal(fetched)
            BY <5>1 DEF Failing
          <6>2. license.grace = promised
            BY <1>3, <4>2, <6>1 DEF PromiseInv, WriteLicense
          <6>3. g \in {0, promised}
            BY <1>3, <2>5, <4>2, PromiseKept
          <6> QED BY <6>2, <6>3
        <5>2. CASE ~Failing(fetched)
          BY <5>2, <2>1
        <5> QED BY <5>1, <5>2
      <4>5. license.grace =< Bound(first)
        BY <4>3 DEF LicenseInv
      <4>6. paid =< Bound(first) /\ Bound(first) \in Nat
        BY BoundGrows
      <4>7. g =< Bound(first) /\ e =< Bound(first)
        BY <2>1, <4>4, <4>5, <4>6
      <4> QED BY <2>5, <4>3, <4>7 DEF LicenseInv
    <3> QED BY <3>2, <3>3
  <2>10. PromiseInv'
    <3> SUFFICES ASSUME promised' # 0, ~forgot'
                 PROVE  \/ g = promised' /\ paid =< promised'
                        \/ g = 0 /\ Terminal(sub)
      BY <2>4, <2>5 DEF PromiseInv, Terminal
    <3>1. ~forgot /\ (promised # 0 => fetched.invoice = "failed")
      BY <2>4
    <3>2. CASE promised = 0
      <4>1. g = promised' /\ g # 0
        BY <2>4, <3>1, <3>2
      <4>2. Failing(fetched)
        BY <4>1, <2>1
      <4>3. paid =< fetched.periodEnd
        BY <1>3, <3>1 DEF FetchInv, WriteLicense
      <4>4. PaidThrough = paid
        BY <4>3 DEF PaidThrough, Smaller
      <4> QED BY <4>1, <4>2, <4>4, <2>1
    <3>3. CASE promised # 0
      <4>1. promised' = promised
        BY <2>4, <3>1, <3>3
      <4>2. g \in {0, promised}
        BY <1>3, <2>5, <3>1, <3>3, PromiseKept
      <4>3. CASE license.grace = promised /\ paid =< promised
        <5>1. CASE Terminal(fetched)
          BY <5>1, <2>1 DEF FetchInv, Failing
        <5>2. CASE ~Terminal(fetched)
          BY <3>1, <4>1, <4>2, <4>3, <5>2, <2>1 DEF Failing
        <5> QED BY <5>1, <5>2
      <4>4. CASE license.grace = 0 /\ Terminal(sub) /\ Terminal(fetched)
        BY <4>4, <2>1 DEF Failing
      <4> QED BY <3>1, <3>3, <4>3, <4>4, <1>3 DEF PromiseInv, WriteLicense
    <3> QED BY <3>2, <3>3
  <2> QED BY <2>7, <2>8, <2>9, <2>10
<1> QED BY <1>1, <1>2, <1>3

(* Every step keeps the invariant. *)
LEMMA InvKept == IInv /\ [Next]_vars => IInv'
<1> SUFFICES ASSUME IInv, [Next]_vars PROVE IInv'
  OBVIOUS
<1>1. CASE Tick
  <2>1. TypeOK'
    BY <1>1, InstantsAreNat DEF IInv, TypeOK, Tick
  <2>2. StripeInv' /\ FetchInv' /\ FirstInv' /\ LicenseInv' /\ PromiseInv'
    BY <1>1, FieldTypes DEF IInv, Tick, StripeInv, FetchInv, FirstInv, LicenseInv, Bound,
      Anchor, PromiseInv, Terminal
  <2> QED BY <2>1, <2>2 DEF IInv
<1>2. CASE UNCHANGED vars
  BY <1>2 DEF vars, IInv, TypeOK, StripeInv, FetchInv, FirstInv, LicenseInv, Bound, Anchor,
    PromiseInv, Terminal
<1> QED BY <1>1, <1>2, UnpaidStepsKeep, PaymentKeeps, SynchronisationKeeps DEF Next

(* The invariant holds throughout. *)
LEMMA InvHolds == Spec => []IInv
BY InitInv, InvKept, PTL DEF Spec

-----------------------------------------------------------------------------
(* Theorems *)

(* The variables keep their types; the deadlines stay within the horizon. *)
THEOREM TypeCorrect == Spec => []TypeOK
<1>1. IInv => TypeOK
  BY DEF IInv
<1> QED BY <1>1, InvHolds, PTL

(* Access never outlives what was paid, or the first unpaid renewal, by more
   than the grace, whatever renewals, payments, failures and synchronisations
   interleave, unless the deadline was forgotten; then it is the latest. *)
THEOREM NoUnpaid == Spec => []NoUnpaidPeriod
<1>1. IInv => NoUnpaidPeriod
  BY DEF IInv, LicenseInv, Bound, NoUnpaidPeriod
<1> QED BY <1>1, InvHolds, PTL

(* While every synchronisation of a delinquency sees an attempted invoice,
   its deadline does not move. *)
THEOREM GraceStays == Spec => GraceMovesOnlyWhenForgotten
<1>1. ASSUME IInv, Next, license' # license, promised # 0, ~forgot
      PROVE  license'.grace \in {0, promised}
  <2>1. WriteLicense
    BY <1>1 DEF Next, Renews, Finalizes, PaymentFails, PaymentSucceeds, Ends, Stripe,
      FetchSubscription, Abort, Tick
  <2> QED BY <1>1, <2>1, PromiseKept
<1>2. IInv /\ [Next]_vars =>
        [license' # license /\ promised # 0 /\ ~forgot =>
           license'.grace \in {0, promised}]_vars
  BY <1>1
<1> QED BY <1>2, InvHolds, PTL DEF Spec, GraceMovesOnlyWhenForgotten
=============================================================================
